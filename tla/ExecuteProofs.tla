--------------------------- MODULE ExecuteProofs ---------------------------
(***************************************************************************)
(* Theorems about what /v1/execute does around the executor's requests.    *)
(* The rate limit holds and only a spent bucket refuses, for any capacity,  *)
(* rate, number of users and threads; a call for a schema returns what the  *)
(* server had, for any number of threads, servers and schema versions; the  *)
(* request cache keeps what was used last and gives out fresh results, for  *)
(* any size and time to live; what the messages of Bloomberg become on      *)
(* their way to the caller's frames is whole, for any plan, securities,     *)
(* fields, records, rows and parts. The arguments are in README.md.         *)
(***************************************************************************)
EXTENDS RateLimit, SchemaCache, ExecuteEndpoint, Responses,
        SequenceTheorems, FiniteSetTheorems, TLAPS

-----------------------------------------------------------------------------
(* The rate limiter                                                        *)

(* TypeOK without the model's bound on the clock.                          *)
BucketsOK ==
  /\ clock \in Nat
  /\ tokens \in [Users -> 0..Full]
  /\ last \in [Users -> Nat]
  /\ grants \in [Users -> Seq(Nat)]

CallsOK ==
  /\ pc \in [Threads -> {"idle", "found", "timed"}]
  /\ user \in [Threads -> Users \cup {NoUser}]
  /\ now \in [Threads -> Nat]
  /\ buckets \subseteq Users
  /\ \A t \in Threads : pc[t] # "idle" => user[t] \in buckets

(* A user without a bucket was granted nothing.                            *)
NothingBeforeBucket == \A u \in Users \ buckets : grants[u] = <<>>

(* Whatever the tokens left, they and the grants since any grant i fit in  *)
(* a full bucket and what was gained since i.                              *)
Room(u) ==
  \A i \in DOMAIN grants[u] :
    /\ grants[u][i] <= last[u]
    /\ tokens[u] + (Len(grants[u]) - i + 1) * Token
         <= Full + (last[u] - grants[u][i]) * PerMinute

RoomInv == \A u \in Users : Room(u)

LimitInv == BucketsOK /\ CallsOK /\ NothingBeforeBucket /\ RoomInv /\ WindowBound

-----------------------------------------------------------------------------

LEMMA Distributes ==
  ASSUME NEW a \in Int, NEW b \in Int, NEW c \in Int, NEW k \in Int
  PROVE  (a - c) * k = (a - b) * k + (b - c) * k
  OBVIOUS

LEMMA Positive ==
  ASSUME NEW a \in Int, NEW b \in Int, NEW k \in Nat, a <= b
  PROVE  (b - a) * k \in Nat
<1>1. PICK d \in Nat : d = b - a
  OBVIOUS
<1> QED
  BY <1>1

LEMMA OneMore ==
  ASSUME NEW n \in Nat, NEW i \in Nat
  PROVE  /\ (n - i + 1) * Token \in Int
         /\ (n + 1 - i + 1) * Token = (n - i + 1) * Token + Token
  BY DEF Token

LEMMA FullType == Full \in Nat /\ Token = 60 /\ Full >= Token /\ PerMinute \in Nat
  BY SettingsAssumption DEF Full, Token

(* A refill stays within the capacity and gains at most the rate, and the  *)
(* bucket's time does not go back.                                         *)
LEMMA RefillBounds ==
  ASSUME BucketsOK, NEW u \in Users, NEW n \in Nat
  PROVE  /\ Latest(u, n) \in Nat
         /\ last[u] <= Latest(u, n)
         /\ Refilled(u, n) \in 0..Full
         /\ Refilled(u, n) <= tokens[u] + (Latest(u, n) - last[u]) * PerMinute
<1>1. /\ last[u] \in Nat /\ tokens[u] \in 0..Full /\ Full \in Nat
      /\ PerMinute \in Nat
  BY FullType DEF BucketsOK
<1>2. CASE n <= last[u]
  <2>1. Refilled(u, n) = tokens[u] /\ Latest(u, n) = last[u]
    BY <1>1, <1>2 DEF Refilled, Latest
  <2>2. (last[u] - last[u]) * PerMinute = 0
    BY <1>1
  <2> QED
    BY <1>1, <2>1, <2>2
<1>3. CASE n > last[u]
  <2>1. Latest(u, n) = n
    BY <1>3 DEF Latest
  <2>2. (n - last[u]) * PerMinute \in Nat
    BY <1>1, <1>3, Positive
  <2>3. /\ Gained(u, n) = tokens[u] + (n - last[u]) * PerMinute
        /\ Refilled(u, n) = IF Gained(u, n) <= Full THEN Gained(u, n) ELSE Full
    BY <1>1, <1>3 DEF Gained, Refilled
  <2> QED
    BY <1>1, <1>3, <2>1, <2>2, <2>3
<1> QED
  BY <1>1, <1>2, <1>3

(* Between two grants there is room for both and for all that came between.*)
LEMMA RoomAfterRefill ==
  ASSUME BucketsOK, NEW u \in Users, Room(u), NEW n \in Nat,
         NEW i \in DOMAIN grants[u]
  PROVE  /\ grants[u][i] <= Latest(u, n)
         /\ Refilled(u, n) + (Len(grants[u]) - i + 1) * Token
              <= Full + (Latest(u, n) - grants[u][i]) * PerMinute
<1> DEFINE g      == grants[u][i]
           gap    == (Len(grants[u]) - i + 1) * Token
           since  == (last[u] - g) * PerMinute
           gained == (Latest(u, n) - last[u]) * PerMinute
           both   == (Latest(u, n) - g) * PerMinute
<1>1. /\ g \in Nat /\ last[u] \in Nat /\ Len(grants[u]) \in Nat /\ i \in Nat
      /\ tokens[u] \in Int /\ Full \in Nat /\ PerMinute \in Nat /\ Token = 60
  BY FullType DEF BucketsOK
<1>2. g <= last[u] /\ tokens[u] + gap <= Full + since
  BY DEF Room
<1>3. /\ Latest(u, n) \in Nat /\ last[u] <= Latest(u, n) /\ Refilled(u, n) \in Int
      /\ Refilled(u, n) <= tokens[u] + gained
  BY RefillBounds
<1>4. both = gained + since
  <2>1. PICK a, b, c \in Int : a = Latest(u, n) /\ b = last[u] /\ c = g
    BY <1>1, <1>3
  <2>2. (a - c) * PerMinute = (a - b) * PerMinute + (b - c) * PerMinute
    BY <1>1, Distributes
  <2> QED
    BY <2>1, <2>2
<1>5. gap \in Int
  BY <1>1
<1>6. since \in Nat /\ gained \in Nat
  <2>1. \A a, b \in Int : a <= b => (b - a) * PerMinute \in Nat
    BY <1>1, Positive
  <2>2. /\ g \in Int /\ last[u] \in Int /\ Latest(u, n) \in Int
        /\ g <= last[u] /\ last[u] <= Latest(u, n)
    BY <1>1, <1>2, <1>3
  <2>3. since \in Nat
    BY <2>1, <2>2, Zenon
  <2>4. gained \in Nat
    BY <2>1, <2>2, Zenon
  <2> QED
    BY <2>3, <2>4
<1>7. g <= Latest(u, n)
  BY <1>1, <1>2, <1>3
<1> HIDE DEF g, gap, since, gained, both
<1>8. Refilled(u, n) + gap <= Full + both
  BY <1>1, <1>2, <1>3, <1>4, <1>5, <1>6
<1> QED
  BY <1>7, <1>8 DEF g, gap, both

-----------------------------------------------------------------------------

LEMMA LimitInit == Init => LimitInv
  BY FullType DEF Init, LimitInv, BucketsOK, CallsOK, NothingBeforeBucket, RoomInv,
                  Room, WindowBound

(* A step that leaves the buckets with their grants alone keeps the room.  *)
LEMMA Untouched ==
  ASSUME LimitInv, UNCHANGED <<bucket, grants>>, clock' \in Nat, CallsOK'
  PROVE  LimitInv'
  BY DEF LimitInv, BucketsOK, NothingBeforeBucket, RoomInv, Room, WindowBound,
         bucket

LEMMA BucketForStep ==
  ASSUME LimitInv, NEW t \in Threads, NEW u \in Users, BucketFor(t, u)
  PROVE  LimitInv'
<1>1. CallsOK'
  <2>1. buckets' = buckets \cup {u} /\ now' = now
    BY DEF BucketFor, bucket
  <2>2. pc' = [pc EXCEPT ![t] = "found"] /\ user' = [user EXCEPT ![t] = u]
    BY DEF BucketFor
  <2> QED
    BY <2>1, <2>2 DEF LimitInv, CallsOK
<1>2. CASE u \in buckets
  BY <1>1, <1>2, Untouched DEF BucketFor, LimitInv, BucketsOK
<1>3. CASE u \notin buckets
  <2>1. /\ buckets' = buckets \cup {u} /\ tokens' = [tokens EXCEPT ![u] = Full]
        /\ last' = [last EXCEPT ![u] = clock]
        /\ UNCHANGED <<clock, grants>>
    BY <1>3 DEF BucketFor, InitialTokens
  <2>2. BucketsOK'
    BY <2>1, FullType DEF LimitInv, BucketsOK
  <2>3. NothingBeforeBucket'
    BY <2>1 DEF LimitInv, NothingBeforeBucket
  <2>4. grants[u] = <<>>
    BY <1>3 DEF LimitInv, NothingBeforeBucket
  <2>5. RoomInv'
    <3>1. ASSUME NEW v \in Users PROVE Room(v)'
      <4>1. CASE v = u
        BY <2>1, <2>4, <4>1 DEF Room
      <4>2. CASE v # u
        <5>1. tokens'[v] = tokens[v] /\ last'[v] = last[v] /\ grants' = grants
          BY <2>1, <4>2 DEF LimitInv, BucketsOK
        <5> QED
          BY <5>1 DEF LimitInv, RoomInv, Room
      <4> QED
        BY <4>1, <4>2
    <3> QED
      BY <3>1 DEF RoomInv
  <2>6. WindowBound'
    BY <2>1 DEF LimitInv, WindowBound
  <2> QED
    BY <1>1, <2>2, <2>3, <2>5, <2>6 DEF LimitInv
<1> QED
  BY <1>2, <1>3

LEMMA ThrottleStep ==
  ASSUME LimitInv, NEW t \in Threads, Throttle(t)
  PROVE  LimitInv'
<1> DEFINE u == user[t]
           n == now[t]
<1>1. u \in Users /\ n \in Nat
  BY DEF LimitInv, CallsOK, Throttle
<1>2. /\ tokens' = [tokens EXCEPT ![u] = Refilled(u, n)]
      /\ last' = [last EXCEPT ![u] = Latest(u, n)]
      /\ UNCHANGED <<clock, buckets, grants>>
  BY DEF Throttle, Settle
<1>3. CallsOK'
  BY DEF LimitInv, CallsOK, Throttle, Settle
<1>4. BucketsOK /\ \A v \in Users : Room(v)
  BY DEF LimitInv, RoomInv
<1>5. Latest(u, n) \in Nat /\ Refilled(u, n) \in 0..Full
  BY <1>1, <1>4, RefillBounds
<1>6. BucketsOK'
  BY <1>1, <1>2, <1>4, <1>5 DEF BucketsOK
<1>7. \A i \in DOMAIN grants[u] :
        /\ grants[u][i] <= Latest(u, n)
        /\ Refilled(u, n) + (Len(grants[u]) - i + 1) * Token
             <= Full + (Latest(u, n) - grants[u][i]) * PerMinute
  BY <1>1, <1>4, RoomAfterRefill
<1> HIDE DEF u, n
<1>8. ASSUME NEW v \in Users PROVE Room(v)'
  <2>1. CASE v = u
    <3>1. tokens'[u] = Refilled(u, n) /\ last'[u] = Latest(u, n)
      BY <1>1, <1>2, <1>4 DEF BucketsOK
    <3> QED
      BY <1>2, <1>7, <2>1, <3>1 DEF Room
  <2>2. CASE v # u
    <3>1. tokens'[v] = tokens[v] /\ last'[v] = last[v] /\ grants' = grants
      BY <1>1, <1>2, <1>4, <2>2 DEF BucketsOK
    <3> QED
      BY <1>4, <3>1 DEF Room
  <2> QED
    BY <2>1, <2>2
<1>9. NothingBeforeBucket' /\ WindowBound'
  BY <1>2 DEF LimitInv, NothingBeforeBucket, WindowBound
<1> QED
  BY <1>3, <1>6, <1>8, <1>9 DEF LimitInv, RoomInv

(* A grant takes a token out of the room the refill left; the new grant    *)
(* itself finds the bucket no fuller than full.                            *)
LEMMA GrantStep ==
  ASSUME LimitInv, NEW t \in Threads, Grant(t)
  PROVE  LimitInv'
<1> DEFINE u == user[t]
           n == now[t]
           L == Latest(u, n)
           R == Refilled(u, n)
           g == grants[u]
<1>1. u \in Users /\ n \in Nat
  BY DEF LimitInv, CallsOK, Grant
<1>2. /\ tokens' = [tokens EXCEPT ![u] = R - Token]
      /\ last' = [last EXCEPT ![u] = L]
      /\ grants' = [grants EXCEPT ![u] = Append(g, L)]
      /\ R >= Token
      /\ UNCHANGED <<clock, buckets>>
  BY DEF Grant, Settle
<1>3. CallsOK'
  BY DEF LimitInv, CallsOK, Grant, Settle
<1>4. BucketsOK /\ \A v \in Users : Room(v)
  BY DEF LimitInv, RoomInv
<1>5. L \in Nat /\ R \in 0..Full /\ Full \in Nat /\ Token = 60 /\ PerMinute \in Nat
  BY <1>1, <1>4, RefillBounds, FullType
<1>6. g \in Seq(Nat)
  BY <1>1, <1>4 DEF BucketsOK
<1>7. \A i \in DOMAIN g :
        /\ g[i] <= L
        /\ R + (Len(g) - i + 1) * Token <= Full + (L - g[i]) * PerMinute
  BY <1>1, <1>4, RoomAfterRefill
<1>8. u \in buckets
  BY DEF LimitInv, CallsOK, Grant
<1> HIDE DEF u, n, L, R, g
<1>9. tokens'[u] = R - Token /\ last'[u] = L /\ grants'[u] = Append(g, L)
  BY <1>1, <1>2, <1>4 DEF BucketsOK
<1>10. /\ Len(g) \in Nat /\ DOMAIN g = 1..Len(g)
       /\ Len(grants'[u]) = Len(g) + 1 /\ DOMAIN grants'[u] = 1..(Len(g) + 1)
       /\ grants'[u][Len(g) + 1] = L
       /\ \A i \in DOMAIN g : grants'[u][i] = g[i] /\ g[i] \in Nat
  BY <1>5, <1>6, <1>9
<1>11. ASSUME NEW v \in Users, v # u
       PROVE  tokens'[v] = tokens[v] /\ last'[v] = last[v] /\ grants'[v] = grants[v]
  BY <1>2, <1>4, <1>11 DEF BucketsOK
<1>12. BucketsOK'
  <2>1. R - Token \in 0..Full
    BY <1>2, <1>5
  <2>2. Append(g, L) \in Seq(Nat)
    BY <1>5, <1>6
  <2> QED
    BY <1>2, <1>4, <1>5, <2>1, <2>2 DEF BucketsOK
<1>13. NothingBeforeBucket'
  BY <1>2, <1>8, <1>11 DEF LimitInv, NothingBeforeBucket
<1>14. \A i \in DOMAIN g : (L - g[i]) * PerMinute \in Nat
  BY <1>5, <1>7, <1>10, Positive
<1>15. (L - L) * PerMinute = 0
  BY <1>5
<1>16. ASSUME NEW v \in Users PROVE Room(v)'
  <2>1. CASE v # u
    BY <1>4, <1>11, <2>1 DEF Room
  <2>2. ASSUME NEW i \in DOMAIN grants'[u]
        PROVE  /\ grants'[u][i] <= L
               /\ (R - Token) + (Len(g) + 1 - i + 1) * Token
                    <= Full + (L - grants'[u][i]) * PerMinute
    <3>1. CASE i = Len(g) + 1
      BY <1>5, <1>10, <1>15, <3>1
    <3>2. CASE i \in DOMAIN g
      <4>1. (L - g[i]) * PerMinute \in Nat
        BY <1>14, <3>2
      <4>2. R + (Len(g) - i + 1) * Token <= Full + (L - g[i]) * PerMinute
        BY <1>7, <3>2
      <4>3. /\ (Len(g) - i + 1) * Token \in Int
            /\ (Len(g) + 1 - i + 1) * Token = (Len(g) - i + 1) * Token + Token
        <5>1. Len(g) \in Nat /\ i \in Nat
          BY <1>10, <3>2
        <5> QED
          BY <5>1, OneMore
      <4> DEFINE taken == (Len(g) - i + 1) * Token
                 gained == (L - g[i]) * PerMinute
                 takenNow == (Len(g) + 1 - i + 1) * Token
      <4> HIDE DEF taken, gained, takenNow
      <4>4. (R - Token) + takenNow <= Full + gained
        <5>1. /\ gained \in Nat /\ R + taken <= Full + gained
              /\ taken \in Int /\ takenNow = taken + Token
          BY <4>1, <4>2, <4>3 DEF taken, gained, takenNow
        <5> QED
          BY <1>5, <5>1
      <4> QED
        BY <1>7, <1>10, <3>2, <4>4 DEF gained, takenNow
    <3> QED
      BY <1>10, <2>2, <3>1, <3>2
  <2>3. CASE v = u
    <3>1. /\ tokens'[v] = R - Token /\ last'[v] = L
          /\ Len(grants'[v]) = Len(g) + 1
      BY <1>9, <1>10, <2>3
    <3>2. ASSUME NEW i \in DOMAIN grants'[v]
          PROVE  /\ grants'[v][i] <= last'[v]
                 /\ tokens'[v] + (Len(grants'[v]) - i + 1) * Token
                      <= Full + (last'[v] - grants'[v][i]) * PerMinute
      <4>1. /\ grants'[v][i] <= L
            /\ (R - Token) + (Len(g) + 1 - i + 1) * Token
                 <= Full + (L - grants'[v][i]) * PerMinute
        BY <2>2, <2>3, <3>2, Zenon
      <4>2. (Len(grants'[v]) - i + 1) * Token = (Len(g) + 1 - i + 1) * Token
        BY <3>1
      <4>3. (last'[v] - grants'[v][i]) * PerMinute = (L - grants'[v][i]) * PerMinute
        BY <3>1, Zenon
      <4>4. grants'[v][i] <= last'[v]
        BY <3>1, <4>1, Zenon
      <4>5. tokens'[v] + (Len(grants'[v]) - i + 1) * Token
              <= Full + (last'[v] - grants'[v][i]) * PerMinute
        BY <3>1, <4>1, <4>2, <4>3, Zenon
      <4> QED
        BY <4>4, <4>5, Zenon
    <3> QED
      BY <3>2 DEF Room
  <2> QED
    BY <2>1, <2>3
<1>17. ASSUME NEW v \in Users, NEW i \in DOMAIN grants'[v],
              NEW j \in DOMAIN grants'[v], i <= j
       PROVE  (j - i + 1) * Token
                <= Full + (grants'[v][j] - grants'[v][i]) * PerMinute
  <2>1. CASE v # u
    BY <1>11, <1>17, <2>1 DEF LimitInv, WindowBound
  <2>2. CASE v = u /\ j \in DOMAIN g
    <3>1. i \in DOMAIN g
      BY <1>10, <1>17, <2>2
    <3>2. (j - i + 1) * Token <= Full + (g[j] - g[i]) * PerMinute
      BY <1>1, <1>17, <2>2, <3>1 DEF LimitInv, WindowBound, g
    <3> QED
      BY <1>10, <2>2, <3>1, <3>2
  <2>3. CASE v = u /\ j = Len(g) + 1 /\ i = j
    BY <1>5, <1>10, <1>15, <2>3, FullType
  <2>4. CASE v = u /\ j = Len(g) + 1 /\ i \in DOMAIN g
    <3>1. (L - g[i]) * PerMinute \in Nat
      BY <1>14, <2>4
    <3>2. R + (Len(g) - i + 1) * Token <= Full + (L - g[i]) * PerMinute
      BY <1>7, <2>4
    <3>3. /\ (Len(g) - i + 1) * Token \in Int
          /\ (Len(g) + 1 - i + 1) * Token = (Len(g) - i + 1) * Token + Token
      <4>1. Len(g) \in Nat /\ i \in Nat
        BY <1>10, <2>4
      <4> QED
        BY <4>1, OneMore
    <3> DEFINE taken == (Len(g) - i + 1) * Token
               gained == (L - g[i]) * PerMinute
               takenNow == (Len(g) + 1 - i + 1) * Token
    <3> HIDE DEF taken, gained, takenNow
    <3>4. takenNow <= Full + gained
      <4>1. /\ gained \in Nat /\ R + taken <= Full + gained
            /\ taken \in Int /\ takenNow = taken + Token
        BY <3>1, <3>2, <3>3 DEF taken, gained, takenNow
      <4> QED
        BY <1>2, <1>5, <4>1
    <3> QED
      BY <1>10, <2>4, <3>4 DEF gained, takenNow
  <2> QED
    BY <1>10, <1>17, <2>1, <2>2, <2>3, <2>4
<1>18. WindowBound'
  BY <1>17 DEF WindowBound
<1> QED
  BY <1>3, <1>12, <1>13, <1>16, <1>18 DEF LimitInv, RoomInv

-----------------------------------------------------------------------------

LEMMA LimitStep == LimitInv /\ [Next]_vars => LimitInv'
<1> SUFFICES ASSUME LimitInv, [Next]_vars PROVE LimitInv'
  OBVIOUS
<1>1. ASSUME NEW t \in Threads, NEW u \in Users, BucketFor(t, u) PROVE LimitInv'
  BY <1>1, BucketForStep
<1>2. ASSUME NEW t \in Threads, ReadClock(t) PROVE LimitInv'
  <2>1. CallsOK'
    BY <1>2 DEF ReadClock, LimitInv, CallsOK, BucketsOK, bucket
  <2> QED
    BY <1>2, <2>1, Untouched DEF ReadClock, LimitInv, BucketsOK
<1>3. ASSUME NEW t \in Threads, Grant(t) PROVE LimitInv'
  BY <1>3, GrantStep
<1>4. ASSUME NEW t \in Threads, Throttle(t) PROVE LimitInv'
  BY <1>4, ThrottleStep
<1>5. ASSUME Tick PROVE LimitInv'
  <2>1. CallsOK' /\ clock' \in Nat
    BY <1>5 DEF Tick, LimitInv, CallsOK, BucketsOK, bucket, call
  <2> QED
    BY <1>5, <2>1, Untouched DEF Tick
<1>6. ASSUME UNCHANGED vars PROVE LimitInv'
  <2>1. CallsOK' /\ clock' \in Nat
    BY <1>6 DEF vars, LimitInv, CallsOK, BucketsOK, bucket, call
  <2> QED
    BY <1>6, <2>1, Untouched DEF vars
<1> QED
  BY <1>1, <1>2, <1>3, <1>4, <1>5, <1>6 DEF Next

(* The limiter of rate_limit.py keeps its promise for every capacity, rate *)
(* and number of threads: no window holds more grants than a full bucket   *)
(* and what was gained in the window.                                      *)
THEOREM LimitHolds == Spec => []WindowBound
<1>1. LimitInv => WindowBound
  BY DEF LimitInv
<1> QED
  BY LimitInit, LimitStep, <1>1, PTL DEF Spec

(* Every reachable state of the limiter is well typed: with readings of    *)
(* the clock out of order a bucket never holds less than nothing or more   *)
(* than rate_limit_burst (rate_limit.py:46-60).                            *)
THEOREM LimiterTypeCorrect == Spec => []TypeOK
<1> DEFINE Bounded == clock <= MaxTime
<1>1. Init => Bounded
  BY BoundsAssumption DEF Init
<1>2. LimitInv /\ Bounded /\ [Next]_vars => Bounded'
  <2> SUFFICES ASSUME LimitInv, Bounded, [Next]_vars PROVE Bounded'
    OBVIOUS
  <2>1. clock \in Nat
    BY DEF LimitInv, BucketsOK
  <2>2. UNCHANGED clock \/ (clock < MaxTime /\ clock' = clock + 1)
    BY DEF Next, BucketFor, ReadClock, Grant, Throttle, Settle, Tick, vars
  <2> QED
    BY <2>1, <2>2, BoundsAssumption
<1>3. LimitInv /\ Bounded => TypeOK
  BY BoundsAssumption DEF LimitInv, BucketsOK, CallsOK, TypeOK
<1> QED
  BY LimitInit, LimitStep, <1>1, <1>2, <1>3, PTL DEF Spec

-----------------------------------------------------------------------------
(* No refusal without cause: a bucket that is not full lacks what was      *)
(* granted since some grant i that found it full, no more.                 *)
Lacks(u, held, time) ==
  \E i \in DOMAIN grants[u] :
    Full + (time - grants[u][i]) * PerMinute <= held + (Len(grants[u]) - i + 1) * Token

Spent(u) == tokens[u] = Full \/ Lacks(u, tokens[u], last[u])

SpentInv == \A u \in buckets : Spent(u)

(* A refill adds all that was gained, or fills the bucket.                 *)
LEMMA SpentAfterRefill ==
  ASSUME BucketsOK, NEW u \in Users, Spent(u), NEW n \in Nat
  PROVE  Refilled(u, n) = Full \/ Lacks(u, Refilled(u, n), Latest(u, n))
<1>1. /\ last[u] \in Nat /\ tokens[u] \in 0..Full /\ Full \in Nat /\ PerMinute \in Nat
      /\ Token = 60 /\ grants[u] \in Seq(Nat)
  BY FullType DEF BucketsOK
<1>2. CASE n <= last[u]
  <2>1. Refilled(u, n) = tokens[u] /\ Latest(u, n) = last[u]
    BY <1>1, <1>2 DEF Refilled, Latest
  <2> QED
    BY <2>1 DEF Spent
<1>3. CASE n > last[u]
  <2> DEFINE gained == (n - last[u]) * PerMinute
  <2>1. gained \in Nat
    BY <1>1, <1>3, Positive
  <2>2. /\ Latest(u, n) = n
        /\ Refilled(u, n) = IF tokens[u] + gained <= Full THEN tokens[u] + gained ELSE Full
    BY <1>1, <1>3 DEF Latest, Refilled, Gained
  <2>3. CASE tokens[u] = Full \/ ~ (tokens[u] + gained <= Full)
    <3> HIDE DEF gained
    <3> QED
      BY <1>1, <2>1, <2>2, <2>3
  <2>4. CASE tokens[u] # Full /\ tokens[u] + gained <= Full
    <3>1. PICK i \in DOMAIN grants[u] :
            Full + (last[u] - grants[u][i]) * PerMinute
              <= tokens[u] + (Len(grants[u]) - i + 1) * Token
      BY <2>4 DEF Spent, Lacks
    <3> DEFINE since == (last[u] - grants[u][i]) * PerMinute
               gap   == (Len(grants[u]) - i + 1) * Token
    <3>2. grants[u][i] \in Nat /\ i \in Nat /\ Len(grants[u]) \in Nat
      BY <1>1
    <3>3. (n - grants[u][i]) * PerMinute = gained + since
      <4>1. n \in Int /\ last[u] \in Int /\ grants[u][i] \in Int /\ PerMinute \in Int
        BY <1>1, <3>2
      <4> QED
        BY <4>1, Distributes
    <3>4. since \in Int /\ gap \in Int
      BY <1>1, <3>2
    <3>5. Full + since <= tokens[u] + gap
      BY <3>1
    <3>6. Refilled(u, n) = tokens[u] + gained
      BY <2>2, <2>4
    <3> HIDE DEF gained, since, gap
    <3>7. Full + (gained + since) <= Refilled(u, n) + gap
      BY <1>1, <2>1, <3>4, <3>5, <3>6
    <3> QED
      BY <2>2, <3>3, <3>7 DEF Lacks, gap
  <2> QED
    BY <2>3, <2>4
<1> QED
  BY <1>1, <1>2, <1>3

LEMMA SpentAfterGrant ==
  ASSUME LimitInv, SpentInv, NEW t \in Threads, Grant(t)
  PROVE  SpentInv'
<1>1. PICK u, n : u = user[t] /\ n = now[t]
  OBVIOUS
<1>2. PICK L, R : L = Latest(u, n) /\ R = Refilled(u, n)
  OBVIOUS
<1>3. /\ u \in Users /\ n \in Nat /\ u \in buckets /\ buckets \subseteq Users
      /\ tokens \in [Users -> 0..Full] /\ last \in [Users -> Nat] /\ grants \in [Users -> Seq(Nat)]
  BY <1>1 DEF LimitInv, CallsOK, BucketsOK, Grant
<1>4. /\ tokens' = [tokens EXCEPT ![u] = R - Token]
      /\ last' = [last EXCEPT ![u] = L]
      /\ grants' = [grants EXCEPT ![u] = Append(grants[u], L)]
      /\ buckets' = buckets
  BY <1>1, <1>2 DEF Grant, Settle
<1>5. L \in Nat /\ R \in 0..Full /\ Full \in Nat /\ Token = 60 /\ PerMinute \in Nat
  BY <1>2, <1>3, RefillBounds, FullType DEF LimitInv
<1>6. PICK g : g = grants[u]
  OBVIOUS
<1>7. g \in Seq(Nat) /\ Len(g) \in Nat /\ DOMAIN g = 1..Len(g)
  BY <1>3, <1>6
<1>8. /\ tokens'[u] = R - Token /\ last'[u] = L /\ grants'[u] = Append(g, L)
      /\ Len(grants'[u]) = Len(g) + 1 /\ DOMAIN grants'[u] = 1..Len(g) + 1
      /\ grants'[u][Len(g) + 1] = L
      /\ \A i \in DOMAIN g : grants'[u][i] = g[i] /\ g[i] \in Nat
  BY <1>3, <1>4, <1>5, <1>6, <1>7
<1>9. ASSUME R = Full
      PROVE  \E i \in DOMAIN grants'[u] :
                Full + (L - grants'[u][i]) * PerMinute <= (R - Token) + (Len(g) + 1 - i + 1) * Token
  <2>1. /\ (L - L) * PerMinute = 0
        /\ (Len(g) + 1 - (Len(g) + 1) + 1) * Token = Token
    BY <1>5, <1>7
  <2>2. Len(g) + 1 \in DOMAIN grants'[u] /\ Full + 0 <= (R - Token) + Token
    BY <1>5, <1>7, <1>8, <1>9
  <2> QED
    BY <1>5, <1>8, <2>1, <2>2
<1>10. ASSUME R # Full
       PROVE  \E i \in DOMAIN grants'[u] :
                 Full + (L - grants'[u][i]) * PerMinute <= (R - Token) + (Len(g) + 1 - i + 1) * Token
  <2>1. PICK i \in DOMAIN g :
          Full + (L - g[i]) * PerMinute <= R + (Len(g) - i + 1) * Token
    BY <1>2, <1>3, <1>6, <1>10, SpentAfterRefill DEF LimitInv, SpentInv, Lacks
  <2> DEFINE taken  == (Len(g) - i + 1) * Token
             gained == (L - g[i]) * PerMinute
  <2>2. i \in Nat /\ i \in DOMAIN grants'[u]
    BY <1>7, <1>8
  <2>3. taken \in Int /\ (Len(g) + 1 - i + 1) * Token = taken + Token
    BY <1>7, <2>2, OneMore
  <2>4. gained \in Int
    BY <1>5, <1>8
  <2>5. Full + gained <= R + taken
    BY <2>1
  <2> HIDE DEF taken, gained
  <2>6. Full + gained <= (R - Token) + (taken + Token)
    BY <1>5, <2>3, <2>4, <2>5
  <2> QED
    BY <1>8, <2>2, <2>3, <2>6 DEF gained
<1>11. ASSUME NEW v \in buckets, v # u PROVE Spent(v)'
  <2>1. tokens'[v] = tokens[v] /\ last'[v] = last[v] /\ grants'[v] = grants[v]
    BY <1>3, <1>4, <1>11
  <2> QED
    BY <2>1 DEF SpentInv, Spent, Lacks
<1>12. Lacks(u, tokens[u], last[u])'
  <2>1. PICK i \in DOMAIN grants'[u] :
          Full + (L - grants'[u][i]) * PerMinute <= (R - Token) + (Len(g) + 1 - i + 1) * Token
    BY <1>9, <1>10
  <2>2. last'[u] = L /\ tokens'[u] = R - Token /\ Len(grants'[u]) = Len(g) + 1
    BY <1>8
  <2>3. (last'[u] - grants'[u][i]) * PerMinute = (L - grants'[u][i]) * PerMinute
    BY <2>2, Zenon
  <2>4. (Len(grants'[u]) - i + 1) * Token = (Len(g) + 1 - i + 1) * Token
    BY <2>2
  <2>5. Full + (last'[u] - grants'[u][i]) * PerMinute
          <= tokens'[u] + (Len(grants'[u]) - i + 1) * Token
    BY <2>1, <2>2, <2>3, <2>4, Zenon
  <2> QED
    BY <2>5, Zenon DEF Lacks
<1> QED
  BY <1>4, <1>11, <1>12 DEF SpentInv, Spent

LEMMA SpentStep == LimitInv /\ SpentInv /\ [Next]_vars => SpentInv'
<1> SUFFICES ASSUME LimitInv, SpentInv, [Next]_vars PROVE SpentInv'
  OBVIOUS
<1>1. /\ tokens \in [Users -> 0..Full] /\ last \in [Users -> Nat]
      /\ buckets \subseteq Users
  BY DEF LimitInv, BucketsOK, CallsOK
<1>2. ASSUME UNCHANGED <<bucket, grants>> PROVE SpentInv'
  BY <1>2 DEF bucket, SpentInv, Spent, Lacks
<1>3. ASSUME NEW t \in Threads, NEW u \in Users, BucketFor(t, u) PROVE SpentInv'
  <2>1. CASE u \in buckets
    BY <1>2, <1>3, <2>1 DEF BucketFor
  <2>2. CASE u \notin buckets
    <3>1. /\ buckets' = buckets \cup {u} /\ tokens'[u] = Full /\ grants' = grants
          /\ \A v \in buckets : tokens'[v] = tokens[v] /\ last'[v] = last[v]
      BY <1>1, <1>3, <2>2 DEF BucketFor, InitialTokens
    <3> QED
      BY <3>1 DEF SpentInv, Spent, Lacks
  <2> QED
    BY <2>1, <2>2
<1>4. ASSUME NEW t \in Threads, Throttle(t) PROVE SpentInv'
  <2>1. PICK u, n : u = user[t] /\ n = now[t]
    OBVIOUS
  <2>2. u \in Users /\ u \in buckets /\ n \in Nat
    BY <1>4, <2>1 DEF LimitInv, CallsOK, Throttle
  <2>3. /\ tokens'[u] = Refilled(u, n) /\ last'[u] = Latest(u, n)
        /\ \A v \in buckets \ {u} : tokens'[v] = tokens[v] /\ last'[v] = last[v]
        /\ UNCHANGED <<buckets, grants>>
    BY <1>1, <1>4, <2>1, <2>2 DEF Throttle, Settle
  <2>4. Refilled(u, n) = Full \/ Lacks(u, Refilled(u, n), Latest(u, n))
    BY <2>2, SpentAfterRefill DEF LimitInv, SpentInv
  <2> QED
    BY <2>3, <2>4 DEF SpentInv, Spent, Lacks
<1>5. ASSUME NEW t \in Threads, Grant(t) PROVE SpentInv'
  BY <1>5, SpentAfterGrant
<1>6. ASSUME NEW t \in Threads, ReadClock(t) PROVE SpentInv'
  BY <1>2, <1>6 DEF ReadClock
<1>7. CASE Tick \/ UNCHANGED vars
  BY <1>2, <1>7 DEF Tick, vars
<1> QED
  BY <1>3, <1>4, <1>5, <1>6, <1>7 DEF Next

(* A refused call found less than a token, so one more grant breaks the    *)
(* bound of the window that begins with the grant i.                       *)
LEMMA ThrottleIsDue ==
  ASSUME LimitInv, SpentInv, NEW t \in Threads, Throttle(t)
  PROVE  OneMoreIsTooMany(user[t], last'[user[t]])
<1>1. PICK u, n : u = user[t] /\ n = now[t]
  OBVIOUS
<1>2. /\ u \in Users /\ u \in buckets /\ n \in Nat
      /\ last \in [Users -> Nat] /\ grants \in [Users -> Seq(Nat)]
  BY <1>1 DEF LimitInv, CallsOK, BucketsOK, Throttle
<1>3. PICK L, R : L = Latest(u, n) /\ R = Refilled(u, n)
  OBVIOUS
<1>4. last'[u] = L /\ R < Token
  BY <1>1, <1>2, <1>3 DEF Throttle
<1>5. /\ L \in Nat /\ R \in 0..Full /\ Full \in Nat /\ Token = 60 /\ Full >= Token
      /\ PerMinute \in Nat
  BY <1>2, <1>3, RefillBounds, FullType DEF LimitInv
<1>6. R # Full
  BY <1>4, <1>5
<1>7. PICK i \in DOMAIN grants[u] :
        Full + (L - grants[u][i]) * PerMinute <= R + (Len(grants[u]) - i + 1) * Token
  BY <1>2, <1>3, <1>6, SpentAfterRefill DEF LimitInv, SpentInv, Lacks
<1> DEFINE taken  == (Len(grants[u]) - i + 1) * Token
           gained == (L - grants[u][i]) * PerMinute
<1>8. Len(grants[u]) \in Nat /\ i \in Nat /\ grants[u][i] \in Nat
  BY <1>2
<1>9. taken \in Int /\ (Len(grants[u]) - i + 2) * Token = taken + Token
  <2>1. Len(grants[u]) - i + 2 = Len(grants[u]) + 1 - i + 1
    BY <1>8
  <2> QED
    BY <1>8, <2>1, OneMore
<1>10. gained \in Int
  BY <1>5, <1>8
<1>11. Full + gained <= R + taken
  BY <1>7
<1> HIDE DEF taken, gained
<1>12. taken + Token > Full + gained
  BY <1>4, <1>5, <1>9, <1>10, <1>11
<1>13. (Len(grants[u]) - i + 2) * Token > Full + (L - grants[u][i]) * PerMinute
  BY <1>9, <1>12 DEF gained
<1> QED
  BY <1>1, <1>4, <1>13 DEF OneMoreIsTooMany

(* "No false-positive throttles on legitimate parallelism"                 *)
(* (rate_limit.py:10-12): acquire() refuses a call only when one more      *)
(* grant would break the bound of a window that ends now, whatever threads *)
(* read the clock in whatever order.                                       *)
THEOREM RefusalIsDue == Spec => ThrottledOnlyWhenSpent
<1>1. Init => SpentInv
  BY DEF Init, SpentInv
<1>2. LimitInv /\ SpentInv /\ [Next]_vars
        => [\A t \in Threads : Throttle(t) => OneMoreIsTooMany(user[t], last'[user[t]])]_vars
  BY ThrottleIsDue
<1> QED
  BY LimitInit, LimitStep, SpentStep, <1>1, <1>2, PTL DEF Spec, ThrottledOnlyWhenSpent

-----------------------------------------------------------------------------
(* The schema caches of server and client                                  *)

(* What belongs to a call is kept per thread.                              *)
PerThread(f) == f = [t \in SchemaThreads |-> f[t]]
SchemaCallsOK == PerThread(at) /\ PerThread(sent) /\ PerThread(answer) /\ PerThread(returned)

(* A 304 is about the entry whose ETag the call sent, and that entry is    *)
(* still the one the call would return; a 200 carries the schema.          *)
NotModified(t) == answer[t].status = 304 /\ sent[t] = answer[t].had
Fresh(t)       == answer[t].status = 200 /\ answer[t].body = answer[t].had
AnswerIsTrue == \A t \in SchemaThreads : at[t] = "answered" => NotModified(t) \/ Fresh(t)

BodyInv == SchemaCallsOK /\ AnswerIsTrue /\ BodyIsTheServers

LEMMA BodyInit == SchemaInit => BodyInv
  BY DEF SchemaInit, BodyInv, SchemaCallsOK, PerThread, AnswerIsTrue, BodyIsTheServers, NoResult

(* Whatever happens on a server leaves the calls as they are.              *)
LEMMA ServerSteps ==
  ASSUME BodyInv, UNCHANGED <<at, sent, answer, returned>>
  PROVE  BodyInv'
  BY DEF BodyInv, SchemaCallsOK, PerThread, AnswerIsTrue, NotModified, Fresh, BodyIsTheServers

(* The ETag decides between 304 and 200.                                   *)
LEMMA RespondIsTrue ==
  ASSUME BodyInv, NEW t \in SchemaThreads, NEW s, Respond(t, s)
  PROVE  BodyInv'
<1>1. /\ answer' = [answer EXCEPT ![t] =
             [status |-> IF sent[t] = s THEN 304 ELSE 200, body |-> s, had |-> s]]
      /\ at' = [at EXCEPT ![t] = "answered"]
      /\ sent' = sent /\ returned' = returned
  BY DEF Respond
<1>2. SchemaCallsOK'
  BY <1>1 DEF BodyInv, SchemaCallsOK, PerThread
<1>3. AnswerIsTrue'
  <2>1. ASSUME NEW v \in SchemaThreads, at'[v] = "answered", v # t
        PROVE  NotModified(v)' \/ Fresh(v)'
    <3>1. at[v] = "answered" /\ answer'[v] = answer[v]
      BY <1>1, <2>1 DEF BodyInv, SchemaCallsOK, PerThread
    <3> QED
      BY <1>1, <2>1, <3>1 DEF BodyInv, AnswerIsTrue, NotModified, Fresh
  <2>2. answer'[t] = [status |-> IF sent[t] = s THEN 304 ELSE 200, body |-> s, had |-> s]
    BY <1>1 DEF BodyInv, SchemaCallsOK, PerThread
  <2>3. NotModified(t)' \/ Fresh(t)'
    BY <1>1, <2>2 DEF NotModified, Fresh
  <2> QED
    BY <2>1, <2>3 DEF AnswerIsTrue
<1> QED
  BY <1>1, <1>2, <1>3 DEF BodyInv, BodyIsTheServers

(* The caller gets what its answer is about.                               *)
LEMMA ReturnIsTrue ==
  ASSUME BodyInv, NEW t \in SchemaThreads, Return(t)
  PROVE  BodyInv'
<1> DEFINE body == IF answer[t].status = 304 THEN sent[t] ELSE answer[t].body
<1>1. /\ at[t] = "answered"
      /\ returned' = [returned EXCEPT ![t] = [body |-> body, had |-> answer[t].had]]
      /\ at' = [at EXCEPT ![t] = "idle"]
      /\ answer' = [answer EXCEPT ![t] = NoAnswer]
      /\ sent' = [sent EXCEPT ![t] = NoSchema]
  BY DEF Return, Kept
<1>2. body = answer[t].had
  BY <1>1 DEF BodyInv, AnswerIsTrue, NotModified, Fresh
<1>3. SchemaCallsOK'
  BY <1>1 DEF BodyInv, SchemaCallsOK, PerThread
<1>4. ASSUME NEW v \in SchemaThreads PROVE returned'[v].body = returned'[v].had
  <2>1. CASE v = t
    BY <1>1, <1>2, <2>1 DEF BodyInv, SchemaCallsOK, PerThread
  <2>2. CASE v # t
    BY <1>1, <2>2 DEF BodyInv, SchemaCallsOK, PerThread, BodyIsTheServers
  <2> QED
    BY <2>1, <2>2
<1>5. ASSUME NEW v \in SchemaThreads, at'[v] = "answered"
      PROVE  NotModified(v)' \/ Fresh(v)'
  <2>1. /\ at[v] = "answered"
        /\ answer'[v] = answer[v] /\ sent'[v] = sent[v]
    BY <1>1, <1>5 DEF BodyInv, SchemaCallsOK, PerThread
  <2> QED
    BY <2>1 DEF BodyInv, AnswerIsTrue, NotModified, Fresh
<1> QED
  BY <1>3, <1>4, <1>5 DEF BodyInv, AnswerIsTrue, BodyIsTheServers

(* A thread that asks, or whose call fails, has no answer yet.             *)
LEMMA NothingAnswered ==
  ASSUME BodyInv, NEW t \in SchemaThreads, NEW where, where # "answered",
         at' = [at EXCEPT ![t] = where],
         UNCHANGED answer, UNCHANGED returned,
         UNCHANGED sent \/ \E e : sent' = [sent EXCEPT ![t] = e]
  PROVE  BodyInv'
<1>1. SchemaCallsOK'
  BY DEF BodyInv, SchemaCallsOK, PerThread
<1>2. ASSUME NEW v \in SchemaThreads, at'[v] = "answered"
      PROVE  NotModified(v)' \/ Fresh(v)'
  <2>1. at[v] = "answered" /\ sent'[v] = sent[v]
    BY <1>2 DEF BodyInv, SchemaCallsOK, PerThread
  <2> QED
    BY <2>1 DEF BodyInv, AnswerIsTrue, NotModified, Fresh
<1> QED
  BY <1>1, <1>2 DEF BodyInv, AnswerIsTrue, BodyIsTheServers

LEMMA BodyStep == BodyInv /\ [SchemaNext]_schemaVars => BodyInv'
<1> SUFFICES ASSUME BodyInv, [SchemaNext]_schemaVars PROVE BodyInv'
  OBVIOUS
<1>1. CASE Upgrade
  BY <1>1, ServerSteps DEF Upgrade, client
<1>2. ASSUME NEW h \in SchemaHosts, SessionChanges(h) \/ Restart(h) PROVE BodyInv'
  BY <1>2, ServerSteps DEF SessionChanges, Restart, client
<1>3. ASSUME NEW t \in SchemaThreads, ServeCached(t) \/ ServeWarmed(t) PROVE BodyInv'
  BY <1>3, RespondIsTrue DEF ServeCached, ServeWarmed
<1>4. ASSUME NEW t \in SchemaThreads, NEW h \in SchemaHosts, NEW force \in BOOLEAN,
             Ask(t, h, force)
      PROVE  BodyInv'
  <2>1. /\ at' = [at EXCEPT ![t] = "asked"]
        /\ sent' = [sent EXCEPT ![t] = IF force THEN NoSchema ELSE local]
        /\ answer' = answer /\ returned' = returned
    BY <1>4 DEF Ask
  <2> QED
    BY <2>1, NothingAnswered
<1>5. ASSUME NEW t \in SchemaThreads, ServeFails(t) PROVE BodyInv'
  BY <1>5, NothingAnswered DEF ServeFails
<1>6. ASSUME NEW t \in SchemaThreads, Return(t) PROVE BodyInv'
  BY <1>6, ReturnIsTrue
<1>7. CASE UNCHANGED schemaVars
  BY <1>7, ServerSteps DEF schemaVars, client
<1> QED
  BY <1>1, <1>2, <1>3, <1>4, <1>5, <1>6, <1>7 DEF SchemaNext

(* get_service_schema of data.py, with one cache for all threads and all   *)
(* servers: BodyIsTheServers is an invariant. The ETag and the body a call *)
(* returns on a 304 are of one entry, the one it read before it asked.     *)
THEOREM BodyIsRight == SchemaSpec => []BodyIsTheServers
<1>1. BodyInv => BodyIsTheServers
  BY DEF BodyInv
<1> QED
  BY BodyInit, BodyStep, <1>1, PTL DEF SchemaSpec
-----------------------------------------------------------------------------
(* The request cache of the endpoint                                       *)

(* Every call that arrived was throttled, had its audit attempt or is the  *)
(* one in progress; one that put or hit a key had its attempt.             *)
Busy == IF stage = "idle" THEN 0 ELSE 1

LedgerOK ==
  received = throttled + Len(attempts) + Busy /\ use <= Len(attempts)

(* The log so far: the last attempt is about the last response, and what   *)
(* was hit, or lies in the cache, was executed and given to the log.       *)
ExecutedBefore(p, s, n) ==
  \E j \in 1..n : s[j].of = p /\ s[j].status = "ok" /\ ~ s[j].hit

LastIsServed(s, v) ==
  s # <<>> => s[Len(s)].status = v.result.status /\ s[Len(s)].hit = v.hit

LogOK ==
  /\ LastIsServed(attempts, served)
  /\ \A i \in 1..Len(attempts) : attempts[i].hit =>
       attempts[i].status = "ok" /\ ExecutedBefore(attempts[i].of, attempts, i - 1)
  /\ \A p \in Range(lru) : ExecutedBefore(p, attempts, Len(attempts))

(* What the call in progress is about.                                     *)
CallOK ==
  /\ stage # "idle" => plan \in Plans
  /\ stage \in {"executing", "executed"} => plan \notin Invalid
  /\ stage = "executed" => result.of = plan /\ result.done = uptime

(* An entry is the ok result of its plan, and its age counts from there.   *)
EntriesOK ==
  \A p \in Range(lru) :
    /\ p \notin Invalid
    /\ entry[p].result.of = p /\ entry[p].result.status = "ok"
    /\ entry[p].expiry = entry[p].result.done + Ttl

(* The keys lie in the order of their last use, and what is gone was used  *)
(* before all of them.                                                     *)
Sorted(s, f) == \A i, j \in DOMAIN s : i < j => f[s[i]] < f[s[j]]

OrderOK ==
  /\ Sorted(lru, uses)
  /\ \A p \in Plans : uses[p] <= use
  /\ \A p \in Range(lru) : uses[p] > 0
  /\ \A p \in Range(lru), q \in Plans \ Range(lru) : uses[q] < uses[p]

EndpointInv ==
  /\ EndpointTypeOK /\ LedgerOK /\ LogOK /\ CallOK /\ EntriesOK /\ OrderOK /\ HitIsFresh

(* One more attempt, about the call in progress, written or not.           *)
Logged(status, hit) ==
  /\ attempts' \in Seq(Line) /\ Len(attempts') = Len(attempts) + 1
  /\ Len(attempts) \in Nat
  /\ \A i \in 1..Len(attempts) : attempts'[i] = attempts[i]
  /\ attempts'[Len(attempts) + 1].of = plan
  /\ attempts'[Len(attempts) + 1].status = status
  /\ attempts'[Len(attempts) + 1].hit = hit

LEMMA AuditLogs ==
  ASSUME attempts \in Seq(Line), plan \in Plans, NEW r \in Result, NEW hit \in BOOLEAN,
         Audit(r, hit)
  PROVE  Logged(r.status, hit)
<1>1. PICK w \in BOOLEAN :
        attempts' = Append(attempts, [of |-> plan, status |-> r.status, hit |-> hit, written |-> w])
  BY DEF Audit
<1> DEFINE l == [of |-> plan, status |-> r.status, hit |-> hit, written |-> w]
<1>2. l \in Line /\ l.of = plan /\ l.status = r.status /\ l.hit = hit
  BY DEF Line, Result
<1>3. attempts' = Append(attempts, l)
  BY <1>1
<1> HIDE DEF l
<1>4. /\ attempts' \in Seq(Line) /\ Len(attempts') = Len(attempts) + 1 /\ Len(attempts) \in Nat
      /\ \A i \in 1..Len(attempts) : attempts'[i] = attempts[i]
      /\ attempts'[Len(attempts) + 1] = l
  BY <1>2, <1>3, AppendProperties, LenProperties
<1> QED
  BY <1>2, <1>4 DEF Logged

LEMMA LogGrows ==
  ASSUME EndpointInv, NEW status, NEW hit \in BOOLEAN, Logged(status, hit),
         served'.result.status = status, served'.hit = hit,
         hit => status = "ok" /\ plan \in Range(lru),
         \A p \in Range(lru)' : p \in Range(lru) \/ (p = plan /\ status = "ok" /\ ~ hit)
  PROVE  LogOK'
<1> DEFINE n == Len(attempts)
<1>1. /\ attempts \in Seq(Line) /\ n \in Nat /\ Len(attempts') = n + 1
      /\ \A i \in 1..n : attempts'[i] = attempts[i]
      /\ attempts'[n + 1].of = plan /\ attempts'[n + 1].status = status
      /\ attempts'[n + 1].hit = hit
  BY DEF Logged, EndpointInv, EndpointTypeOK
<1> HIDE DEF n
<1>2. LastIsServed(attempts, served)'
  BY <1>1 DEF LastIsServed
<1>3. \A p : ExecutedBefore(p, attempts, n) => ExecutedBefore(p, attempts', n)
                                             /\ ExecutedBefore(p, attempts', n + 1)
  BY <1>1 DEF ExecutedBefore
<1>4. ASSUME NEW i \in 1..n + 1, attempts'[i].hit
      PROVE  attempts'[i].status = "ok" /\ ExecutedBefore(attempts'[i].of, attempts', i - 1)
  <2>1. CASE i = n + 1
    <3>1. hit /\ plan \in Range(lru) /\ i - 1 = n
      BY <1>1, <1>4, <2>1
    <3>2. ExecutedBefore(plan, attempts, n)
      BY <3>1 DEF EndpointInv, LogOK, n
    <3> QED
      BY <1>1, <1>3, <2>1, <3>1, <3>2
  <2>2. CASE i # n + 1
    <3>1. i \in 1..n /\ attempts'[i] = attempts[i] /\ i - 1 \in Int /\ i - 1 <= n
      BY <1>1, <2>2
    <3>2. attempts[i].status = "ok" /\ ExecutedBefore(attempts[i].of, attempts, i - 1)
      BY <1>4, <3>1 DEF EndpointInv, LogOK, n
    <3> QED
      BY <1>1, <3>1, <3>2 DEF ExecutedBefore
  <2> QED
    BY <2>1, <2>2
<1>5. ASSUME NEW p \in Range(lru)' PROVE ExecutedBefore(p, attempts', n + 1)
  <2>1. CASE p \in Range(lru)
    BY <1>3, <2>1 DEF EndpointInv, LogOK, n
  <2>2. CASE p = plan /\ status = "ok" /\ ~ hit
    BY <1>1, <2>2 DEF ExecutedBefore
  <2> QED
    BY <2>1, <2>2
<1> QED
  BY <1>1, <1>2, <1>4, <1>5 DEF LogOK

LEMMA LogKept ==
  ASSUME EndpointInv, UNCHANGED <<attempts, served>>, Range(lru)' \subseteq Range(lru)
  PROVE  LogOK'
  BY DEF EndpointInv, LogOK, LastIsServed, ExecutedBefore

(* Taking a key out closes the gap and changes no order.                   *)
LEMMA WithoutKey ==
  ASSUME NEW p \in Plans, lru \in Seq(Plans), IsInjective(lru), Cached(p)
  PROVE  /\ Without(p) \in Seq(Plans) /\ Len(Without(p)) = Len(lru) - 1
         /\ Position(p) \in 1..Len(lru) /\ lru[Position(p)] = p
         /\ \A i \in 1..(Len(lru) - 1) :
              Without(p)[i] = lru[IF i < Position(p) THEN i ELSE i + 1]
<1> DEFINE k == Position(p)
           front == SubSeq(lru, 1, k - 1)
           back  == SubSeq(lru, k + 1, Len(lru))
<1>1. k \in 1..Len(lru) /\ lru[k] = p
  BY DEF Cached, Position, Range
<1>2. Without(p) = front \o back
  BY DEF Without, RemoveAt
<1> HIDE DEF k
<1>3. /\ front \in Seq(Plans) /\ Len(front) = k - 1
      /\ \A i \in 1..(k - 1) : front[i] = lru[i]
  <2>1. \A i \in 1..(k - 1) : lru[i] \in Plans
    BY <1>1
  <2>2. 1 \in Int /\ k - 1 \in Int
    BY <1>1
  <2> QED
    BY <1>1, <2>1, <2>2, SubSeqProperties
<1>4. /\ back \in Seq(Plans) /\ Len(back) = Len(lru) - k
      /\ \A i \in 1..(Len(lru) - k) : back[i] = lru[k + i]
  <2>1. \A i \in (k + 1)..Len(lru) : lru[i] \in Plans
    BY <1>1
  <2>2. Len(lru) \in Nat /\ k + 1 \in Int
    BY <1>1
  <2>3. /\ back \in Seq(Plans)
        /\ Len(back) = IF k + 1 <= Len(lru) THEN Len(lru) - (k + 1) + 1 ELSE 0
        /\ \A i \in 1..(Len(lru) - (k + 1) + 1) : back[i] = lru[(k + 1) + i - 1]
    BY <2>1, <2>2, SubSeqProperties
  <2> HIDE DEF back
  <2> QED
    BY <1>1, <2>2, <2>3
<1> HIDE DEF front, back
<1>5. /\ front \o back \in Seq(Plans) /\ Len(front \o back) = Len(front) + Len(back)
      /\ \A i \in 1..(Len(front) + Len(back)) :
           (front \o back)[i] = IF i <= Len(front) THEN front[i] ELSE back[i - Len(front)]
  BY <1>3, <1>4, ConcatProperties
<1>6. Len(lru) \in Nat /\ Len(front) + Len(back) = Len(lru) - 1
  BY <1>1, <1>3, <1>4
<1>7. ASSUME NEW i \in 1..(Len(lru) - 1)
      PROVE  (front \o back)[i] = lru[IF i < k THEN i ELSE i + 1]
  <2>1. CASE i < k
    BY <1>1, <1>3, <1>5, <1>6, <2>1
  <2>2. CASE ~ (i < k)
    <3>1. (front \o back)[i] = back[i - (k - 1)]
      BY <1>1, <1>3, <1>5, <1>6, <2>2
    <3>2. i - (k - 1) \in 1..(Len(lru) - k) /\ k + (i - (k - 1)) = i + 1
      BY <1>1, <1>6, <2>2
    <3> QED
      BY <1>4, <2>2, <3>1, <3>2
  <2> QED
    BY <2>1, <2>2
<1> QED
  BY <1>1, <1>2, <1>5, <1>6, <1>7 DEF k

(* What a miss and a touch do to a sorted sequence of keys.                *)
LEMMA WithoutSorted ==
  ASSUME NEW p \in Plans, lru \in Seq(Plans), IsInjective(lru), NEW f, Sorted(lru, f)
  PROVE  /\ Without(p) \in Seq(Plans) /\ Len(Without(p)) <= Len(lru)
         /\ Range(Without(p)) = Range(lru) \ {p}
         /\ IsInjective(Without(p)) /\ Sorted(Without(p), f)
<1>1. CASE ~ Cached(p)
  BY <1>1 DEF Without, Cached
<1>2. CASE Cached(p)
  <2> DEFINE k == Position(p)
             w == Without(p)
             old(i) == IF i < k THEN i ELSE i + 1
  <2>1. /\ w \in Seq(Plans) /\ Len(w) = Len(lru) - 1 /\ k \in 1..Len(lru) /\ lru[k] = p
        /\ \A i \in 1..(Len(lru) - 1) : w[i] = lru[old(i)]
    BY <1>2, WithoutKey
  <2> HIDE DEF k, w
  <2>2. Len(lru) \in Nat /\ DOMAIN lru = 1..Len(lru) /\ DOMAIN w = 1..(Len(lru) - 1)
    BY <2>1
  <2>3. \A i \in DOMAIN w : old(i) \in DOMAIN lru /\ old(i) # k
    BY <2>1, <2>2
  <2>4. \A i, j \in DOMAIN w : i < j => old(i) < old(j)
    BY <2>1, <2>2
  <2>5. \A m \in DOMAIN lru : m # k => \E i \in DOMAIN w : old(i) = m
    <3> TAKE m \in DOMAIN lru
    <3> HAVE m # k
    <3>1. CASE m < k
      BY <2>1, <2>2, <3>1
    <3>2. CASE k < m
      <4>1. m - 1 \in DOMAIN w /\ old(m - 1) = m
        BY <2>1, <2>2, <3>2
      <4> QED
        BY <4>1
    <3> QED
      BY <2>1, <2>2, <3>1, <3>2
  <2> HIDE DEF old
  <2>6. \A i \in DOMAIN w : w[i] = lru[old(i)]
    BY <2>1, <2>2
  <2>7. Range(w) = Range(lru) \ {p}
    <3>1. \A i \in DOMAIN w : w[i] \in Range(lru) \ {p}
      BY <2>1, <2>2, <2>3, <2>6 DEF IsInjective, Range
    <3>2. \A m \in DOMAIN lru : lru[m] # p => \E i \in DOMAIN w : w[i] = lru[m]
      BY <2>1, <2>5, <2>6
    <3> QED
      BY <3>1, <3>2 DEF Range
  <2>8. Sorted(w, f)
    BY <2>3, <2>4, <2>6 DEF Sorted
  <2>9. IsInjective(w)
    <3> SUFFICES ASSUME NEW i \in DOMAIN w, NEW j \in DOMAIN w, w[i] = w[j]
                 PROVE  i = j
      BY DEF IsInjective
    <3>1. old(i) = old(j)
      BY <2>3, <2>6 DEF IsInjective
    <3>2. ~ (i < j) /\ ~ (j < i) /\ i \in Int /\ j \in Int
      BY <2>2, <2>3, <2>4, <3>1
    <3> QED
      BY <3>2
  <2> QED
    BY <2>1, <2>2, <2>7, <2>8, <2>9 DEF w
<1> QED
  BY <1>1, <1>2

(* A key that is touched is the last one, with the highest number.         *)
LEMMA TouchSorted ==
  ASSUME NEW p \in Plans, lru \in Seq(Plans), IsInjective(lru), Sorted(lru, uses),
         NEW n \in Nat, uses \in [Plans -> Nat], \A q \in Plans : uses[q] < n
  PROVE  /\ Touch(p) \in Seq(Plans) /\ Range(Touch(p)) = Range(lru) \cup {p}
         /\ Len(Touch(p)) <= Len(lru) + 1 /\ (Cached(p) => Len(Touch(p)) <= Len(lru))
         /\ IsInjective(Touch(p)) /\ Sorted(Touch(p), [uses EXCEPT ![p] = n])
<1> DEFINE w == Without(p)
           g == [uses EXCEPT ![p] = n]
<1>1. /\ w \in Seq(Plans) /\ Len(w) <= Len(lru) /\ Range(w) = Range(lru) \ {p}
      /\ IsInjective(w) /\ Sorted(w, uses)
  BY WithoutSorted
<1>2. Cached(p) => Len(w) = Len(lru) - 1
  BY WithoutKey
<1> HIDE DEF w
<1>3. Touch(p) = Append(w, p)
  BY DEF Touch, w
<1>4. /\ Append(w, p) \in Seq(Plans) /\ DOMAIN Append(w, p) = 1..(Len(w) + 1)
      /\ Len(Append(w, p)) = Len(w) + 1
      /\ DOMAIN w = 1..Len(w) /\ Len(w) \in Nat
      /\ \A i \in 1..Len(w) : Append(w, p)[i] = w[i]
      /\ Append(w, p)[Len(w) + 1] = p
  BY <1>1, AppendProperties
<1>5. ASSUME NEW i \in 1..Len(w) PROVE w[i] # p /\ w[i] \in Plans
  <2>1. w[i] \in Range(w)
    BY <1>4 DEF Range
  <2>2. w[i] \in Plans
    BY <1>1
  <2> QED
    BY <1>1, <2>1, <2>2
<1>6. Range(Append(w, p)) = Range(lru) \cup {p}
  <2>1. ASSUME NEW i \in 1..(Len(w) + 1) PROVE Append(w, p)[i] \in Range(w) \cup {p}
    <3>1. i \in 1..Len(w) \/ i = Len(w) + 1
      BY <1>4
    <3> QED
      BY <1>4, <3>1 DEF Range
  <2>2. p \in Range(Append(w, p))
    <3>1. Len(w) + 1 \in 1..(Len(w) + 1)
      BY <1>4
    <3> QED
      BY <1>4, <3>1 DEF Range
  <2>3. \A i \in 1..Len(w) : i \in 1..(Len(w) + 1)
    BY <1>4
  <2>4. \A q \in Range(w) : q \in Range(Append(w, p))
    BY <1>4, <2>3 DEF Range
  <2>5. Range(Append(w, p)) = Range(w) \cup {p}
    BY <1>4, <2>1, <2>2, <2>4 DEF Range
  <2> QED
    BY <1>1, <2>5
<1>7. IsInjective(Append(w, p))
  BY <1>1, <1>4, <1>5 DEF IsInjective
<1>8. Sorted(Append(w, p), g)
  <2>1. g[p] = n /\ \A i \in 1..Len(w) : g[w[i]] = uses[w[i]] /\ uses[w[i]] < n
    BY <1>5
  <2> HIDE DEF g
  <2>2. \A i, j \in 1..Len(w) : i < j => uses[w[i]] < uses[w[j]]
    BY <1>1, <1>4 DEF Sorted
  <2> QED
    BY <1>4, <2>1, <2>2 DEF Sorted
<1>9. Len(lru) \in Nat
  OBVIOUS
<1> QED
  BY <1>1, <1>2, <1>3, <1>4, <1>6, <1>7, <1>8, <1>9

(* The key that has to go is the first, and was used before all others.    *)
LEMMA EvictSorted ==
  ASSUME NEW s \in Seq(Plans), IsInjective(s), NEW f, Sorted(s, f),
         Len(s) <= MaxEntries + 1
  PROVE  /\ Evict(s) \in Seq(Plans) /\ Len(Evict(s)) <= MaxEntries
         /\ Range(Evict(s)) \subseteq Range(s)
         /\ IsInjective(Evict(s)) /\ Sorted(Evict(s), f)
         /\ \A q \in Range(s) \ Range(Evict(s)), r \in Range(Evict(s)) : f[q] < f[r]
<1> USE EndpointAssumption
<1>1. CASE ~ (Len(s) > MaxEntries)
  BY <1>1 DEF Evict
<1>2. CASE Len(s) > MaxEntries
  <2> DEFINE t == Tail(s)
  <2>1. Evict(s) = t
    BY <1>2 DEF Evict
  <2>2. /\ t \in Seq(Plans) /\ Len(t) = Len(s) - 1 /\ Len(s) \in Nat
        /\ DOMAIN s = 1..Len(s) /\ DOMAIN t = 1..(Len(s) - 1)
        /\ \A i \in DOMAIN t : t[i] = s[i + 1]
    BY <1>2
  <2>3. Len(s) >= 1
    BY <1>2
  <2> HIDE DEF t
  <2>4. IsInjective(t)
    BY <2>2 DEF IsInjective
  <2>5. Sorted(t, f)
    BY <2>2 DEF Sorted
  <2>6. Range(t) \subseteq Range(s)
    BY <2>2 DEF Range
  <2>7. \A q \in Range(s) : q = s[1] \/ q \in Range(t)
    <3> TAKE q \in Range(s)
    <3>1. PICK i \in DOMAIN s : q = s[i]
      BY DEF Range
    <3>2. CASE i # 1
      <4>1. i - 1 \in DOMAIN t /\ t[i - 1] = s[i]
        BY <2>2, <3>2
      <4> QED
        BY <3>1, <4>1 DEF Range
    <3> QED
      BY <3>1, <3>2
  <2>8. \A r \in Range(t) : f[s[1]] < f[r]
    <3>1. \A i \in DOMAIN t : 1 \in DOMAIN s /\ i + 1 \in DOMAIN s /\ 1 < i + 1
      BY <2>2, <2>3
    <3> QED
      BY <2>2, <3>1 DEF Range, Sorted
  <2> QED
    BY <1>2, <2>1, <2>2, <2>4, <2>5, <2>6, <2>7, <2>8
<1> QED
  BY <1>1, <1>2

LEMMA EndpointStart == EndpointInit => EndpointInv
<1> SUFFICES ASSUME EndpointInit PROVE EndpointInv
  OBVIOUS
<1> USE EndpointAssumption DEF EndpointInit
<1>1. lru \in Seq(Plans) /\ Len(lru) = 0 /\ DOMAIN lru = {} /\ Range(lru) = {}
  BY DEF Range
<1>2. NoOutcome \in Result
  BY DEF NoOutcome, Result, Status
<1>3. EndpointTypeOK
  <2>1. IsInjective(lru) /\ Len(lru) <= MaxEntries
    BY <1>1 DEF IsInjective
  <2>2. 0 \in 0..MaxRequests /\ 0 \in 0..MaxClock
    OBVIOUS
  <2> QED
    BY <1>1, <1>2, <2>1, <2>2, EmptySeq DEF EndpointTypeOK
<1>4. LedgerOK /\ CallOK /\ LogOK
  BY <1>1 DEF LedgerOK, Busy, CallOK, LogOK, LastIsServed
<1>5. EntriesOK /\ OrderOK
  BY <1>1 DEF EntriesOK, OrderOK, Sorted
<1>6. HitIsFresh
  BY DEF HitIsFresh
<1> QED
  BY <1>3, <1>4, <1>5, <1>6 DEF EndpointInv

(* Steps that do not touch the cache and answer no hit.                    *)
LEMMA CacheUntouched ==
  ASSUME EndpointInv, UNCHANGED <<cache, history>>, UNCHANGED served \/ ~ served'.hit
  PROVE  EntriesOK' /\ OrderOK' /\ HitIsFresh'
  BY DEF EndpointInv, EntriesOK, OrderOK, Sorted, HitIsFresh, cache, history

LEMMA EndpointBegins ==
  ASSUME EndpointInv, (\E p \in Plans : Arrive(p)) \/ Throttled \/ TimePasses
  PROVE  EndpointInv'
<1> USE EndpointAssumption DEF EndpointInv, EndpointTypeOK, LedgerOK, CallOK, Busy
<1>1. UNCHANGED <<cache, history, served, attempts>> /\ EntriesOK' /\ OrderOK' /\ HitIsFresh'
  BY CacheUntouched DEF Arrive, Throttled, TimePasses, counts
<1>6. LogOK' /\ Len(attempts) \in Nat /\ Len(attempts') = Len(attempts)
  BY <1>1, LogKept, LenProperties DEF cache
<1>2. ASSUME NEW p \in Plans, Arrive(p) PROVE EndpointInv'
  BY <1>1, <1>2, <1>6 DEF Arrive, cache, history
<1>3. CASE Throttled
  <2>1. NoOutcome \in Result
    BY DEF NoOutcome, Result, Status
  <2> QED
    BY <1>1, <1>3, <1>6, <2>1 DEF Throttled, Done, cache, history
<1>4. CASE TimePasses
  BY <1>1, <1>4, <1>6 DEF TimePasses, cache, history, request, counts
<1> QED
  BY <1>2, <1>3, <1>4

(* Calls that end, or whose result comes, away from the cache.             *)
LEMMA EndpointAnswers ==
  ASSUME EndpointInv, Rejected \/ Executed \/ ExecutionRaises
  PROVE  EndpointInv'
<1> USE EndpointAssumption DEF EndpointInv, EndpointTypeOK, LedgerOK, CallOK, Busy
<1>1. NoOutcome \in Result
  BY DEF NoOutcome, Result, Status
<1>2. CASE Executed
  <2>1. EntriesOK' /\ OrderOK' /\ HitIsFresh'
    BY <1>2, CacheUntouched DEF Executed
  <2>2. PICK s \in Status : result' = [of |-> plan, status |-> s, done |-> uptime]
    BY <1>2 DEF Executed
  <2>3. result' \in Result /\ result'.of = plan /\ result'.done = uptime
    BY <2>2 DEF Result
  <2>4. LogOK' /\ Len(attempts) \in Nat /\ Len(attempts') = Len(attempts)
    BY <1>2, LogKept, LenProperties DEF Executed, cache, counts
  <2> QED
    BY <1>2, <2>1, <2>3, <2>4 DEF Executed, cache, history, counts
<1>3. CASE Rejected \/ ExecutionRaises
  <2>1. served' = [result |-> Failure, at |-> uptime, hit |-> FALSE]
    BY <1>3 DEF Rejected, ExecutionRaises, Reply
  <2>2. EntriesOK' /\ OrderOK' /\ HitIsFresh'
    BY <1>3, <2>1, CacheUntouched DEF Rejected, ExecutionRaises
  <2>3. Failure \in Result
    BY DEF Failure, Result, Status
  <2>4. served' \in [result : Result, at : Nat, hit : BOOLEAN]
    BY <2>1, <2>3
  <2>5. /\ stage # "idle" /\ stage' = "idle" /\ plan' = NoPlan /\ result' = NoOutcome
        /\ Audit(Failure, FALSE)
        /\ UNCHANGED <<uptime, lru, entry, received, throttled, use, uses>>
    BY <1>3 DEF Rejected, ExecutionRaises, Done, AuditFailure, cache, history
  <2>6. Logged(Failure.status, FALSE)
    BY <2>3, <2>5, AuditLogs
  <2>7. LogOK'
    <3>1. served'.result.status = Failure.status /\ served'.hit = FALSE /\ Range(lru)' = Range(lru)
      BY <2>1, <2>5
    <3> QED
      BY <2>6, <3>1, LogGrows
  <2>8. LedgerOK' /\ CallOK' /\ attempts' \in Seq(Line)
    BY <2>5, <2>6 DEF Logged
  <2> QED
    BY <1>1, <2>2, <2>4, <2>5, <2>7, <2>8
<1> QED
  BY <1>2, <1>3

(* A key is used for the last time: it has the highest number.             *)
LEMMA UseIsLatest ==
  ASSUME EndpointInv, NEW p \in Plans, stage # "idle"
  PROVE  LET s == Touch(p)
             g == [uses EXCEPT ![p] = use + 1]
         IN  /\ s \in Seq(Plans) /\ IsInjective(s) /\ Sorted(s, g)
             /\ Range(s) = Range(lru) \cup {p}
             /\ Len(s) <= Len(lru) + 1 /\ (Cached(p) => Len(s) <= Len(lru))
             /\ g \in [Plans -> 0..MaxRequests] /\ use + 1 \in 0..MaxRequests
             /\ \A q \in Plans : g[q] <= use + 1
             /\ \A r \in Range(s) : g[r] > 0
             /\ \A r \in Range(s), q \in Plans \ Range(s) : g[q] < g[r]
<1> DEFINE s == Touch(p)
           g == [uses EXCEPT ![p] = use + 1]
<1> USE EndpointAssumption DEF EndpointInv, EndpointTypeOK, OrderOK
<1>1. use + 1 \in 0..MaxRequests
  <2>1. Len(attempts) \in Nat
    BY LenProperties
  <2> QED
    BY <2>1 DEF LedgerOK, Busy
<1>2. /\ uses \in [Plans -> Nat] /\ use + 1 \in Nat
      /\ \A q \in Plans : uses[q] < use + 1
  BY <1>1
<1>9. lru \in Seq(Plans) /\ IsInjective(lru) /\ Sorted(lru, uses)
  OBVIOUS
<1>3. /\ s \in Seq(Plans) /\ IsInjective(s) /\ Sorted(s, g)
      /\ Range(s) = Range(lru) \cup {p}
      /\ Len(s) <= Len(lru) + 1 /\ (Cached(p) => Len(s) <= Len(lru))
  BY <1>2, <1>9, TouchSorted
<1>4. /\ g \in [Plans -> 0..MaxRequests] /\ g[p] = use + 1
      /\ \A q \in Plans \ {p} : g[q] = uses[q]
  BY <1>1
<1> HIDE DEF s, g
<1>5. ASSUME NEW q \in Plans PROVE g[q] <= use + 1
  <2>1. uses[q] \in Nat /\ uses[q] < use + 1 /\ use + 1 \in Nat
    BY <1>2
  <2>2. g[q] = use + 1 \/ g[q] = uses[q]
    BY <1>4
  <2> QED
    BY ONLY <2>1, <2>2
<1>6. \A r \in Range(s) : r \in Plans
  BY <1>3, RangeOfSeq
<1>7. \A r \in Range(s) : g[r] > 0
  BY <1>1, <1>3, <1>4, <1>6
<1>8. ASSUME NEW r \in Range(s), NEW q \in Plans \ Range(s) PROVE g[q] < g[r]
  <2>1. q # p /\ q \notin Range(lru) /\ g[q] = uses[q]
    BY <1>3, <1>4
  <2>2. CASE r = p
    BY <1>2, <1>4, <2>1, <2>2
  <2>3. CASE r # p
    BY <1>3, <1>4, <1>6, <2>1, <2>3
  <2> QED
    BY <2>2, <2>3
<1> QED
  BY <1>1, <1>3, <1>4, <1>5, <1>7, <1>8 DEF s, g

LEMMA EndpointHits ==
  ASSUME EndpointInv, Hit
  PROVE  EndpointInv'
<1> DEFINE s == Touch(plan)
           g == [uses EXCEPT ![plan] = use + 1]
<1>1. plan \in Plans /\ plan \notin Invalid /\ stage # "idle" /\ Cached(plan) /\ uptime <= entry[plan].expiry
  BY DEF EndpointInv, EndpointTypeOK, CallOK, Hit, Expired
<1>2. /\ s \in Seq(Plans) /\ IsInjective(s) /\ Sorted(s, g)
      /\ Range(s) = Range(lru) \cup {plan} /\ Len(s) <= Len(lru)
      /\ g \in [Plans -> 0..MaxRequests] /\ use + 1 \in 0..MaxRequests
      /\ \A q \in Plans : g[q] <= use + 1
      /\ \A r \in Range(s) : g[r] > 0
      /\ \A r \in Range(s), q \in Plans \ Range(s) : g[q] < g[r]
  BY <1>1, UseIsLatest
<1>3. /\ lru' = s /\ uses' = g /\ use' = use + 1 /\ entry' = entry
      /\ Audit(entry[plan].result, TRUE) /\ UNCHANGED <<uptime, received, throttled>>
      /\ served' = [result |-> entry[plan].result, at |-> uptime, hit |-> TRUE]
      /\ stage' = "idle" /\ plan' = NoPlan /\ result' = NoOutcome
  BY DEF Hit, Touched, Reply, Done
<1>4. Range(s) = Range(lru)
  BY <1>1, <1>2 DEF Cached
<1> HIDE DEF s, g
<1>5. OrderOK'
  BY <1>2, <1>3 DEF OrderOK
<1>6. EntriesOK'
  BY <1>3, <1>4 DEF EndpointInv, EntriesOK
<1>8. /\ entry[plan].result.status = "ok" /\ entry[plan].result.of = plan
      /\ entry[plan].expiry = entry[plan].result.done + Ttl
  BY <1>1 DEF EndpointInv, EntriesOK, Cached
<1>9. entry[plan].result \in Result /\ entry[plan].result.done \in Nat
  BY <1>1 DEF EndpointInv, EndpointTypeOK, Result
<1>12. Logged(entry[plan].result.status, TRUE)
  <2>1. attempts \in Seq(Line)
    BY DEF EndpointInv, EndpointTypeOK
  <2> QED
    BY <1>1, <1>3, <1>9, <2>1, AuditLogs
<1>7. LedgerOK' /\ CallOK' /\ attempts' \in Seq(Line)
  <2>1. /\ attempts' \in Seq(Line) /\ Len(attempts') = Len(attempts) + 1 /\ Len(attempts) \in Nat
    BY <1>12 DEF Logged
  <2>2. received = throttled + Len(attempts) + 1 /\ use <= Len(attempts)
    BY <1>1 DEF EndpointInv, LedgerOK, Busy
  <2>3. received \in Nat /\ throttled \in Nat /\ use \in Nat
    BY EndpointAssumption DEF EndpointInv, EndpointTypeOK
  <2>4. LedgerOK'
    BY <1>3, <2>1, <2>2, <2>3 DEF LedgerOK, Busy
  <2> QED
    BY <1>3, <2>1, <2>4 DEF CallOK
<1>13. LogOK'
  <2>1. plan \in Range(lru) /\ Range(lru)' = Range(lru)
    BY <1>1, <1>3, <1>4 DEF Cached
  <2>2. served'.result.status = entry[plan].result.status /\ served'.hit = TRUE
    BY <1>3
  <2> QED
    BY <1>8, <1>12, <2>1, <2>2, LogGrows
<1>10. HitIsFresh'
  <2>1. uptime - entry[plan].result.done <= Ttl
    BY <1>1, <1>8, <1>9, EndpointAssumption DEF EndpointInv, EndpointTypeOK
  <2> QED
    BY <1>1, <1>3, <1>8, <2>1 DEF HitIsFresh
<1>11. EndpointTypeOK'
  <2>1. served' \in [result : Result, at : Nat, hit : BOOLEAN]
    BY <1>3, <1>9, EndpointAssumption DEF EndpointInv, EndpointTypeOK
  <2>2. NoOutcome \in Result
    BY DEF NoOutcome, Result, Status
  <2>3. Len(lru') <= MaxEntries
    BY <1>2, <1>3, EndpointAssumption DEF EndpointInv, EndpointTypeOK
  <2> QED
    BY <1>2, <1>3, <1>7, <2>1, <2>2, <2>3 DEF EndpointInv, EndpointTypeOK
<1> QED
  BY <1>5, <1>6, <1>7, <1>10, <1>11, <1>13 DEF EndpointInv

LEMMA EndpointMisses ==
  ASSUME EndpointInv, Miss
  PROVE  EndpointInv'
<1> DEFINE w == Without(plan)
           g == [uses EXCEPT ![plan] = 0]
<1>1. plan \in Plans /\ plan \notin Invalid /\ stage = "arrived"
  BY DEF EndpointInv, CallOK, Miss
<1>2. /\ w \in Seq(Plans) /\ Len(w) <= Len(lru) /\ Range(w) = Range(lru) \ {plan}
      /\ IsInjective(w) /\ Sorted(w, uses)
  BY <1>1, WithoutSorted DEF EndpointInv, EndpointTypeOK, OrderOK
<1>3. /\ lru' = w /\ uses' = g /\ stage' = "executing"
      /\ UNCHANGED <<uptime, entry, plan, result, served, received, throttled, attempts, use>>
  BY DEF Miss, counts
<1>4. /\ g \in [Plans -> 0..MaxRequests] /\ g[plan] = 0
      /\ \A q \in Plans \ {plan} : g[q] = uses[q]
  BY <1>1, EndpointAssumption DEF EndpointInv, EndpointTypeOK
<1> HIDE DEF w, g
<1>5. \A i \in DOMAIN w : w[i] \in Plans \ {plan} /\ g[w[i]] = uses[w[i]]
  <2> TAKE i \in DOMAIN w
  <2>1. w[i] \in Range(w)
    BY DEF Range
  <2>2. w[i] \in Plans
    BY <1>2
  <2> QED
    BY <1>2, <1>4, <2>1, <2>2
<1>6. Sorted(w, g)
  BY <1>2, <1>5 DEF Sorted
<1>7. \A r \in Range(w) : r \in Range(lru) /\ r \in Plans \ {plan} /\ g[r] = uses[r]
  BY <1>2, <1>5 DEF Range
<1>8. OrderOK'
  <2>1. ASSUME NEW q \in Plans PROVE g[q] <= use
    <3>1. uses[q] <= use /\ 0 <= use
      BY EndpointAssumption DEF EndpointInv, EndpointTypeOK, OrderOK
    <3> QED
      BY <1>4, <3>1
  <2>2. \A r \in Range(w) : g[r] > 0
    BY <1>7 DEF EndpointInv, OrderOK
  <2>3. ASSUME NEW r \in Range(w), NEW q \in Plans \ Range(w) PROVE g[q] < g[r]
    <3>1. CASE q = plan
      BY <1>4, <2>2, <3>1
    <3>2. CASE q # plan
      BY <1>2, <1>4, <1>7, <3>2 DEF EndpointInv, OrderOK
    <3> QED
      BY <3>1, <3>2
  <2> QED
    BY <1>3, <1>6, <2>1, <2>2, <2>3 DEF OrderOK
<1>9. EntriesOK'
  BY <1>3, <1>7 DEF EndpointInv, EntriesOK
<1>10. LedgerOK' /\ CallOK' /\ HitIsFresh'
  BY <1>1, <1>3 DEF EndpointInv, LedgerOK, Busy, CallOK, HitIsFresh
<1>11. EndpointTypeOK'
  <2>1. Len(lru') <= MaxEntries
    BY <1>2, <1>3, EndpointAssumption DEF EndpointInv, EndpointTypeOK
  <2> QED
    BY <1>2, <1>3, <1>4, <2>1 DEF EndpointInv, EndpointTypeOK
<1>12. LogOK'
  BY <1>2, <1>3, LogKept
<1> QED
  BY <1>8, <1>9, <1>10, <1>11, <1>12 DEF EndpointInv

LEMMA EndpointStores ==
  ASSUME EndpointInv, Store
  PROVE  EndpointInv'
<1>1. /\ plan \in Plans /\ plan \notin Invalid /\ stage = "executed"
      /\ result.of = plan /\ result.done = uptime
  BY DEF EndpointInv, CallOK, Store
<1>2. /\ served' = [result |-> result, at |-> uptime, hit |-> FALSE]
      /\ Audit(result, FALSE) /\ UNCHANGED <<uptime, received, throttled>>
      /\ stage' = "idle" /\ plan' = NoPlan /\ result' = NoOutcome
  BY DEF Store, Reply, Done
<1>3. HitIsFresh' /\ CallOK'
  BY <1>2 DEF HitIsFresh, CallOK
<1>4. served' \in [result : Result, at : Nat, hit : BOOLEAN] /\ NoOutcome \in Result
  <2>1. NoOutcome \in Result
    BY DEF NoOutcome, Result, Status
  <2> QED
    BY <1>2, <2>1, EndpointAssumption DEF EndpointInv, EndpointTypeOK
<1>8. Logged(result.status, FALSE)
  <2>1. attempts \in Seq(Line) /\ result \in Result
    BY DEF EndpointInv, EndpointTypeOK
  <2> QED
    BY <1>1, <1>2, <2>1, AuditLogs
<1>5. /\ attempts' \in Seq(Line) /\ received' = throttled' + Len(attempts') + Busy'
      /\ Len(attempts') = Len(attempts) + 1 /\ Len(attempts) \in Nat
  BY <1>1, <1>2, <1>8, EndpointAssumption DEF EndpointInv, EndpointTypeOK, LedgerOK, Busy, Logged
<1>9. served'.result.status = result.status /\ served'.hit = FALSE
  BY <1>2
<1>6. CASE ~ Cacheable(result)
  <2>1. UNCHANGED <<cache, history>>
    BY <1>6 DEF Store
  <2>2. EntriesOK' /\ OrderOK'
    BY <1>2, <2>1, CacheUntouched
  <2>3. LedgerOK'
    BY <1>2, <1>5, <2>1, EndpointAssumption
    DEF EndpointInv, EndpointTypeOK, LedgerOK, history
  <2>4. EndpointTypeOK'
    BY <1>2, <1>4, <1>5, <2>1 DEF EndpointInv, EndpointTypeOK, cache, history
  <2>5. LogOK'
    <3>1. Range(lru)' = Range(lru)
      BY <2>1 DEF cache
    <3> QED
      BY <1>8, <1>9, <3>1, LogGrows
  <2> QED
    BY <1>3, <2>2, <2>3, <2>4, <2>5 DEF EndpointInv
<1>7. CASE Cacheable(result)
  <2> DEFINE s == Touch(plan)
             g == [uses EXCEPT ![plan] = use + 1]
             e == Evict(s)
             new == [result |-> result, expiry |-> uptime + Ttl]
  <2>1. /\ s \in Seq(Plans) /\ IsInjective(s) /\ Sorted(s, g)
        /\ Range(s) = Range(lru) \cup {plan} /\ Len(s) <= Len(lru) + 1
        /\ g \in [Plans -> 0..MaxRequests] /\ use + 1 \in 0..MaxRequests
        /\ \A q \in Plans : g[q] <= use + 1
        /\ \A r \in Range(s) : g[r] > 0
        /\ \A r \in Range(s), q \in Plans \ Range(s) : g[q] < g[r]
    BY <1>1, UseIsLatest
  <2>2. /\ lru' = e /\ uses' = g /\ use' = use + 1 /\ entry' = [entry EXCEPT ![plan] = new]
    BY <1>7 DEF Store
  <2> HIDE DEF s, g
  <2>3. Len(s) <= MaxEntries + 1
    BY <2>1, EndpointAssumption DEF EndpointInv, EndpointTypeOK
  <2>4. /\ e \in Seq(Plans) /\ Len(e) <= MaxEntries /\ Range(e) \subseteq Range(s)
        /\ IsInjective(e) /\ Sorted(e, g)
        /\ \A q \in Range(s) \ Range(e), r \in Range(e) : g[q] < g[r]
    BY <2>1, <2>3, EvictSorted
  <2> HIDE DEF e
  <2>5. OrderOK'
    <3>1. \A r \in Range(e), q \in Plans \ Range(e) : g[q] < g[r]
      BY <2>1, <2>4
    <3> QED
      BY <2>1, <2>2, <2>4, <3>1 DEF OrderOK
  <2>6. new \in [result : Result, expiry : Nat] /\ new.result = result /\ new.expiry = uptime + Ttl
    BY EndpointAssumption DEF EndpointInv, EndpointTypeOK
  <2> HIDE DEF new
  <2>7. EntriesOK'
    <3>1. entry'[plan] = new /\ \A q \in Plans \ {plan} : entry'[q] = entry[q]
      BY <1>1, <2>2 DEF EndpointInv, EndpointTypeOK
    <3>2. \A r \in Range(e) : r = plan \/ (r \in Range(lru) /\ r \in Plans \ {plan})
      BY <2>1, <2>4, RangeOfSeq
    <3>3. result.status = "ok"
      BY <1>7 DEF Cacheable
    <3> QED
      BY <1>1, <2>2, <2>6, <3>1, <3>2, <3>3 DEF EndpointInv, EntriesOK
  <2>8. LedgerOK'
    BY <1>2, <1>5, <2>2, EndpointAssumption DEF EndpointInv, EndpointTypeOK, LedgerOK
  <2>9. EndpointTypeOK'
    <3>1. entry' \in [Plans -> [result : Result, expiry : Nat]]
      BY <1>1, <2>2, <2>6 DEF EndpointInv, EndpointTypeOK
    <3> QED
      BY <1>2, <1>4, <1>5, <2>1, <2>2, <2>4, <3>1 DEF EndpointInv, EndpointTypeOK
  <2>10. LogOK'
    <3>1. result.status = "ok"
      BY <1>7 DEF Cacheable
    <3>2. \A q \in Range(lru)' : q \in Range(lru) \/ q = plan
      BY <2>1, <2>2, <2>4
    <3> QED
      BY <1>8, <1>9, <3>1, <3>2, LogGrows
  <2> QED
    BY <1>3, <2>5, <2>7, <2>8, <2>9, <2>10 DEF EndpointInv
<1> QED
  BY <1>6, <1>7

LEMMA EndpointStep == EndpointInv /\ [EndpointNext]_endpointVars => EndpointInv'
<1> SUFFICES ASSUME EndpointInv, [EndpointNext]_endpointVars PROVE EndpointInv'
  OBVIOUS
<1>1. CASE UNCHANGED endpointVars
  BY <1>1 DEF endpointVars, cache, request, counts, history, EndpointInv, EndpointTypeOK, LedgerOK, LogOK,
              LastIsServed, ExecutedBefore, Busy, CallOK, EntriesOK, OrderOK, Sorted, HitIsFresh
<1> QED
  BY <1>1, EndpointBegins, EndpointAnswers, EndpointHits, EndpointMisses, EndpointStores
  DEF EndpointNext

(* get() and put() of request_cache.py (67-94): for any size of the cache, *)
(* any time to live and any sequence of calls, only ok results are given   *)
(* out, at most Ttl seconds after their execution, and what was evicted    *)
(* was used before everything that is still there.                         *)
THEOREM CacheKeepsWhatIsRecent == EndpointSpec => []CacheInv
<1>1. EndpointInv => CacheInv
  <2> SUFFICES ASSUME EndpointInv PROVE CacheInv
    OBVIOUS
  <2>1. RecentKeysStay
    <3> SUFFICES ASSUME NEW p \in Range(lru), NEW q \in Plans, uses[q] > uses[p],
                        q \notin Range(lru)
                 PROVE  FALSE
      BY DEF RecentKeysStay
    <3>1. uses[q] < uses[p]
      BY DEF EndpointInv, OrderOK
    <3>2. p \in Plans
      BY RangeOfSeq DEF EndpointInv, EndpointTypeOK
    <3>3. uses[p] \in Nat /\ uses[q] \in Nat
      BY <3>2 DEF EndpointInv, EndpointTypeOK
    <3> QED
      BY <3>1, <3>3
  <2> QED
    BY <2>1 DEF EndpointInv, CacheInv
<1> QED
  BY EndpointStart, EndpointStep, <1>1, PTL DEF EndpointSpec

(* execute() (app.py:359-498): between calls, every call that was not      *)
(* throttled has made its one attempt at an audit line, with the status it *)
(* was answered with, whichever way it went and whether or not the write   *)
(* failed; and what is answered from the cache was executed, answered and  *)
(* given to the log before.                                                *)
THEOREM TheLogAccountsForCalls == EndpointSpec => []AuditIsComplete
<1>1. EndpointInv => AuditIsComplete
  <2> SUFFICES ASSUME EndpointInv PROVE AuditIsComplete
    OBVIOUS
  <2>1. /\ attempts \in Seq(Line) /\ Len(attempts) \in Nat /\ DOMAIN attempts = 1..Len(attempts)
        /\ received \in Nat /\ throttled \in Nat
    BY LenProperties DEF EndpointInv, EndpointTypeOK
  <2>2. stage = "idle" => Len(attempts) = received - throttled
    BY <2>1 DEF EndpointInv, LedgerOK, Busy
  <2>3. attempts # <<>> => /\ Last(attempts).status = served.result.status
                          /\ Last(attempts).hit = served.hit
    BY DEF EndpointInv, LogOK, LastIsServed, Last
  <2>4. \A i \in DOMAIN attempts : attempts[i].hit =>
         /\ attempts[i].status = "ok"
         /\ \E j \in 1..i - 1 : /\ attempts[j].of = attempts[i].of
                                /\ attempts[j].status = "ok" /\ ~ attempts[j].hit
    BY <2>1 DEF EndpointInv, LogOK, ExecutedBefore
  <2> QED
    BY <2>2, <2>3, <2>4 DEF AuditIsComplete
<1> QED
  BY EndpointStart, EndpointStep, <1>1, PTL DEF EndpointSpec

-----------------------------------------------------------------------------
(* The loops over records, rows, messages and errors                       *)

NextRecord(record, out) == Absorb(out, record)
NextRow(row, columns) == WithRow(columns, row)
NextCount(m, n) == CountRows(n, m)
NextTold(m, told) == Hear(told, m)
NextError(e, by) == WithError(by, e)
LatestOf(places) == Max(places)

Absorbing == INSTANCE FoldFacts WITH Op <- NextRecord, Base <- Nothing, Pick <- LatestOf
Extending == INSTANCE FoldFacts WITH Op <- NextRow, Base <- NoRows, Pick <- LatestOf
Counting == INSTANCE FoldFacts WITH Op <- NextCount, Base <- 0, Pick <- LatestOf
Telling == INSTANCE FoldFacts WITH Op <- NextTold, Base <- [s \in Securities |-> Silence], Pick <- LatestOf
Grouping == INSTANCE FoldFacts WITH Op <- NextError, Base <- [s \in Securities |-> <<>>], Pick <- LatestOf

LEMMA MaxIsLatest ==
  \A n \in Nat : \A S \in SUBSET (1..n) : S # {} => LatestOf(S) \in S /\ \A i \in S : i <= LatestOf(S)
<1>1. ASSUME NEW n \in Nat, NEW S \in SUBSET (1..n), S # {}
      PROVE  LatestOf(S) \in S /\ \A i \in S : i <= LatestOf(S)
  <2>1. PICK x \in S : \A y \in S : y <= x
    BY <1>1, Counting!LastPlace
  <2> QED
    BY <2>1 DEF LatestOf, Max
<1> QED
  BY <1>1

ReadRecords(records) == FoldLeft(Absorb, Nothing, records)
CountOf(messages) == FoldLeft(CountRows, 0, messages)

LEMMA RecordsFold == \A q : ReadRecords(q) = Absorbing!Fold(q, DOMAIN q)
  BY DEF ReadRecords, FoldLeft, Absorbing!Fold, NextRecord, LatestOf, MapThenFoldSet, Absorbing!MapThenFoldSet
LEMMA RowsFold == \A q : HistoryFields(q) = Extending!Fold(q, DOMAIN q)
  BY DEF HistoryFields, FoldLeft, Extending!Fold, NextRow, LatestOf, MapThenFoldSet, Extending!MapThenFoldSet
LEMMA CountFold == \A q : CountOf(q) = Counting!Fold(q, DOMAIN q)
  BY DEF CountOf, FoldLeft, Counting!Fold, NextCount, LatestOf, MapThenFoldSet, Counting!MapThenFoldSet
LEMMA ToldFold == \A q : Told(q) = Telling!Fold(q, DOMAIN q)
  BY DEF Told, FoldLeft, Telling!Fold, NextTold, LatestOf, MapThenFoldSet, Telling!MapThenFoldSet
LEMMA ErrorsFold == \A q : BySecurity(q) = Grouping!Fold(q, DOMAIN q)
  BY DEF BySecurity, FoldLeft, Grouping!Fold, NextError, LatestOf, MapThenFoldSet, Grouping!MapThenFoldSet

LEMMA NoneRead ==
  /\ ReadRecords(<<>>) = Nothing /\ HistoryFields(<<>>) = NoRows /\ CountOf(<<>>) = 0
  /\ Told(<<>>) = [s \in Securities |-> Silence]
  /\ BySecurity(<<>>) = [s \in Securities |-> <<>>]
<1>1. ReadRecords(<<>>) = Nothing
  BY RecordsFold, Absorbing!FoldOfEmpty
<1>2. HistoryFields(<<>>) = NoRows
  BY RowsFold, Extending!FoldOfEmpty
<1>3. CountOf(<<>>) = 0
  BY CountFold, Counting!FoldOfEmpty
<1>4. Told(<<>>) = [s \in Securities |-> Silence]
  BY ToldFold, Telling!FoldOfEmpty
<1>5. BySecurity(<<>>) = [s \in Securities |-> <<>>]
  BY ErrorsFold, Grouping!FoldOfEmpty
<1> QED
  BY <1>1, <1>2, <1>3, <1>4, <1>5

LEMMA OneMoreRecord ==
  ASSUME NEW T, NEW q \in Seq(T), NEW e \in T PROVE ReadRecords(Append(q, e)) = Absorb(ReadRecords(q), e)
<1>1. Absorbing!Latest
  BY MaxIsLatest DEF Absorbing!Latest
<1>2. Absorbing!Fold(Append(q, e), DOMAIN Append(q, e)) = NextRecord(e, Absorbing!Fold(q, DOMAIN q))
  BY <1>1, Absorbing!FoldOfAppend
<1> QED
  BY <1>2, RecordsFold DEF NextRecord

LEMMA OneMoreRow ==
  ASSUME NEW T, NEW q \in Seq(T), NEW e \in T
  PROVE  HistoryFields(Append(q, e)) = WithRow(HistoryFields(q), e)
<1>1. Extending!Latest
  BY MaxIsLatest DEF Extending!Latest
<1>2. Extending!Fold(Append(q, e), DOMAIN Append(q, e)) = NextRow(e, Extending!Fold(q, DOMAIN q))
  BY <1>1, Extending!FoldOfAppend
<1> QED
  BY <1>2, RowsFold DEF NextRow

LEMMA OneMoreCounted ==
  ASSUME NEW T, NEW q \in Seq(T), NEW e \in T PROVE CountOf(Append(q, e)) = CountRows(CountOf(q), e)
<1>1. Counting!Latest
  BY MaxIsLatest DEF Counting!Latest
<1>2. Counting!Fold(Append(q, e), DOMAIN Append(q, e)) = NextCount(e, Counting!Fold(q, DOMAIN q))
  BY <1>1, Counting!FoldOfAppend
<1> QED
  BY <1>2, CountFold DEF NextCount

LEMMA OneMoreTold ==
  ASSUME NEW T, NEW q \in Seq(T), NEW e \in T PROVE Told(Append(q, e)) = Hear(Told(q), e)
<1>1. Telling!Latest
  BY MaxIsLatest DEF Telling!Latest
<1>2. Telling!Fold(Append(q, e), DOMAIN Append(q, e)) = NextTold(e, Telling!Fold(q, DOMAIN q))
  BY <1>1, Telling!FoldOfAppend
<1> QED
  BY <1>2, ToldFold DEF NextTold

LEMMA OneMoreError ==
  ASSUME NEW T, NEW q \in Seq(T), NEW e \in T PROVE BySecurity(Append(q, e)) = WithError(BySecurity(q), e)
<1>1. Grouping!Latest
  BY MaxIsLatest DEF Grouping!Latest
<1>2. Grouping!Fold(Append(q, e), DOMAIN Append(q, e)) = NextError(e, Grouping!Fold(q, DOMAIN q))
  BY <1>1, Grouping!FoldOfAppend
<1> QED
  BY <1>2, ErrorsFold DEF NextError

-----------------------------------------------------------------------------
(* The columns of a history                                                *)

RowSet == [date : Nat, fields : SUBSET Fields]

Columned(columns) ==
  /\ "dates" \in DOMAIN columns /\ DOMAIN columns \subseteq {"dates"} \cup Fields
  /\ \A f \in DOMAIN columns : columns[f] = List(columns[f].items) /\ columns[f].items \in Seq(Nat)
  /\ columns = [f \in DOMAIN columns |-> columns[f]]

(* The column of a field that no row has yet is empty.                     *)
ColumnOf(columns, f) == IF f \in DOMAIN columns THEN columns[f].items ELSE <<>>

LEMMA ListItems == \A x : List(x).items = x /\ List(x).type = "list"
  BY DEF List

LEMMA EmptyColumns ==
  /\ Columned(NoRows) /\ DOMAIN NoRows = {"dates"} /\ NoRows["dates"] = List(<<>>)
  /\ \A f \in DOMAIN NoRows : NoRows[f] = List(<<>>)
<1>1. DOMAIN NoRows = {"dates"} /\ NoRows["dates"] = List(<<>>) /\ NoRows = [f \in DOMAIN NoRows |-> NoRows[f]]
  BY DEF NoRows
<1>2. List(<<>>).items = <<>> /\ <<>> \in Seq(Nat)
  BY ListItems
<1> QED
  BY <1>1, <1>2 DEF Columned

(* What one more row does to the columns.                                  *)
RowAdded(next, columns, row) ==
  /\ Columned(next) /\ DOMAIN next = DOMAIN columns \cup row.fields
  /\ \A f \in DOMAIN next : f = "dates" \/ f \in row.fields =>
       next[f].items = Append(ColumnOf(columns, f), row.date) /\ ColumnOf(columns, f) \in Seq(Nat)
  /\ \A f \in DOMAIN next : f # "dates" /\ f \notin row.fields =>
       f \in DOMAIN columns /\ next[f] = columns[f]
  /\ "dates" \notin row.fields

LEMMA RowExtends ==
  ASSUME NEW columns, Columned(columns), NEW row \in RowSet
  PROVE  RowAdded(WithRow(columns, row), columns, row)
<1> DEFINE next == WithRow(columns, row)
<1>1. row.date \in Nat /\ row.fields \subseteq Fields /\ "dates" \notin row.fields
  BY ResponsesAssumption DEF RowSet
<1>2. /\ DOMAIN next = DOMAIN columns \cup row.fields /\ next = [f \in DOMAIN next |-> next[f]]
      /\ \A f \in DOMAIN next :
           next[f] = IF f = "dates" \/ f \in row.fields
                     THEN List(Append(ColumnOf(columns, f), row.date)) ELSE columns[f]
  BY DEF WithRow, ColumnOf
<1> HIDE DEF next
<1>3. \A f : ColumnOf(columns, f) \in Seq(Nat)
  BY DEF Columned, ColumnOf
<1>4. \A f \in DOMAIN next : f = "dates" \/ f \in row.fields =>
         /\ next[f].items = Append(ColumnOf(columns, f), row.date) /\ next[f] = List(next[f].items)
         /\ next[f].items \in Seq(Nat)
  <2> SUFFICES ASSUME NEW f \in DOMAIN next, f = "dates" \/ f \in row.fields
               PROVE  /\ next[f].items = Append(ColumnOf(columns, f), row.date)
                      /\ next[f] = List(next[f].items) /\ next[f].items \in Seq(Nat)
    OBVIOUS
  <2> DEFINE longer == Append(ColumnOf(columns, f), row.date)
  <2>1. next[f] = List(longer)
    BY <1>2
  <2>2. longer \in Seq(Nat)
    BY <1>1, <1>3, AppendProperties
  <2> HIDE DEF longer
  <2>3. next[f].items = longer
    BY <2>1, ListItems
  <2> QED
    BY <2>1, <2>2, <2>3 DEF longer
<1>5. \A f \in DOMAIN next : f # "dates" /\ f \notin row.fields =>
         f \in DOMAIN columns /\ next[f] = columns[f]
  BY <1>2
<1>6. Columned(next)
  BY <1>1, <1>2, <1>4, <1>5 DEF Columned
<1> QED
  BY <1>1, <1>2, <1>3, <1>4, <1>5, <1>6 DEF next, RowAdded

LEMMA HistoryColumned ==
  ASSUME NEW rows \in Seq(RowSet) PROVE Columned(HistoryFields(rows))
<1> DEFINE S == {q \in Seq(RowSet) : Columned(HistoryFields(q))}
<1>1. <<>> \in S
  BY NoneRead, EmptyColumns
<1>2. ASSUME NEW q \in Seq(RowSet), NEW e \in RowSet, q \in S PROVE Append(q, e) \in S
  <2>1. HistoryFields(Append(q, e)) = WithRow(HistoryFields(q), e) /\ Append(q, e) \in Seq(RowSet)
    BY <1>2, OneMoreRow
  <2>2. Columned(WithRow(HistoryFields(q), e))
    BY <1>2, RowExtends DEF RowAdded
  <2> QED
    BY <2>1, <2>2
<1> HIDE DEF S
<1>3. Seq(RowSet) \subseteq S
  BY <1>1, <1>2, Extending!SeqSetInduction
<1> QED
  BY <1>3 DEF S

(* Only whole columns are as long as the dates.                            *)
Level(columns) ==
  \A f \in Fields :
    /\ Len(ColumnOf(columns, f)) <= Len(ColumnOf(columns, "dates"))
    /\ Len(ColumnOf(columns, f)) = Len(ColumnOf(columns, "dates"))
         => ColumnOf(columns, f) = ColumnOf(columns, "dates")

LEMMA RowKeepsLevel ==
  ASSUME NEW columns, Columned(columns), Level(columns), NEW row \in RowSet
  PROVE  Level(WithRow(columns, row))
<1> DEFINE next == WithRow(columns, row)
<1>1. /\ Columned(next) /\ DOMAIN next = DOMAIN columns \cup row.fields
      /\ \A f \in DOMAIN next : f = "dates" \/ f \in row.fields =>
                  next[f].items = Append(ColumnOf(columns, f), row.date) /\ ColumnOf(columns, f) \in Seq(Nat)
      /\ \A f \in DOMAIN next : f # "dates" /\ f \notin row.fields =>
                  f \in DOMAIN columns /\ next[f] = columns[f]
  BY RowExtends DEF RowAdded
<1> HIDE DEF next
<1>2. "dates" \in DOMAIN next /\ "dates" \notin Fields
  BY <1>1, ResponsesAssumption DEF Columned
<1> DEFINE old == ColumnOf(columns, "dates")
<1>3. ColumnOf(next, "dates") = Append(old, row.date) /\ old \in Seq(Nat) /\ row.date \in Nat
  BY <1>1, <1>2 DEF ColumnOf, RowSet
<1>4. ASSUME NEW f \in Fields
      PROVE  /\ Len(ColumnOf(next, f)) <= Len(ColumnOf(next, "dates"))
             /\ Len(ColumnOf(next, f)) = Len(ColumnOf(next, "dates"))
                  => ColumnOf(next, f) = ColumnOf(next, "dates")
  <2> DEFINE was == ColumnOf(columns, f)
  <2>1. /\ Len(was) <= Len(old) /\ (Len(was) = Len(old) => was = old)
        /\ was \in Seq(Nat)
    BY <1>2, <1>4 DEF Level, ColumnOf, Columned
  <2>2. CASE f \in row.fields
    <3>1. ColumnOf(next, f) = Append(was, row.date)
      BY <1>1, <2>2 DEF ColumnOf
    <3> HIDE DEF was, old
    <3> QED
      BY <1>3, <2>1, <3>1
  <2>3. CASE f \notin row.fields
    <3>1. ColumnOf(next, f) = was
      BY <1>1, <1>2, <1>4, <2>3 DEF ColumnOf
    <3> HIDE DEF was, old
    <3> QED
      BY <1>3, <2>1, <3>1
  <2> QED
    BY <2>2, <2>3
<1> QED
  BY <1>4 DEF Level, next

LEMMA HistoryLevel ==
  ASSUME NEW rows \in Seq(RowSet) PROVE Level(HistoryFields(rows))
<1> DEFINE S == {q \in Seq(RowSet) : Level(HistoryFields(q))}
<1>1. <<>> \in S
  <2>1. \A f : ColumnOf(NoRows, f) = <<>>
    BY EmptyColumns, ListItems DEF ColumnOf
  <2> QED
    BY <2>1, NoneRead DEF Level
<1>2. ASSUME NEW q \in Seq(RowSet), NEW e \in RowSet, q \in S PROVE Append(q, e) \in S
  <2>1. HistoryFields(Append(q, e)) = WithRow(HistoryFields(q), e) /\ Append(q, e) \in Seq(RowSet)
    BY <1>2, OneMoreRow
  <2>2. Columned(HistoryFields(q)) /\ Level(HistoryFields(q))
    BY <1>2, HistoryColumned
  <2>3. Level(WithRow(HistoryFields(q), e))
    BY <1>2, <2>2, RowKeepsLevel
  <2> QED
    BY <2>1, <2>3
<1> HIDE DEF S
<1>3. Seq(RowSet) \subseteq S
  BY <1>1, <1>2, Extending!SeqSetInduction
<1> QED
  BY <1>3 DEF S

(* The column of a field after one more row that has it ...                *)
LEMMA ColumnGrows ==
  ASSUME NEW f, NEW column \in Seq(Nat), NEW rows \in Seq(RowSet), IsColumn(column, rows, f),
         NEW row \in RowSet, f \in row.fields
  PROVE  IsColumn(Append(column, row.date), Append(rows, row), f)
<1> DEFINE places == {n \in DOMAIN rows : f \in rows[n].fields}
           longer == Append(rows, row)
           wider == Append(column, row.date)
           more == {n \in DOMAIN longer : f \in longer[n].fields}
           k == Len(column) + 1
           m == Len(rows) + 1
<1>1. PICK spot \in [DOMAIN column -> places] :
         /\ \A i, j \in DOMAIN column : i < j => spot[i] < spot[j]
         /\ \A n \in places : \E i \in DOMAIN column : spot[i] = n
         /\ \A i \in DOMAIN column : column[i] = rows[spot[i]].date
  BY DEF IsColumn
<1>2. /\ DOMAIN column = 1..Len(column) /\ DOMAIN wider = 1..k /\ Len(column) \in Nat
      /\ DOMAIN rows = 1..Len(rows) /\ DOMAIN longer = 1..m /\ Len(rows) \in Nat
      /\ wider[k] = row.date /\ longer[m] = row
      /\ \A i \in 1..Len(column) : wider[i] = column[i]
      /\ \A i \in 1..Len(rows) : longer[i] = rows[i]
  <2>1. row.date \in Nat
    BY DEF RowSet
  <2> QED
    BY <2>1
<1> HIDE DEF longer, wider
<1>3. more = places \cup {m} /\ m \notin places
  BY <1>2
<1> DEFINE next == [i \in 1..k |-> IF i = k THEN m ELSE spot[i]]
<1>4. next \in [DOMAIN wider -> more]
  BY <1>1, <1>2, <1>3
<1>9. /\ \A i \in 1..Len(column) : i # k /\ next[i] = spot[i] /\ spot[i] \in places /\ spot[i] \in 1..Len(rows) /\ spot[i] < m
      /\ next[k] = m /\ k \in 1..k /\ \A i \in 1..k : i = k \/ i \in 1..Len(column)
  <2>1. \A n \in places : n \in 1..Len(rows) /\ n < m
    BY <1>2
  <2>2. \A i \in 1..Len(column) : i # k /\ i \in 1..k
    BY <1>2
  <2>3. k \in 1..k /\ \A i \in 1..k : i = k \/ i \in 1..Len(column)
    BY <1>2
  <2>4. \A i \in 1..Len(column) : spot[i] \in places
    BY <1>1, <1>2
  <2> HIDE DEF places
  <2> QED
    BY <2>1, <2>2, <2>3, <2>4
<1> HIDE DEF next, places, k, m
<1>5. \A i, j \in DOMAIN wider : i < j => next[i] < next[j]
  <2> SUFFICES ASSUME NEW i \in 1..k, NEW j \in 1..k, i < j PROVE next[i] < next[j]
    BY <1>2
  <2>1. i \in 1..Len(column)
    <3>1. k \in Int /\ ~(k < j)
      BY <1>2 DEF k
    <3> QED
      BY <1>9, <3>1
  <2>2. CASE j = k
    BY <1>9, <2>1, <2>2
  <2>3. CASE j # k
    <3>1. j \in 1..Len(column)
      BY <1>9, <2>3
    <3>2. spot[i] < spot[j]
      BY <1>1, <1>2, <2>1, <3>1
    <3> QED
      BY <1>9, <2>1, <3>1, <3>2
  <2> QED
    BY <2>2, <2>3
<1>6. \A n \in more : \E i \in DOMAIN wider : next[i] = n
  <2> SUFFICES ASSUME NEW n \in more PROVE \E i \in 1..k : next[i] = n
    BY <1>2
  <2>1. CASE n = m
    BY <1>9, <2>1
  <2>2. CASE n # m
    <3>1. PICK i \in DOMAIN column : spot[i] = n
      BY <1>1, <1>3, <2>2
    <3>2. i \in 1..k
      BY <1>2, <3>1 DEF k
    <3> QED
      BY <1>2, <1>9, <3>1, <3>2
  <2> QED
    BY <2>1, <2>2
<1>7. \A i \in DOMAIN wider : wider[i] = longer[next[i]].date
  <2> SUFFICES ASSUME NEW i \in 1..k PROVE wider[i] = longer[next[i]].date
    BY <1>2
  <2>1. CASE i = k
    BY <1>2, <1>9, <2>1
  <2>2. CASE i # k
    <3>1. i \in DOMAIN column /\ next[i] = spot[i] /\ spot[i] \in 1..Len(rows)
      BY <1>2, <1>9, <2>2
    <3> QED
      BY <1>1, <1>2, <3>1
  <2> QED
    BY <2>1, <2>2
<1> HIDE DEF next, more
<1>8. \E to \in [DOMAIN wider -> more] :
         /\ \A i, j \in DOMAIN wider : i < j => to[i] < to[j]
         /\ \A n \in more : \E i \in DOMAIN wider : to[i] = n
         /\ \A i \in DOMAIN wider : wider[i] = longer[to[i]].date
  BY <1>4, <1>5, <1>6, <1>7
<1> QED
  BY <1>8 DEF IsColumn, more, wider, longer

(* ... and after one that does not.                                        *)
LEMMA ColumnStays ==
  ASSUME NEW f, NEW column, NEW rows \in Seq(RowSet), IsColumn(column, rows, f),
         NEW row \in RowSet, f \notin row.fields
  PROVE  IsColumn(column, Append(rows, row), f)
<1> DEFINE places == {n \in DOMAIN rows : f \in rows[n].fields}
           longer == Append(rows, row)
           more == {n \in DOMAIN longer : f \in longer[n].fields}
<1>1. PICK spot \in [DOMAIN column -> places] :
         /\ \A i, j \in DOMAIN column : i < j => spot[i] < spot[j]
         /\ \A n \in places : \E i \in DOMAIN column : spot[i] = n
         /\ \A i \in DOMAIN column : column[i] = rows[spot[i]].date
  BY DEF IsColumn
<1>2. /\ DOMAIN rows = 1..Len(rows) /\ DOMAIN longer = 1..(Len(rows) + 1) /\ Len(rows) \in Nat
      /\ longer[Len(rows) + 1] = row
      /\ \A i \in 1..Len(rows) : longer[i] = rows[i]
  OBVIOUS
<1> HIDE DEF longer
<1>3. more = places
  BY <1>2
<1>4. \A i \in DOMAIN column : column[i] = longer[spot[i]].date
  BY <1>1, <1>2
<1> HIDE DEF more
<1>5. \E to \in [DOMAIN column -> more] :
         /\ \A i, j \in DOMAIN column : i < j => to[i] < to[j]
         /\ \A n \in more : \E i \in DOMAIN column : to[i] = n
         /\ \A i \in DOMAIN column : column[i] = longer[to[i]].date
  BY <1>1, <1>3, <1>4
<1> QED
  BY <1>5 DEF IsColumn, more, longer

(* A field that no row has: its column is empty.                           *)
LEMMA ColumnOfNone ==
  ASSUME NEW f, NEW rows, \A n \in DOMAIN rows : f \notin rows[n].fields
  PROVE  IsColumn(<<>>, rows, f)
<1> DEFINE places == {n \in DOMAIN rows : f \in rows[n].fields}
<1>1. DOMAIN <<>> = {} /\ places = {}
  OBVIOUS
<1>2. [i \in {} |-> 0] \in [{} -> {}]
  OBVIOUS
<1> QED
  BY <1>1, <1>2 DEF IsColumn

LEMMA RowKeepsHistory ==
  ASSUME NEW columns, Columned(columns), NEW rows \in Seq(RowSet), IsHistory(columns, rows),
         NEW row \in RowSet
  PROVE  IsHistory(WithRow(columns, row), Append(rows, row))
<1> DEFINE next == WithRow(columns, row)
           longer == Append(rows, row)
<1>1. /\ Columned(next) /\ DOMAIN next = DOMAIN columns \cup row.fields
      /\ \A f \in DOMAIN next : f = "dates" \/ f \in row.fields =>
                  next[f].items = Append(ColumnOf(columns, f), row.date) /\ ColumnOf(columns, f) \in Seq(Nat)
      /\ \A f \in DOMAIN next : f # "dates" /\ f \notin row.fields =>
                  f \in DOMAIN columns /\ next[f] = columns[f]
      /\ "dates" \notin row.fields
  BY RowExtends DEF RowAdded
<1> HIDE DEF next
<1>2. /\ DOMAIN longer = DOMAIN rows \cup {Len(rows) + 1} /\ longer[Len(rows) + 1] = row
      /\ \A n \in DOMAIN rows : longer[n] = rows[n]
  OBVIOUS
<1>3. /\ DOMAIN columns = {"dates"} \cup UNION {rows[n].fields : n \in DOMAIN rows}
      /\ columns["dates"] = List([n \in DOMAIN rows |-> rows[n].date])
      /\ \A f \in DOMAIN columns \ {"dates"} : IsColumn(columns[f].items, rows, f)
  BY DEF IsHistory
<1>4. DOMAIN next = {"dates"} \cup UNION {longer[n].fields : n \in DOMAIN longer}
  <2> HIDE DEF longer
  <2>1. UNION {longer[n].fields : n \in DOMAIN longer}
          = (UNION {rows[n].fields : n \in DOMAIN rows}) \cup row.fields
    BY <1>2
  <2> QED
    BY <1>1, <1>3, <2>1
<1>5. next["dates"] = List([n \in DOMAIN longer |-> longer[n].date])
  <2> DEFINE old == [n \in DOMAIN rows |-> rows[n].date]
  <2>1. "dates" \in DOMAIN next /\ "dates" \in DOMAIN columns
    BY <1>1 DEF Columned
  <2>2. ColumnOf(columns, "dates") = old
    BY <1>3, <2>1, ListItems DEF ColumnOf
  <2>3. next["dates"] = List(Append(old, row.date))
    <3>1. next["dates"].items = Append(old, row.date) /\ next["dates"] = List(next["dates"].items)
      BY <1>1, <2>1, <2>2 DEF Columned
    <3> QED
      BY <3>1
  <2>4. Append(old, row.date) = [n \in DOMAIN longer |-> longer[n].date]
    <3>1. row.date \in Nat /\ \A n \in DOMAIN rows : rows[n].date \in Nat
      <4>1. \A r \in RowSet : r.date \in Nat
        BY DEF RowSet
      <4>2. \A n \in DOMAIN rows : rows[n] \in RowSet
        OBVIOUS
      <4> QED
        BY <4>1, <4>2
    <3>2. old \in Seq(Nat) /\ Len(old) = Len(rows) /\ DOMAIN rows = 1..Len(rows) /\ Len(rows) \in Nat
      BY <3>1
    <3> QED
      BY <1>2, <3>1, <3>2
  <2> QED
    BY <2>3, <2>4
<1>6. ASSUME NEW f \in DOMAIN next \ {"dates"} PROVE IsColumn(next[f].items, longer, f)
  <2>1. CASE f \in row.fields
    <3>1. next[f].items = Append(ColumnOf(columns, f), row.date) /\ ColumnOf(columns, f) \in Seq(Nat)
      BY <1>1, <2>1
    <3>2. IsColumn(ColumnOf(columns, f), rows, f)
      <4>1. CASE f \in DOMAIN columns
        BY <1>3, <1>6, <4>1 DEF ColumnOf
      <4>2. CASE f \notin DOMAIN columns
        <5>1. \A n \in DOMAIN rows : f \notin rows[n].fields
          BY <1>3, <4>2
        <5> QED
          BY <4>2, <5>1, ColumnOfNone DEF ColumnOf
      <4> QED
        BY <4>1, <4>2
    <3> QED
      BY <2>1, <3>1, <3>2, ColumnGrows
  <2>2. CASE f \notin row.fields
    <3>1. f \in DOMAIN columns \ {"dates"} /\ next[f] = columns[f]
      BY <1>1, <1>6, <2>2
    <3> QED
      BY <1>3, <2>2, <3>1, ColumnStays
  <2> QED
    BY <2>1, <2>2
<1> QED
  BY <1>4, <1>5, <1>6 DEF IsHistory, next

LEMMA HistoryTold ==
  ASSUME NEW rows \in Seq(RowSet) PROVE IsHistory(HistoryFields(rows), rows)
<1> DEFINE S == {q \in Seq(RowSet) : IsHistory(HistoryFields(q), q)}
<1>1. <<>> \in S
  <2>1. DOMAIN NoRows = {"dates"} /\ NoRows["dates"] = List([n \in DOMAIN <<>> |-> <<>>[n].date])
    <3>1. [n \in DOMAIN <<>> |-> <<>>[n].date] = <<>>
      OBVIOUS
    <3> QED
      BY <3>1, EmptyColumns
  <2>2. (UNION {<<>>[n].fields : n \in DOMAIN <<>>}) = {}
    OBVIOUS
  <2>3. IsHistory(NoRows, <<>>)
    BY <2>1, <2>2 DEF IsHistory
  <2> QED
    BY <2>3, NoneRead
<1>2. ASSUME NEW q \in Seq(RowSet), NEW e \in RowSet, q \in S PROVE Append(q, e) \in S
  <2>1. HistoryFields(Append(q, e)) = WithRow(HistoryFields(q), e) /\ Append(q, e) \in Seq(RowSet)
    BY <1>2, OneMoreRow
  <2>2. Columned(HistoryFields(q)) /\ IsHistory(HistoryFields(q), q)
    BY <1>2, HistoryColumned
  <2>3. IsHistory(WithRow(HistoryFields(q), e), Append(q, e))
    BY <1>2, <2>2, RowKeepsHistory
  <2> QED
    BY <2>1, <2>3
<1> HIDE DEF S
<1>3. Seq(RowSet) \subseteq S
  BY <1>1, <1>2, Extending!SeqSetInduction
<1> QED
  BY <1>3 DEF S

(* A merge of two histories is the history of their rows.                  *)
LEMMA MergeIsColumned ==
  ASSUME NEW x, NEW y, Columned(x), Columned(y)
  PROVE  LET both == MergeFields(x, y)
         IN  /\ Columned(both) /\ DOMAIN both = DOMAIN x \cup DOMAIN y
             /\ \A f : ColumnOf(both, f) = ColumnOf(x, f) \o ColumnOf(y, f)
<1> DEFINE both == MergeFields(x, y)
<1>1. /\ DOMAIN both = DOMAIN x \cup DOMAIN y /\ both = [f \in DOMAIN both |-> both[f]]
      /\ \A f \in DOMAIN both :
           both[f] = CASE f \notin DOMAIN y -> x[f]
                       [] f \in DOMAIN y /\ f \in DOMAIN x /\ x[f].type = "list" /\ y[f].type = "list" ->
                            List(x[f].items \o y[f].items)
                       [] OTHER -> y[f]
  BY DEF MergeFields
<1> HIDE DEF both
<1>2. /\ \A f \in DOMAIN x : x[f] = List(x[f].items) /\ x[f].type = "list" /\ x[f].items \in Seq(Nat)
      /\ \A f \in DOMAIN y : y[f] = List(y[f].items) /\ y[f].type = "list" /\ y[f].items \in Seq(Nat)
  BY ListItems DEF Columned
<1>3. \A f \in DOMAIN both : both[f] = List(ColumnOf(x, f) \o ColumnOf(y, f))
  <2> SUFFICES ASSUME NEW f \in DOMAIN both PROVE both[f] = List(ColumnOf(x, f) \o ColumnOf(y, f))
    OBVIOUS
  <2>1. CASE f \in DOMAIN x /\ f \in DOMAIN y
    BY <1>1, <1>2, <2>1 DEF ColumnOf
  <2>2. CASE f \in DOMAIN x /\ f \notin DOMAIN y
    <3>1. both[f] = List(x[f].items) /\ x[f].items \in Seq(Nat)
      BY <1>1, <1>2, <2>2
    <3>2. x[f].items \o <<>> = x[f].items
      BY <3>1, ConcatEmptySeq
    <3> QED
      BY <2>2, <3>1, <3>2 DEF ColumnOf
  <2>3. CASE f \notin DOMAIN x /\ f \in DOMAIN y
    <3>1. both[f] = List(y[f].items) /\ y[f].items \in Seq(Nat)
      BY <1>1, <1>2, <2>3
    <3>2. <<>> \o y[f].items = y[f].items
      BY <3>1, ConcatEmptySeq
    <3> QED
      BY <2>3, <3>1, <3>2 DEF ColumnOf
  <2> QED
    BY <1>1, <2>1, <2>2, <2>3
<1>4. \A f : ColumnOf(x, f) \in Seq(Nat) /\ ColumnOf(y, f) \in Seq(Nat)
  BY <1>2 DEF ColumnOf
<1>5. \A f : ColumnOf(x, f) \o ColumnOf(y, f) \in Seq(Nat)
  BY <1>4, ConcatProperties
<1>6. \A f : ColumnOf(both, f) = ColumnOf(x, f) \o ColumnOf(y, f)
  <2> SUFFICES ASSUME NEW f PROVE ColumnOf(both, f) = ColumnOf(x, f) \o ColumnOf(y, f)
    OBVIOUS
  <2>1. CASE f \in DOMAIN both
    BY <1>3, <2>1, ListItems DEF ColumnOf
  <2>2. CASE f \notin DOMAIN both
    <3>1. ColumnOf(both, f) = <<>> /\ ColumnOf(x, f) = <<>> /\ ColumnOf(y, f) = <<>>
      BY <1>1, <2>2 DEF ColumnOf
    <3> QED
      BY <3>1
  <2> QED
    BY <2>1, <2>2
<1>7. Columned(both)
  <2>1. ASSUME NEW f \in DOMAIN both PROVE both[f] = List(both[f].items) /\ both[f].items \in Seq(Nat)
    <3>1. both[f] = List(ColumnOf(x, f) \o ColumnOf(y, f)) /\ both[f].items = ColumnOf(x, f) \o ColumnOf(y, f)
      BY <1>3, ListItems
    <3> QED
      BY <1>5, <3>1
  <2>2. "dates" \in DOMAIN both /\ DOMAIN both \subseteq {"dates"} \cup Fields
    BY <1>1 DEF Columned
  <2> QED
    BY <1>1, <2>1, <2>2 DEF Columned
<1> QED
  BY <1>1, <1>6, <1>7 DEF both

(* Columns with the same fields and items are the same.                    *)
LEMMA SameColumns ==
  ASSUME NEW x, NEW y, Columned(x), Columned(y), DOMAIN x = DOMAIN y,
         \A f \in DOMAIN x : ColumnOf(x, f) = ColumnOf(y, f)
  PROVE  x = y
<1>1. \A f \in DOMAIN x : x[f] = y[f]
  <2> SUFFICES ASSUME NEW f \in DOMAIN x PROVE x[f] = y[f]
    OBVIOUS
  <2>1. x[f].items = y[f].items /\ x[f] = List(x[f].items) /\ y[f] = List(y[f].items)
    BY DEF ColumnOf, Columned
  <2> QED
    BY <2>1
<1>2. x = [f \in DOMAIN x |-> x[f]] /\ y = [f \in DOMAIN y |-> y[f]]
  BY DEF Columned
<1> QED
  BY <1>1, <1>2

LEMMA MergeNoRows == ASSUME NEW x, Columned(x) PROVE MergeFields(x, NoRows) = x
<1>1. \A f : ColumnOf(x, f) \in Seq(Nat) /\ ColumnOf(NoRows, f) = <<>>
  BY EmptyColumns, ListItems DEF Columned, ColumnOf
<1> DEFINE both == MergeFields(x, NoRows)
<1>2. /\ Columned(both) /\ DOMAIN both = DOMAIN x \cup DOMAIN NoRows
      /\ \A f : ColumnOf(both, f) = ColumnOf(x, f) \o ColumnOf(NoRows, f)
  BY EmptyColumns, MergeIsColumned
<1>3. \A f : ColumnOf(both, f) = ColumnOf(x, f)
  BY <1>1, <1>2, ConcatEmptySeq
<1>4. DOMAIN both = DOMAIN x
  BY <1>2, EmptyColumns DEF Columned
<1> HIDE DEF both
<1>5. both = x
  BY <1>2, <1>3, <1>4, SameColumns
<1> QED
  BY <1>5 DEF both

LEMMA MergeOneRow ==
  ASSUME NEW x, NEW y, Columned(x), Columned(y), NEW row \in RowSet
  PROVE  MergeFields(x, WithRow(y, row)) = WithRow(MergeFields(x, y), row)
<1> DEFINE next == WithRow(y, row)
           both == MergeFields(x, y)
           left == MergeFields(x, next)
           right == WithRow(both, row)
<1>1. /\ Columned(next) /\ DOMAIN next = DOMAIN y \cup row.fields
      /\ \A f \in DOMAIN next : f = "dates" \/ f \in row.fields =>
                  next[f].items = Append(ColumnOf(y, f), row.date)
      /\ \A f \in DOMAIN next : f # "dates" /\ f \notin row.fields => f \in DOMAIN y /\ next[f] = y[f]
  <2>1. RowAdded(next, y, row)
    BY RowExtends
  <2> HIDE DEF next
  <2> QED
    BY <2>1 DEF RowAdded
<1>2. /\ Columned(both) /\ DOMAIN both = DOMAIN x \cup DOMAIN y
      /\ \A f : ColumnOf(both, f) = ColumnOf(x, f) \o ColumnOf(y, f)
  BY MergeIsColumned
<1>3. /\ Columned(right) /\ DOMAIN right = DOMAIN both \cup row.fields
      /\ \A f \in DOMAIN right : f = "dates" \/ f \in row.fields =>
                  right[f].items = Append(ColumnOf(both, f), row.date)
      /\ \A f \in DOMAIN right : f # "dates" /\ f \notin row.fields => f \in DOMAIN both /\ right[f] = both[f]
  <2> HIDE DEF both
  <2>1. RowAdded(right, both, row)
    BY <1>2, RowExtends
  <2> HIDE DEF right
  <2> QED
    BY <2>1 DEF RowAdded
<1>4. /\ Columned(left) /\ DOMAIN left = DOMAIN x \cup DOMAIN next
      /\ \A f : ColumnOf(left, f) = ColumnOf(x, f) \o ColumnOf(next, f)
  <2> HIDE DEF next
  <2> QED
    BY <1>1, MergeIsColumned
<1> HIDE DEF next, both, left, right
<1>5. DOMAIN left = DOMAIN right
  BY <1>1, <1>2, <1>3, <1>4
<1>6. ASSUME NEW f \in DOMAIN left PROVE ColumnOf(left, f) = ColumnOf(right, f)
  <2>1. ColumnOf(x, f) \in Seq(Nat) /\ ColumnOf(y, f) \in Seq(Nat) /\ row.date \in Nat
    BY DEF Columned, ColumnOf, RowSet
  <2>2. CASE f = "dates" \/ f \in row.fields
    <3>1. ColumnOf(next, f) = Append(ColumnOf(y, f), row.date)
      BY <1>1, <2>2 DEF ColumnOf, Columned
    <3>2. ColumnOf(right, f) = Append(ColumnOf(x, f) \o ColumnOf(y, f), row.date)
      BY <1>2, <1>3, <1>5, <1>6, <2>2 DEF ColumnOf
    <3>3. ColumnOf(left, f) = ColumnOf(x, f) \o Append(ColumnOf(y, f), row.date)
      BY <1>4, <3>1
    <3>4. ASSUME NEW a \in Seq(Nat), NEW b \in Seq(Nat), NEW d \in Nat
          PROVE  a \o Append(b, d) = Append(a \o b, d)
      OBVIOUS
    <3> QED
      BY <2>1, <3>2, <3>3, <3>4
  <2>3. CASE f # "dates" /\ f \notin row.fields
    <3>1. ColumnOf(next, f) = ColumnOf(y, f)
      BY <1>1, <2>3 DEF ColumnOf
    <3>2. ColumnOf(right, f) = ColumnOf(both, f)
      BY <1>3, <1>5, <1>6, <2>3 DEF ColumnOf
    <3> QED
      BY <1>2, <1>4, <3>1, <3>2
  <2> QED
    BY <2>2, <2>3
<1>7. left = right
  BY <1>3, <1>4, <1>5, <1>6, SameColumns
<1> QED
  BY <1>7 DEF left, right, next, both

LEMMA HistoriesMerge ==
  ASSUME NEW a \in Seq(RowSet), NEW b \in Seq(RowSet)
  PROVE  MergeFields(HistoryFields(a), HistoryFields(b)) = HistoryFields(a \o b)
<1> DEFINE S == {q \in Seq(RowSet) : MergeFields(HistoryFields(a), HistoryFields(q)) = HistoryFields(a \o q)}
<1>1. <<>> \in S
  <2>1. MergeFields(HistoryFields(a), NoRows) = HistoryFields(a)
    BY HistoryColumned, MergeNoRows
  <2>2. a \o <<>> = a
    BY ConcatEmptySeq
  <2> QED
    BY <2>1, <2>2, NoneRead
<1>2. ASSUME NEW q \in Seq(RowSet), NEW e \in RowSet, q \in S PROVE Append(q, e) \in S
  <2>1. HistoryFields(Append(q, e)) = WithRow(HistoryFields(q), e) /\ Append(q, e) \in Seq(RowSet)
    BY <1>2, OneMoreRow
  <2>2. a \o Append(q, e) = Append(a \o q, e) /\ a \o q \in Seq(RowSet)
    OBVIOUS
  <2>3. HistoryFields(a \o Append(q, e)) = WithRow(HistoryFields(a \o q), e)
    BY <2>2, OneMoreRow
  <2>4. MergeFields(HistoryFields(a), WithRow(HistoryFields(q), e))
          = WithRow(MergeFields(HistoryFields(a), HistoryFields(q)), e)
    BY HistoryColumned, MergeOneRow
  <2> QED
    BY <1>2, <2>1, <2>3, <2>4
<1> HIDE DEF S
<1>3. Seq(RowSet) \subseteq S
  BY <1>1, <1>2, Extending!SeqSetInduction
<1> QED
  BY <1>3 DEF S

-----------------------------------------------------------------------------
(* What messages say                                                       *)

RecordSet == [security : Securities, error : BOOLEAN, fields : SUBSET Fields, exceptions : Seq(Fields),
              tag : Nat]

NamedErrors == [code : {"security"}, security : Securities]
                 \cup [code : {"field"}, security : Securities, field : Fields]
OtherErrors == [code : {"info"}, field : Fields] \cup [code : {"response", "execution", "timeout"}]
AllErrors == NamedErrors \cup OtherErrors

InfoMaps == UNION {[ff -> {"info", "error"}] : ff \in SUBSET Fields}
HistoryRecords == [security : Securities, error : BOOLEAN, exceptions : {<<>>}]

References == [kind : {"reference"}, records : {q \in Seq(RecordSet) : OneEach(q)}]
Histories == [kind : {"history"}, record : HistoryRecords, rows : Seq(RowSet)]
Series == [kind : {"bars"}, security : Securities, rows : Seq(Nat)]
Infos == [kind : {"info"}, infos : InfoMaps, tag : Nat]
Failures == [kind : {"responseError"}]
AllMessages == References \cup Histories \cup Series \cup Infos \cup Failures

TellingOK(t) ==
  /\ t \in [rows : Seq(RowSet), bars : Seq(Nat), fields : SUBSET Fields, errors : Seq(AllErrors),
            kinds : SUBSET {"history", "bars", "reference"}]
  /\ "history" \notin t.kinds => t.rows = <<>>
  /\ "bars" \notin t.kinds => t.bars = <<>>
  /\ "reference" \notin t.kinds => t.fields = {}
  /\ t.kinds = {} => t.errors = <<>>

LEMMA SilenceIsOK == TellingOK(Silence)
<1>1. <<>> \in Seq(RowSet) /\ <<>> \in Seq(Nat) /\ <<>> \in Seq(AllErrors)
  OBVIOUS
<1> QED
  BY <1>1 DEF TellingOK, Silence

LEMMA AndThenIsOK ==
  ASSUME NEW x, NEW y, TellingOK(x), TellingOK(y)
  PROVE  TellingOK(AndThen(x, y))
<1>1. /\ x.rows \in Seq(RowSet) /\ y.rows \in Seq(RowSet) /\ x.bars \in Seq(Nat) /\ y.bars \in Seq(Nat)
      /\ x.errors \in Seq(AllErrors) /\ y.errors \in Seq(AllErrors)
      /\ x.fields \subseteq Fields /\ y.fields \subseteq Fields
      /\ x.kinds \subseteq {"history", "bars", "reference"} /\ y.kinds \subseteq {"history", "bars", "reference"}
  BY DEF TellingOK
<1>2. /\ x.rows \o y.rows \in Seq(RowSet) /\ x.bars \o y.bars \in Seq(Nat)
      /\ x.errors \o y.errors \in Seq(AllErrors)
  BY <1>1, ConcatProperties
<1>3. <<>> \o <<>> = <<>>
  OBVIOUS
<1>4. /\ AndThen(x, y).rows = x.rows \o y.rows /\ AndThen(x, y).bars = x.bars \o y.bars
      /\ AndThen(x, y).fields = x.fields \cup y.fields /\ AndThen(x, y).errors = x.errors \o y.errors
      /\ AndThen(x, y).kinds = x.kinds \cup y.kinds
  BY DEF AndThen
<1>5. AndThen(x, y) \in [rows : Seq(RowSet), bars : Seq(Nat), fields : SUBSET Fields, errors : Seq(AllErrors),
            kinds : SUBSET {"history", "bars", "reference"}]
  BY <1>1, <1>2 DEF AndThen
<1> QED
  BY <1>3, <1>4, <1>5 DEF TellingOK

LEMMA AndSilence == ASSUME NEW x, TellingOK(x) PROVE AndThen(x, Silence) = x
<1>1. x.rows \o <<>> = x.rows /\ x.bars \o <<>> = x.bars /\ x.errors \o <<>> = x.errors
  BY ConcatEmptySeq DEF TellingOK
<1>2. x = [rows |-> x.rows, bars |-> x.bars, fields |-> x.fields, errors |-> x.errors, kinds |-> x.kinds]
  BY DEF TellingOK
<1> QED
  BY <1>1, <1>2 DEF AndThen, Silence

LEMMA AppendAfter ==
  ASSUME NEW T, NEW e \in T PROVE \A a, b \in Seq(T) : a \o Append(b, e) = Append(a \o b, e)
  OBVIOUS

LEMMA AndThenAssociates ==
  ASSUME NEW x, NEW y, NEW z, TellingOK(x), TellingOK(y), TellingOK(z)
  PROVE  AndThen(AndThen(x, y), z) = AndThen(x, AndThen(y, z))
<1>1. (x.rows \o y.rows) \o z.rows = x.rows \o (y.rows \o z.rows)
  <2>1. x.rows \in Seq(RowSet) /\ y.rows \in Seq(RowSet) /\ z.rows \in Seq(RowSet)
    BY DEF TellingOK
  <2>2. \A a, b, c \in Seq(RowSet) : (a \o b) \o c = a \o (b \o c)
    BY ConcatAssociative
  <2> QED
    BY <2>1, <2>2
<1>2. (x.bars \o y.bars) \o z.bars = x.bars \o (y.bars \o z.bars)
  <2>1. x.bars \in Seq(Nat) /\ y.bars \in Seq(Nat) /\ z.bars \in Seq(Nat)
    BY DEF TellingOK
  <2>2. \A a, b, c \in Seq(Nat) : (a \o b) \o c = a \o (b \o c)
    BY ConcatAssociative
  <2> QED
    BY <2>1, <2>2
<1>3. (x.errors \o y.errors) \o z.errors = x.errors \o (y.errors \o z.errors)
  <2>1. x.errors \in Seq(AllErrors) /\ y.errors \in Seq(AllErrors) /\ z.errors \in Seq(AllErrors)
    BY DEF TellingOK
  <2>2. \A a, b, c \in Seq(AllErrors) : (a \o b) \o c = a \o (b \o c)
    BY ConcatAssociative
  <2> QED
    BY <2>1, <2>2
<1> QED
  BY <1>1, <1>2, <1>3 DEF AndThen

LEMMA RecordErrorsNamed ==
  ASSUME NEW r, r.security \in Securities, r.exceptions \in Seq(Fields)
  PROVE  RecordErrors(r) \in Seq({e \in NamedErrors : e.security = r.security})
<1> DEFINE Named == {e \in NamedErrors : e.security = r.security}
           first == IF r.error THEN <<[code |-> "security", security |-> r.security]>> ELSE <<>>
           rest == [n \in DOMAIN r.exceptions |->
                     [code |-> "field", security |-> r.security, field |-> r.exceptions[n]]]
<1>1. first \in Seq(Named)
  <2> DEFINE e == [code |-> "security", security |-> r.security]
  <2>1. e \in Named
    BY DEF NamedErrors
  <2> HIDE DEF Named, e
  <2>2. <<e>> \in Seq(Named) /\ <<>> \in Seq(Named)
    BY <2>1
  <2>3. first = <<e>> \/ first = <<>>
    BY DEF e
  <2> QED
    BY <2>2, <2>3
<1>2. rest \in Seq(Named)
  <2>1. \A n \in DOMAIN r.exceptions :
          [code |-> "field", security |-> r.security, field |-> r.exceptions[n]] \in Named
    BY DEF NamedErrors
  <2>2. DOMAIN r.exceptions = 1..Len(r.exceptions) /\ Len(r.exceptions) \in Nat
    OBVIOUS
  <2> HIDE DEF Named
  <2> QED
    BY <2>1, <2>2
<1>3. RecordErrors(r) = first \o rest
  BY DEF RecordErrors
<1> HIDE DEF first, rest, Named
<1>4. RecordErrors(r) \in Seq(Named)
  BY <1>1, <1>2, <1>3, ConcatProperties
<1> QED
  BY <1>4 DEF Named

LEMMA RecordErrorsAreErrors ==
  ASSUME NEW r, r.security \in Securities, r.exceptions \in Seq(Fields)
  PROVE  RecordErrors(r) \in Seq(AllErrors)
<1>1. RecordErrors(r) \in Seq({e \in NamedErrors : e.security = r.security})
  BY RecordErrorsNamed
<1>2. {e \in NamedErrors : e.security = r.security} \subseteq AllErrors
  BY DEF AllErrors
<1> QED
  BY <1>1, <1>2

LEMMA HistoryForm ==
  ASSUME NEW m \in Histories
  PROVE  /\ m.kind = "history" /\ m.record.security \in Securities /\ m.record.exceptions \in Seq(Fields)
         /\ m.rows \in Seq(RowSet)
<1>1. m.record \in HistoryRecords /\ m.kind = "history" /\ m.rows \in Seq(RowSet)
  BY DEF Histories
<1>2. m.record.security \in Securities /\ m.record.exceptions = <<>>
  BY <1>1 DEF HistoryRecords
<1> QED
  BY <1>1, <1>2

LEMMA ReferenceForm ==
  ASSUME NEW m \in References
  PROVE  /\ m.kind = "reference" /\ m.records \in Seq(RecordSet) /\ OneEach(m.records)
         /\ \A n \in DOMAIN m.records : /\ m.records[n].security \in Securities
                                         /\ m.records[n].exceptions \in Seq(Fields)
                                         /\ m.records[n].fields \subseteq Fields
<1>1. m.kind = "reference" /\ m.records \in Seq(RecordSet) /\ OneEach(m.records)
  BY DEF References
<1>2. \A n \in DOMAIN m.records : m.records[n] \in RecordSet
  BY <1>1
<1>3. \A r \in RecordSet : r.security \in Securities /\ r.exceptions \in Seq(Fields) /\ r.fields \subseteq Fields
  BY DEF RecordSet
<1> QED
  BY <1>1, <1>2, <1>3

(* What a message says about one security, by the kind of the message.     *)
LEMMA AboutHistory ==
  ASSUME NEW m \in Histories, NEW s
  PROVE  About(m, s) = IF m.record.security = s
                       THEN [Silence EXCEPT !.rows = m.rows, !.errors = RecordErrors(m.record), !.kinds = {"history"}]
                       ELSE Silence
  BY HistoryForm DEF About

LEMMA AboutSeries ==
  ASSUME NEW m \in Series, NEW s
  PROVE  About(m, s) = IF m.security = s THEN [Silence EXCEPT !.bars = m.rows, !.kinds = {"bars"}] ELSE Silence
<1>1. m.kind = "bars"
  BY DEF Series
<1> QED
  BY <1>1 DEF About

LEMMA AboutReference ==
  ASSUME NEW m \in References, NEW s
  PROVE  /\ \A n \in DOMAIN m.records : m.records[n].security = s =>
              About(m, s) = [Silence EXCEPT !.fields = m.records[n].fields,
                                            !.errors = RecordErrors(m.records[n]), !.kinds = {"reference"}]
         /\ (\A n \in DOMAIN m.records : m.records[n].security # s) => About(m, s) = Silence
<1>1. m.kind = "reference" /\ OneEach(m.records)
  BY ReferenceForm
<1>2. ASSUME NEW n \in DOMAIN m.records, m.records[n].security = s
      PROVE  About(m, s) = [Silence EXCEPT !.fields = m.records[n].fields,
                                           !.errors = RecordErrors(m.records[n]), !.kinds = {"reference"}]
  <2>1. Of(m, s) = {n}
    BY <1>1, <1>2 DEF Of, OneEach
  <2>2. (CHOOSE k \in Of(m, s) : TRUE) = n
    BY <2>1
  <2> QED
    BY <1>1, <2>1, <2>2 DEF About
<1>3. ASSUME \A n \in DOMAIN m.records : m.records[n].security # s PROVE About(m, s) = Silence
  <2>1. Of(m, s) = {}
    BY <1>3 DEF Of
  <2> QED
    BY <1>1, <2>1 DEF About
<1> QED
  BY <1>2, <1>3

LEMMA AboutOther ==
  ASSUME NEW m \in Infos \cup Failures, NEW s PROVE About(m, s) = Silence
<1>1. m.kind \in {"info", "responseError"}
  BY DEF Infos, Failures
<1> QED
  BY <1>1 DEF About

LEMMA AboutIsOK ==
  ASSUME NEW m \in AllMessages, NEW s PROVE TellingOK(About(m, s))
<1>1. <<>> \in Seq(RowSet) /\ <<>> \in Seq(Nat) /\ <<>> \in Seq(AllErrors)
  OBVIOUS
<1>2. CASE m \in Histories
  <2>1. m.rows \in Seq(RowSet) /\ RecordErrors(m.record) \in Seq(AllErrors)
    BY <1>2, HistoryForm, RecordErrorsAreErrors
  <2>2. TellingOK([Silence EXCEPT !.rows = m.rows, !.errors = RecordErrors(m.record), !.kinds = {"history"}])
    BY <1>1, <2>1 DEF TellingOK, Silence
  <2> QED
    BY <1>2, <2>2, SilenceIsOK, AboutHistory
<1>3. CASE m \in Series
  <2>1. m.rows \in Seq(Nat)
    BY <1>3 DEF Series
  <2>2. TellingOK([Silence EXCEPT !.bars = m.rows, !.kinds = {"bars"}])
    BY <1>1, <2>1 DEF TellingOK, Silence
  <2> QED
    BY <1>3, <2>2, SilenceIsOK, AboutSeries
<1>4. CASE m \in References
  <2>1. CASE \A n \in DOMAIN m.records : m.records[n].security # s
    BY <1>4, <2>1, SilenceIsOK, AboutReference
  <2>2. CASE ~ \A n \in DOMAIN m.records : m.records[n].security # s
    <3>1. PICK n \in DOMAIN m.records : m.records[n].security = s
      BY <2>2
    <3>2. m.records[n].fields \subseteq Fields /\ RecordErrors(m.records[n]) \in Seq(AllErrors)
      BY <1>4, ReferenceForm, RecordErrorsAreErrors
    <3>3. TellingOK([Silence EXCEPT !.fields = m.records[n].fields,
                                    !.errors = RecordErrors(m.records[n]), !.kinds = {"reference"}])
      BY <1>1, <3>2 DEF TellingOK, Silence
    <3> QED
      BY <1>4, <3>1, <3>3, AboutReference
  <2> QED
    BY <2>1, <2>2
<1>5. CASE m \in Infos \cup Failures
  BY <1>5, SilenceIsOK, AboutOther
<1> QED
  BY <1>2, <1>3, <1>4, <1>5 DEF AllMessages

(* Of any number of messages.                                              *)
AllTold(told) == told = [s \in Securities |-> told[s]] /\ \A s \in Securities : TellingOK(told[s])

LEMMA ToldIsOK == ASSUME NEW q \in Seq(AllMessages) PROVE AllTold(Told(q))
<1> DEFINE S == {r \in Seq(AllMessages) : AllTold(Told(r))}
<1>1. <<>> \in S
  BY NoneRead, SilenceIsOK DEF AllTold
<1>2. ASSUME NEW r \in Seq(AllMessages), NEW m \in AllMessages, r \in S PROVE Append(r, m) \in S
  <2>1. Told(Append(r, m)) = Hear(Told(r), m) /\ Append(r, m) \in Seq(AllMessages)
    BY <1>2, OneMoreTold
  <2>2. \A s \in Securities : TellingOK(AndThen(Told(r)[s], About(m, s)))
    BY <1>2, AboutIsOK, AndThenIsOK DEF AllTold
  <2>3. AllTold(Hear(Told(r), m))
    BY <2>2 DEF AllTold, Hear
  <2> QED
    BY <2>1, <2>3
<1> HIDE DEF S
<1>3. Seq(AllMessages) \subseteq S
  BY <1>1, <1>2, Telling!SeqSetInduction
<1> QED
  BY <1>3 DEF S

LEMMA ToldOfMore ==
  ASSUME NEW a \in Seq(AllMessages), NEW b \in Seq(AllMessages), NEW s \in Securities
  PROVE  Told(a \o b)[s] = AndThen(Told(a)[s], Told(b)[s])
<1> DEFINE S == {r \in Seq(AllMessages) : Told(a \o r)[s] = AndThen(Told(a)[s], Told(r)[s])}
<1>1. <<>> \in S
  <2>1. a \o <<>> = a /\ TellingOK(Told(a)[s]) /\ Told(<<>>)[s] = Silence
    BY ConcatEmptySeq, ToldIsOK, NoneRead DEF AllTold
  <2> QED
    BY <2>1, AndSilence
<1>2. ASSUME NEW r \in Seq(AllMessages), NEW m \in AllMessages, r \in S PROVE Append(r, m) \in S
  <2>1. Told(Append(r, m)) = Hear(Told(r), m) /\ Append(r, m) \in Seq(AllMessages)
    BY <1>2, OneMoreTold
  <2>2. a \o Append(r, m) = Append(a \o r, m) /\ a \o r \in Seq(AllMessages)
    OBVIOUS
  <2>3. Told(a \o Append(r, m)) = Hear(Told(a \o r), m)
    BY <2>2, OneMoreTold
  <2>4. TellingOK(Told(a)[s]) /\ TellingOK(Told(r)[s]) /\ TellingOK(About(m, s))
    BY <1>2, ToldIsOK, AboutIsOK DEF AllTold
  <2>5. AndThen(AndThen(Told(a)[s], Told(r)[s]), About(m, s)) = AndThen(Told(a)[s], AndThen(Told(r)[s], About(m, s)))
    BY <2>4, AndThenAssociates
  <2>6. Told(a \o r)[s] = AndThen(Told(a)[s], Told(r)[s])
    BY <1>2
  <2>7. Told(a \o Append(r, m))[s] = AndThen(Told(a \o r)[s], About(m, s))
        /\ Told(Append(r, m))[s] = AndThen(Told(r)[s], About(m, s))
    BY <2>1, <2>3 DEF Hear
  <2> QED
    BY <2>1, <2>5, <2>6, <2>7
<1> HIDE DEF S
<1>3. Seq(AllMessages) \subseteq S
  BY <1>1, <1>2, Telling!SeqSetInduction
<1> QED
  BY <1>3 DEF S

-----------------------------------------------------------------------------
(* The errors of a security                                                *)

Grouped(by) == by = [s \in Securities |-> by[s]] /\ \A s \in Securities : by[s] \in Seq(AllErrors)

LEMMA ErrorForms ==
  /\ \A e \in NamedErrors : e.code \in {"security", "field"} /\ e.security \in Securities
  /\ \A e \in OtherErrors : e.code \notin {"security", "field"}
<1>1. \A e \in NamedErrors : e.code \in {"security", "field"} /\ e.security \in Securities
  BY DEF NamedErrors
<1>2. \A e \in OtherErrors : e.code \notin {"security", "field"}
  BY DEF OtherErrors
<1> QED
  BY <1>1, <1>2

LEMMA ErrorNamed ==
  ASSUME NEW by, Grouped(by), NEW e \in NamedErrors
  PROVE  WithError(by, e) = [s \in Securities |-> IF s = e.security THEN Append(by[s], e) ELSE by[s]]
<1>1. e.code \in {"security", "field"} /\ e.security \in Securities /\ DOMAIN by = Securities
  BY ErrorForms DEF Grouped
<1>2. PICK more : more = Append(by[e.security], e)
  OBVIOUS
<1>3. WithError(by, e) = [by EXCEPT ![e.security] = more]
  BY <1>1, <1>2 DEF WithError
<1>4. [by EXCEPT ![e.security] = more] = [s \in Securities |-> IF s = e.security THEN more ELSE by[s]]
  BY <1>1
<1> QED
  BY <1>2, <1>3, <1>4

LEMMA ErrorNotNamed ==
  ASSUME NEW by, NEW e \in OtherErrors PROVE WithError(by, e) = by
  BY ErrorForms DEF WithError

LEMMA WithErrorGrouped ==
  ASSUME NEW by, Grouped(by), NEW e \in AllErrors PROVE Grouped(WithError(by, e))
<1>1. CASE e \in NamedErrors
  <2>1. \A s \in Securities : Append(by[s], e) \in Seq(AllErrors) /\ by[s] \in Seq(AllErrors)
    BY AppendProperties DEF Grouped
  <2>2. WithError(by, e) = [s \in Securities |-> IF s = e.security THEN Append(by[s], e) ELSE by[s]]
    BY <1>1, ErrorNamed
  <2> QED
    BY <2>1, <2>2 DEF Grouped
<1>2. CASE e \in OtherErrors
  BY <1>2, ErrorNotNamed
<1> QED
  BY <1>1, <1>2 DEF AllErrors

LEMMA ErrorsGrouped == ASSUME NEW q \in Seq(AllErrors) PROVE Grouped(BySecurity(q))
<1> DEFINE S == {r \in Seq(AllErrors) : Grouped(BySecurity(r))}
<1>1. <<>> \in S
  <2>1. <<>> \in Seq(AllErrors)
    OBVIOUS
  <2> QED
    BY <2>1, NoneRead DEF Grouped
<1>2. ASSUME NEW r \in Seq(AllErrors), NEW e \in AllErrors, r \in S PROVE Append(r, e) \in S
  <2>1. BySecurity(Append(r, e)) = WithError(BySecurity(r), e) /\ Append(r, e) \in Seq(AllErrors)
    BY <1>2, OneMoreError
  <2>2. Grouped(WithError(BySecurity(r), e))
    BY <1>2, WithErrorGrouped
  <2> QED
    BY <2>1, <2>2
<1> HIDE DEF S
<1>3. Seq(AllErrors) \subseteq S
  BY <1>1, <1>2, Grouping!SeqSetInduction
<1> QED
  BY <1>3 DEF S

LEMMA ErrorsOfMore ==
  ASSUME NEW a \in Seq(AllErrors), NEW b \in Seq(AllErrors), NEW s \in Securities
  PROVE  BySecurity(a \o b)[s] = BySecurity(a)[s] \o BySecurity(b)[s]
<1> DEFINE S == {r \in Seq(AllErrors) : BySecurity(a \o r)[s] = BySecurity(a)[s] \o BySecurity(r)[s]}
<1>1. <<>> \in S
  <2>1. a \o <<>> = a /\ BySecurity(a)[s] \in Seq(AllErrors) /\ BySecurity(<<>>)[s] = <<>>
    BY ConcatEmptySeq, ErrorsGrouped, NoneRead DEF Grouped
  <2>2. BySecurity(a)[s] \o <<>> = BySecurity(a)[s]
    BY <2>1, ConcatEmptySeq
  <2>3. <<>> \in Seq(AllErrors)
    OBVIOUS
  <2> QED
    BY <2>1, <2>2, <2>3
<1>2. ASSUME NEW r \in Seq(AllErrors), NEW e \in AllErrors, r \in S PROVE Append(r, e) \in S
  <2>0. BySecurity(a \o r)[s] = BySecurity(a)[s] \o BySecurity(r)[s]
    BY <1>2
  <2> HIDE DEF S
  <2>1. BySecurity(Append(r, e)) = WithError(BySecurity(r), e) /\ Append(r, e) \in Seq(AllErrors)
    BY <1>2, OneMoreError
  <2>2. a \o Append(r, e) = Append(a \o r, e) /\ a \o r \in Seq(AllErrors)
    OBVIOUS
  <2>3. BySecurity(a \o Append(r, e)) = WithError(BySecurity(a \o r), e)
    BY <2>2, OneMoreError
  <2>4. /\ Grouped(BySecurity(a)) /\ Grouped(BySecurity(r)) /\ Grouped(BySecurity(a \o r))
        /\ BySecurity(a \o r)[s] = BySecurity(a)[s] \o BySecurity(r)[s]
    BY <2>0, <2>2, ErrorsGrouped
  <2>5. BySecurity(a)[s] \in Seq(AllErrors) /\ BySecurity(r)[s] \in Seq(AllErrors)
    BY <2>4 DEF Grouped
  <2>6. \A x, y \in Seq(AllErrors) : x \o Append(y, e) = Append(x \o y, e)
    BY AppendAfter
  <2>7. BySecurity(a)[s] \o Append(BySecurity(r)[s], e) = Append(BySecurity(a \o r)[s], e)
    <3>1. BySecurity(a)[s] \o Append(BySecurity(r)[s], e) = Append(BySecurity(a)[s] \o BySecurity(r)[s], e)
      BY <2>5, <2>6
    <3> QED
      BY <2>0, <3>1
  <2>8. BySecurity(a \o Append(r, e))[s] = BySecurity(a)[s] \o BySecurity(Append(r, e))[s]
    <3>1. CASE e \in NamedErrors
      <4>1. WithError(BySecurity(a \o r), e)
              = [t \in Securities |-> IF t = e.security THEN Append(BySecurity(a \o r)[t], e) ELSE BySecurity(a \o r)[t]]
        BY <2>4, <3>1, ErrorNamed
      <4>2. WithError(BySecurity(r), e)
              = [t \in Securities |-> IF t = e.security THEN Append(BySecurity(r)[t], e) ELSE BySecurity(r)[t]]
        BY <2>4, <3>1, ErrorNamed
      <4>3. BySecurity(a \o Append(r, e))[s] = IF s = e.security THEN Append(BySecurity(a \o r)[s], e)
                                               ELSE BySecurity(a \o r)[s]
        BY <2>3, <4>1
      <4>4. BySecurity(Append(r, e))[s] = IF s = e.security THEN Append(BySecurity(r)[s], e) ELSE BySecurity(r)[s]
        BY <2>1, <4>2
      <4> QED
        BY <2>4, <2>7, <4>3, <4>4
    <3>2. CASE e \in OtherErrors
      <4>1. BySecurity(a \o Append(r, e)) = BySecurity(a \o r) /\ BySecurity(Append(r, e)) = BySecurity(r)
        BY <2>1, <2>3, <3>2, ErrorNotNamed
      <4> QED
        BY <2>4, <4>1
    <3> QED
      BY <3>1, <3>2 DEF AllErrors
  <2> QED
    BY <2>1, <2>8 DEF S
<1> HIDE DEF S
<1>3. Seq(AllErrors) \subseteq S
  BY <1>1, <1>2, Grouping!SeqSetInduction
<1> QED
  BY <1>3 DEF S

(* Errors of one security are all in its group, others are in none.        *)
LEMMA ErrorsOfOne ==
  ASSUME NEW s \in Securities, NEW q \in Seq({e \in NamedErrors : e.security = s})
  PROVE  BySecurity(q) = [t \in Securities |-> IF t = s THEN q ELSE <<>>]
<1> DEFINE Own == {e \in NamedErrors : e.security = s}
           S == {r \in Seq(Own) : BySecurity(r) = [t \in Securities |-> IF t = s THEN r ELSE <<>>]}
<1>1. <<>> \in S
  <2>1. [t \in Securities |-> IF t = s THEN <<>> ELSE <<>>] = [t \in Securities |-> <<>>]
    OBVIOUS
  <2>2. <<>> \in Seq(Own)
    OBVIOUS
  <2> QED
    BY <2>1, <2>2, NoneRead
<1>2. ASSUME NEW r \in Seq(Own), NEW e \in Own, r \in S PROVE Append(r, e) \in S
  <2>1. BySecurity(Append(r, e)) = WithError(BySecurity(r), e) /\ Append(r, e) \in Seq(Own)
    <3> HIDE DEF Own
    <3> QED
      BY <1>2, OneMoreError
  <2>2. Own \subseteq AllErrors /\ e \in NamedErrors /\ e.security = s
    BY DEF AllErrors
  <2>3. Grouped(BySecurity(r))
    <3>1. r \in Seq(AllErrors)
      BY <2>2
    <3> QED
      BY <3>1, ErrorsGrouped
  <2>4. WithError(BySecurity(r), e)
          = [t \in Securities |-> IF t = s THEN Append(BySecurity(r)[t], e) ELSE BySecurity(r)[t]]
    BY <2>2, <2>3, ErrorNamed
  <2>5. BySecurity(r) = [t \in Securities |-> IF t = s THEN r ELSE <<>>]
    BY <1>2
  <2> QED
    BY <2>1, <2>4, <2>5
<1> HIDE DEF S
<1>3. Seq(Own) \subseteq S
  <2> HIDE DEF Own
  <2> QED
    BY <1>1, <1>2, Grouping!SeqSetInduction
<1> QED
  BY <1>3 DEF S

LEMMA ErrorsOfNone ==
  ASSUME NEW q \in Seq(OtherErrors) PROVE BySecurity(q) = [s \in Securities |-> <<>>]
<1> DEFINE S == {r \in Seq(OtherErrors) : BySecurity(r) = [s \in Securities |-> <<>>]}
<1>1. <<>> \in S
  BY NoneRead
<1>2. ASSUME NEW r \in Seq(OtherErrors), NEW e \in OtherErrors, r \in S PROVE Append(r, e) \in S
  <2>1. BySecurity(Append(r, e)) = WithError(BySecurity(r), e) /\ Append(r, e) \in Seq(OtherErrors)
    BY <1>2, OneMoreError
  <2> QED
    BY <1>2, <2>1, ErrorNotNamed
<1> HIDE DEF S
<1>3. Seq(OtherErrors) \subseteq S
  BY <1>1, <1>2, Grouping!SeqSetInduction
<1> QED
  BY <1>3 DEF S

LEMMA ErrorsOfRecord ==
  ASSUME NEW r, r.security \in Securities, r.exceptions \in Seq(Fields)
  PROVE  \A s \in Securities :
           BySecurity(RecordErrors(r))[s] = IF s = r.security THEN RecordErrors(r) ELSE <<>>
<1>1. RecordErrors(r) \in Seq({e \in NamedErrors : e.security = r.security})
  BY RecordErrorsNamed
<1>2. BySecurity(RecordErrors(r)) = [t \in Securities |-> IF t = r.security THEN RecordErrors(r) ELSE <<>>]
  BY <1>1, ErrorsOfOne
<1> QED
  BY <1>2

-----------------------------------------------------------------------------
(* The records of a reference message                                      *)

Read(out, q) ==
  /\ out.errors \in Seq(AllErrors)
  /\ DOMAIN out.data = {q[n].security : n \in DOMAIN q}
  /\ \A n \in DOMAIN q : /\ out.data[q[n].security] = Dict(ReferenceFields(q[n]))
                         /\ BySecurity(out.errors)[q[n].security] = RecordErrors(q[n])
  /\ \A s \in Securities : s \notin DOMAIN out.data => BySecurity(out.errors)[s] = <<>>

LEMMA ReadOneMore ==
  ASSUME NEW out, NEW q \in Seq(RecordSet), Read(out, q), NEW r \in RecordSet,
         \A n \in DOMAIN q : q[n].security # r.security
  PROVE  Read(Absorb(out, r), Append(q, r))
<1> DEFINE next == Absorb(out, r)
           longer == Append(q, r)
           k == Len(q) + 1
<1>1. r.security \in Securities /\ r.exceptions \in Seq(Fields)
  BY DEF RecordSet
<1>2. /\ DOMAIN longer = DOMAIN q \cup {k} /\ longer[k] = r
      /\ \A n \in DOMAIN q : longer[n] = q[n]
  OBVIOUS
<1>3. /\ next.errors = out.errors \o RecordErrors(r)
      /\ DOMAIN next.data = DOMAIN out.data \cup {r.security}
      /\ next.data[r.security] = Dict(ReferenceFields(r))
      /\ \A s \in DOMAIN out.data : s # r.security => next.data[s] = out.data[s]
  BY DEF Absorb
<1>4. out.errors \in Seq(AllErrors) /\ RecordErrors(r) \in Seq(AllErrors)
  BY <1>1, RecordErrorsAreErrors DEF Read
<1> HIDE DEF next, longer, k
<1>5. next.errors \in Seq(AllErrors)
  BY <1>3, <1>4, ConcatProperties
<1>6. ASSUME NEW s \in Securities
      PROVE  BySecurity(next.errors)[s] = IF s = r.security THEN BySecurity(out.errors)[s] \o RecordErrors(r)
                                          ELSE BySecurity(out.errors)[s]
  <2>1. BySecurity(next.errors)[s] = BySecurity(out.errors)[s] \o BySecurity(RecordErrors(r))[s]
    BY <1>3, <1>4, ErrorsOfMore
  <2>2. BySecurity(RecordErrors(r))[s] = IF s = r.security THEN RecordErrors(r) ELSE <<>>
    BY <1>1, ErrorsOfRecord
  <2>3. BySecurity(out.errors)[s] \in Seq(AllErrors)
    BY <1>4, ErrorsGrouped DEF Grouped
  <2> QED
    BY <2>1, <2>2, <2>3, ConcatEmptySeq
<1>7. r.security \notin DOMAIN out.data
  BY DEF Read
<1>8. BySecurity(next.errors)[r.security] = RecordErrors(r)
  <2>1. BySecurity(out.errors)[r.security] = <<>>
    BY <1>1, <1>7 DEF Read
  <2> QED
    BY <1>1, <1>4, <1>6, <2>1, ConcatEmptySeq
<1>9. DOMAIN next.data = {longer[n].security : n \in DOMAIN longer}
  <2>1. DOMAIN out.data = {q[n].security : n \in DOMAIN q}
    BY DEF Read
  <2> QED
    BY <1>2, <1>3, <2>1
<1>10. ASSUME NEW n \in DOMAIN longer
       PROVE  /\ next.data[longer[n].security] = Dict(ReferenceFields(longer[n]))
              /\ BySecurity(next.errors)[longer[n].security] = RecordErrors(longer[n])
  <2>1. CASE n = k
    BY <1>2, <1>3, <1>8, <2>1
  <2>2. CASE n # k
    <3>1. n \in DOMAIN q /\ longer[n] = q[n] /\ q[n].security # r.security
      BY <1>2, <1>10, <2>2
    <3>2. q[n].security \in Securities /\ q[n].security \in DOMAIN out.data
      <4>1. q[n] \in RecordSet
        BY <3>1
      <4> QED
        BY <3>1, <4>1 DEF RecordSet, Read
    <3>3. /\ out.data[q[n].security] = Dict(ReferenceFields(q[n]))
          /\ BySecurity(out.errors)[q[n].security] = RecordErrors(q[n])
      BY <3>1 DEF Read
    <3> QED
      BY <1>3, <1>6, <3>1, <3>2, <3>3
  <2> QED
    BY <2>1, <2>2
<1>11. ASSUME NEW s \in Securities, s \notin DOMAIN next.data PROVE BySecurity(next.errors)[s] = <<>>
  <2>1. s \notin DOMAIN out.data /\ s # r.security
    BY <1>3, <1>11
  <2> QED
    BY <1>6, <2>1 DEF Read
<1> QED
  BY <1>5, <1>9, <1>10, <1>11 DEF Read, next, longer

LEMMA RecordsRead ==
  ASSUME NEW q \in Seq(RecordSet), OneEach(q) PROVE Read(ReadRecords(q), q)
<1> DEFINE S == {r \in Seq(RecordSet) : OneEach(r) => Read(ReadRecords(r), r)}
<1>1. <<>> \in S
  <2>1. <<>> \in Seq(AllErrors) /\ DOMAIN <<>> = {}
    OBVIOUS
  <2>2. Nothing.errors = <<>> /\ Nothing.data = <<>>
    BY DEF Nothing
  <2>3. Read(Nothing, <<>>)
    BY <2>1, <2>2, NoneRead DEF Read
  <2> QED
    BY <2>3, NoneRead
<1>2. ASSUME NEW r \in Seq(RecordSet), NEW e \in RecordSet, r \in S PROVE Append(r, e) \in S
  <2>1. ReadRecords(Append(r, e)) = Absorb(ReadRecords(r), e) /\ Append(r, e) \in Seq(RecordSet)
    BY <1>2, OneMoreRecord
  <2> SUFFICES ASSUME OneEach(Append(r, e)) PROVE Read(ReadRecords(Append(r, e)), Append(r, e))
    BY <2>1
  <2>2. /\ DOMAIN Append(r, e) = 1..(Len(r) + 1) /\ Append(r, e)[Len(r) + 1] = e /\ Len(r) \in Nat
        /\ DOMAIN r = 1..Len(r) /\ \A n \in DOMAIN r : Append(r, e)[n] = r[n]
    OBVIOUS
  <2> DEFINE longer == Append(r, e)
  <2>3. OneEach(r) /\ \A n \in DOMAIN r : r[n].security # e.security
    <3>1. \A i, j \in 1..(Len(r) + 1) : longer[i].security = longer[j].security => i = j
      BY <2>2 DEF OneEach
    <3> HIDE DEF longer
    <3>2. \A n \in DOMAIN r : n \in 1..(Len(r) + 1) /\ n # Len(r) + 1
      BY <2>2
    <3>3. Len(r) + 1 \in 1..(Len(r) + 1)
      BY <2>2
    <3>4. longer[Len(r) + 1] = e /\ \A n \in DOMAIN r : longer[n] = r[n]
      BY <2>2 DEF longer
    <3>5. OneEach(r)
      BY <3>1, <3>2, <3>4 DEF OneEach
    <3>6. ASSUME NEW n \in DOMAIN r, r[n].security = e.security PROVE FALSE
      <4>1. longer[n].security = longer[Len(r) + 1].security
        BY <3>4, <3>6
      <4> QED
        BY <3>1, <3>2, <3>3, <3>6, <4>1
    <3> QED
      BY <3>5, <3>6
  <2>4. Read(ReadRecords(r), r)
    BY <1>2, <2>3
  <2>5. Read(Absorb(ReadRecords(r), e), Append(r, e))
    BY <2>3, <2>4, ReadOneMore
  <2> QED
    BY <2>1, <2>5
<1> HIDE DEF S
<1>3. Seq(RecordSet) \subseteq S
  BY <1>1, <1>2, Absorbing!SeqSetInduction
<1> QED
  BY <1>3 DEF S

-----------------------------------------------------------------------------
(* Data is what the messages said                                          *)

(* Of one security, t being what the messages told of it.                  *)
SaysOf(d, s, t) ==
  /\ s \in DOMAIN d <=> t.kinds # {}
  /\ "bars" \in t.kinds => "history" \notin t.kinds /\ t.fields = {} /\ d[s] = List(t.bars)
  /\ t.kinds # {} /\ "bars" \notin t.kinds =>
       /\ d[s].type = "dict" /\ t.fields \subseteq DOMAIN d[s].fields
       /\ "history" \in t.kinds => "dates" \in DOMAIN d[s].fields
  /\ t.kinds = {"history"} => d[s] = Dict(HistoryFields(t.rows))

LEMMA DictFields == \A x : Dict(x).fields = x /\ Dict(x).type = "dict"
  BY DEF Dict

LEMMA MergeFieldsKeeps ==
  ASSUME NEW x, NEW y PROVE DOMAIN MergeFields(x, y) = DOMAIN x \cup DOMAIN y
  BY DEF MergeFields

LEMMA MergeKeeps ==
  ASSUME NEW d, NEW e, NEW s
  PROVE  LET both == MergeData(d, e)
         IN  /\ s \in DOMAIN both <=> s \in DOMAIN d \/ s \in DOMAIN e
             /\ s \in DOMAIN d /\ s \notin DOMAIN e => both[s] = d[s]
             /\ s \notin DOMAIN d /\ s \in DOMAIN e => both[s] = e[s]
             /\ s \in DOMAIN d /\ s \in DOMAIN e =>
                  both[s] = IF e[s].type = "dict" /\ d[s].type = "dict"
                            THEN Dict(MergeFields(d[s].fields, e[s].fields)) ELSE d[s]
  BY DEF MergeData

(* A telling without kinds is silence.                                     *)
LEMMA NoKindsNoNews == ASSUME NEW t, TellingOK(t), t.kinds = {} PROVE t = Silence
<1>1. t.rows = <<>> /\ t.bars = <<>> /\ t.fields = {} /\ t.errors = <<>>
  BY DEF TellingOK
<1>2. t = [rows |-> t.rows, bars |-> t.bars, fields |-> t.fields, errors |-> t.errors, kinds |-> t.kinds]
  BY DEF TellingOK
<1> QED
  BY <1>1, <1>2 DEF Silence

LEMMA SilenceAnd == ASSUME NEW x, TellingOK(x) PROVE AndThen(Silence, x) = x
<1>1. <<>> \o x.rows = x.rows /\ <<>> \o x.bars = x.bars /\ <<>> \o x.errors = x.errors
  BY ConcatEmptySeq DEF TellingOK
<1>2. x = [rows |-> x.rows, bars |-> x.bars, fields |-> x.fields, errors |-> x.errors, kinds |-> x.kinds]
  BY DEF TellingOK
<1> QED
  BY <1>1, <1>2 DEF AndThen, Silence

LEMMA MergeSays ==
  ASSUME NEW d, NEW e, NEW s, NEW x, NEW y, TellingOK(x), TellingOK(y),
         SaysOf(d, s, x), SaysOf(e, s, y), s \notin Clash(d, e)
  PROVE  SaysOf(MergeData(d, e), s, AndThen(x, y))
<1> DEFINE both == MergeData(d, e)
           t == AndThen(x, y)
<1>1. /\ s \in DOMAIN both <=> s \in DOMAIN d \/ s \in DOMAIN e
      /\ s \in DOMAIN d /\ s \notin DOMAIN e => both[s] = d[s]
      /\ s \notin DOMAIN d /\ s \in DOMAIN e => both[s] = e[s]
      /\ s \in DOMAIN d /\ s \in DOMAIN e =>
            both[s] = IF e[s].type = "dict" /\ d[s].type = "dict"
                      THEN Dict(MergeFields(d[s].fields, e[s].fields)) ELSE d[s]
  BY MergeKeeps
<1>2. /\ t.rows = x.rows \o y.rows /\ t.bars = x.bars \o y.bars
      /\ t.fields = x.fields \cup y.fields /\ t.kinds = x.kinds \cup y.kinds
  BY DEF AndThen
<1>3. CASE s \notin DOMAIN e
  <2>1. y = Silence
    BY <1>3, NoKindsNoNews DEF SaysOf
  <2>2. t = x
    BY <2>1, AndSilence
  <2> HIDE DEF both, t
  <2> QED
    BY <1>1, <1>3, <2>2 DEF SaysOf, both, t
<1>4. CASE s \notin DOMAIN d
  <2>1. x = Silence
    BY <1>4, NoKindsNoNews DEF SaysOf
  <2>2. t = y
    BY <2>1, SilenceAnd
  <2> QED
    BY <1>1, <1>4, <2>2 DEF SaysOf
<1>5. CASE s \in DOMAIN d /\ s \in DOMAIN e
  <2> HIDE DEF both, t
  <2>1. e[s].type # "list" /\ ~(d[s].type = "list" /\ DOMAIN e[s].fields # {})
    BY <1>5 DEF Clash
  <2>2. x.kinds # {} /\ y.kinds # {} /\ t.kinds # {} /\ s \in DOMAIN both
    BY <1>1, <1>2, <1>5 DEF SaysOf
  <2>3. "bars" \notin y.kinds /\ e[s].type = "dict"
    <3>1. "bars" \in y.kinds => e[s].type = "list"
      BY ListItems DEF SaysOf
    <3> QED
      BY <2>1, <2>2, <3>1 DEF SaysOf
  <2>4. CASE "bars" \in x.kinds
    <3>1. d[s] = List(x.bars) /\ d[s].type = "list" /\ x.fields = {} /\ "history" \notin x.kinds
      BY <2>4, ListItems DEF SaysOf
    <3>2. both[s] = d[s] /\ DOMAIN e[s].fields = {}
      BY <1>1, <1>5, <2>1, <3>1
    <3>3. y.fields = {} /\ "history" \notin y.kinds
      BY <2>2, <2>3, <3>2 DEF SaysOf
    <3>4. y.bars = <<>> /\ x.bars \in Seq(Nat)
      BY <2>3 DEF TellingOK
    <3>5. t.bars = x.bars
      BY <1>2, <3>4, ConcatEmptySeq
    <3>6. "bars" \in t.kinds /\ "history" \notin t.kinds /\ t.fields = {}
      BY <1>2, <2>4, <3>1, <3>3
    <3>7. SaysOf(both, s, t)
      BY <2>2, <3>1, <3>2, <3>5, <3>6 DEF SaysOf
    <3> QED
      BY <3>7 DEF both, t
  <2>5. CASE "bars" \notin x.kinds
    <3>1. /\ d[s].type = "dict" /\ x.fields \subseteq DOMAIN d[s].fields
          /\ "history" \in x.kinds => "dates" \in DOMAIN d[s].fields
          /\ y.fields \subseteq DOMAIN e[s].fields
          /\ "history" \in y.kinds => "dates" \in DOMAIN e[s].fields
      BY <2>2, <2>3, <2>5 DEF SaysOf
    <3>2. both[s] = Dict(MergeFields(d[s].fields, e[s].fields))
      BY <1>1, <1>5, <2>3, <3>1
    <3>3. both[s].type = "dict" /\ DOMAIN both[s].fields = DOMAIN d[s].fields \cup DOMAIN e[s].fields
      <4> DEFINE fields == MergeFields(d[s].fields, e[s].fields)
      <4>1. DOMAIN fields = DOMAIN d[s].fields \cup DOMAIN e[s].fields
        BY MergeFieldsKeeps
      <4> HIDE DEF fields
      <4>2. both[s].type = "dict" /\ both[s].fields = fields
        BY <3>2, DictFields DEF fields
      <4> QED
        BY <4>1, <4>2
    <3>4. "bars" \notin t.kinds
      BY <1>2, <2>3, <2>5
    <3>5. ASSUME t.kinds = {"history"} PROVE both[s] = Dict(HistoryFields(t.rows))
      <4>1. x.kinds = {"history"} /\ y.kinds = {"history"}
        BY <1>2, <2>2, <3>5
      <4>2. d[s].fields = HistoryFields(x.rows) /\ e[s].fields = HistoryFields(y.rows)
        BY <4>1, DictFields DEF SaysOf
      <4>3. x.rows \in Seq(RowSet) /\ y.rows \in Seq(RowSet)
        BY DEF TellingOK
      <4>4. MergeFields(HistoryFields(x.rows), HistoryFields(y.rows)) = HistoryFields(x.rows \o y.rows)
        BY <4>3, HistoriesMerge
      <4> QED
        BY <1>2, <3>2, <4>2, <4>4
    <3>6. SaysOf(both, s, t)
      BY <1>2, <2>2, <3>1, <3>3, <3>4, <3>5 DEF SaysOf
    <3> QED
      BY <3>6 DEF both, t
  <2> QED
    BY <2>4, <2>5
<1> QED
  BY <1>3, <1>4, <1>5

(* One message: its data and its errors.                                   *)
Rendered(norm, m) ==
  /\ norm.errors \in Seq(AllErrors)
  /\ \A s \in Securities : SaysOf(norm.data, s, About(m, s)) /\ BySecurity(norm.errors)[s] = About(m, s).errors

LEMMA NothingSaid ==
  /\ \A d, s : s \notin DOMAIN d => SaysOf(d, s, Silence)
  /\ Silence.errors = <<>> /\ BySecurity(<<>>) = [s \in Securities |-> <<>>]
  BY NoneRead DEF SaysOf, Silence

LEMMA HistoryRendered == ASSUME NEW m \in Histories, NEW hint PROVE Rendered(Normalize(m, hint), m)
<1> DEFINE norm == Normalize(m, hint)
<1>1. /\ m.kind = "history" /\ m.record.security \in Securities /\ m.record.exceptions \in Seq(Fields)
      /\ m.rows \in Seq(RowSet)
  BY HistoryForm
<1>2. norm = NormalizeHistory(m)
  BY <1>1 DEF Normalize
<1>3. /\ norm.data = [s \in {m.record.security} |-> Dict(HistoryFields(m.rows))]
      /\ norm.errors = RecordErrors(m.record)
  BY <1>2 DEF NormalizeHistory
<1> HIDE DEF norm
<1>4. norm.errors \in Seq(AllErrors)
  BY <1>1, <1>3, RecordErrorsAreErrors
<1>5. ASSUME NEW s \in Securities
      PROVE  SaysOf(norm.data, s, About(m, s)) /\ BySecurity(norm.errors)[s] = About(m, s).errors
  <2>1. BySecurity(norm.errors)[s] = IF s = m.record.security THEN RecordErrors(m.record) ELSE <<>>
    BY <1>1, <1>3, ErrorsOfRecord
  <2>2. CASE s = m.record.security
    <3>1. About(m, s) = [Silence EXCEPT !.rows = m.rows, !.errors = RecordErrors(m.record), !.kinds = {"history"}]
      BY <2>2, AboutHistory
    <3>2. /\ About(m, s).rows = m.rows /\ About(m, s).errors = RecordErrors(m.record)
          /\ About(m, s).kinds = {"history"} /\ About(m, s).fields = {}
      BY <3>1 DEF Silence
    <3>3. norm.data[s] = Dict(HistoryFields(m.rows)) /\ s \in DOMAIN norm.data
      BY <1>3, <2>2
    <3>4. norm.data[s].type = "dict" /\ norm.data[s].fields = HistoryFields(m.rows)
      BY <3>3, DictFields
    <3>5. "dates" \in DOMAIN HistoryFields(m.rows)
      BY <1>1, HistoryColumned DEF Columned
    <3>6. SaysOf(norm.data, s, About(m, s))
      BY <3>2, <3>3, <3>4, <3>5 DEF SaysOf
    <3> QED
      BY <2>1, <2>2, <3>2, <3>6
  <2>3. CASE s # m.record.security
    BY <1>3, <2>1, <2>3, AboutHistory, NothingSaid
  <2> QED
    BY <2>2, <2>3
<1> QED
  BY <1>4, <1>5 DEF Rendered, norm

LEMMA SeriesRendered ==
  ASSUME NEW m \in Series PROVE Rendered(Normalize(m, m.security), m)
<1> DEFINE norm == Normalize(m, m.security)
<1>1. m.kind = "bars"
  BY DEF Series
<1>2. norm = NormalizeRows(m, m.security)
  BY <1>1 DEF Normalize
<1>3. norm.data = [s \in {m.security} |-> List(m.rows)] /\ norm.errors = <<>>
  BY <1>2 DEF NormalizeRows
<1> HIDE DEF norm
<1>4. norm.errors \in Seq(AllErrors)
  BY <1>3
<1>5. ASSUME NEW s \in Securities
      PROVE  SaysOf(norm.data, s, About(m, s)) /\ BySecurity(norm.errors)[s] = About(m, s).errors
  <2>1. BySecurity(norm.errors)[s] = <<>>
    BY <1>3, NoneRead
  <2>2. CASE s = m.security
    <3>1. About(m, s) = [Silence EXCEPT !.bars = m.rows, !.kinds = {"bars"}]
      BY <2>2, AboutSeries
    <3>2. /\ About(m, s).bars = m.rows /\ About(m, s).errors = <<>>
          /\ About(m, s).kinds = {"bars"} /\ About(m, s).fields = {}
      BY <3>1 DEF Silence
    <3>3. norm.data[s] = List(m.rows) /\ s \in DOMAIN norm.data
      BY <1>3, <2>2
    <3>4. SaysOf(norm.data, s, About(m, s))
      BY <3>2, <3>3 DEF SaysOf
    <3> QED
      BY <2>1, <3>2, <3>4
  <2>3. CASE s # m.security
    BY <1>3, <2>1, <2>3, AboutSeries, NothingSaid
  <2> QED
    BY <2>2, <2>3
<1> QED
  BY <1>4, <1>5 DEF Rendered, norm

LEMMA ReferenceRendered == ASSUME NEW m \in References, NEW hint PROVE Rendered(Normalize(m, hint), m)
<1> DEFINE norm == Normalize(m, hint)
<1>1. /\ m.kind = "reference" /\ m.records \in Seq(RecordSet) /\ OneEach(m.records)
      /\ \A n \in DOMAIN m.records : m.records[n].security \in Securities
  BY ReferenceForm
<1>2. norm = ReadRecords(m.records)
  BY <1>1 DEF Normalize, NormalizeReference, ReadRecords
<1>3. Read(norm, m.records)
  BY <1>1, <1>2, RecordsRead
<1> HIDE DEF norm
<1>4. norm.errors \in Seq(AllErrors)
  BY <1>3 DEF Read
<1>5. ASSUME NEW s \in Securities
      PROVE  SaysOf(norm.data, s, About(m, s)) /\ BySecurity(norm.errors)[s] = About(m, s).errors
  <2>1. CASE \A n \in DOMAIN m.records : m.records[n].security # s
    <3>1. s \notin DOMAIN norm.data
      BY <1>3, <2>1 DEF Read
    <3>2. BySecurity(norm.errors)[s] = <<>>
      BY <1>3, <3>1 DEF Read
    <3>3. About(m, s) = Silence
      BY <2>1, AboutReference
    <3> QED
      BY <3>1, <3>2, <3>3, NothingSaid
  <2>2. CASE ~ \A n \in DOMAIN m.records : m.records[n].security # s
    <3>1. PICK n \in DOMAIN m.records : m.records[n].security = s
      BY <2>2
    <3>2. About(m, s) = [Silence EXCEPT !.fields = m.records[n].fields,
                                        !.errors = RecordErrors(m.records[n]), !.kinds = {"reference"}]
      BY <3>1, AboutReference
    <3>3. /\ About(m, s).fields = m.records[n].fields /\ About(m, s).errors = RecordErrors(m.records[n])
          /\ About(m, s).kinds = {"reference"}
      BY <3>2 DEF Silence
    <3>4. /\ s \in DOMAIN norm.data /\ norm.data[s] = Dict(ReferenceFields(m.records[n]))
          /\ BySecurity(norm.errors)[s] = RecordErrors(m.records[n])
      BY <1>3, <3>1 DEF Read
    <3>5. norm.data[s].type = "dict" /\ norm.data[s].fields = ReferenceFields(m.records[n])
      BY <3>4, DictFields
    <3>6. DOMAIN ReferenceFields(m.records[n]) = m.records[n].fields
      BY DEF ReferenceFields
    <3>7. SaysOf(norm.data, s, About(m, s))
      BY <3>3, <3>4, <3>5, <3>6 DEF SaysOf
    <3> QED
      BY <3>3, <3>4, <3>7
  <2> QED
    BY <2>1, <2>2
<1> QED
  BY <1>4, <1>5 DEF Rendered, norm

LEMMA SequenceOfSet == ASSUME NEW S, IsFiniteSet(S) PROVE SetToSeq(S) \in Seq(S)
<1>1. PICK n \in Nat : Cardinality(S) = n /\ ExistsBijection(1..n, S)
  BY FS_CardinalityType
<1>2. PICK f \in [1..n -> S] : IsInjective(f)
  BY <1>1 DEF ExistsBijection, Bijection, Injection, IsInjective
<1>3. SetToSeq(S) \in [1..n -> S]
  BY <1>1, <1>2 DEF SetToSeq
<1> QED
  BY <1>3

LEMMA OtherRendered == ASSUME NEW m \in Infos \cup Failures, NEW hint PROVE Rendered(Normalize(m, hint), m)
<1> DEFINE norm == Normalize(m, hint)
<1>1. norm.errors \in Seq(OtherErrors) /\ \A s \in Securities : s \notin DOMAIN norm.data
  <2>1. CASE m \in Failures
    <3>1. m.kind = "responseError"
      BY <2>1 DEF Failures
    <3>2. norm.errors = <<[code |-> "response"]>> /\ norm.data = <<>>
      BY <3>1 DEF Normalize
    <3> DEFINE e == [code |-> "response"]
    <3>3. e \in OtherErrors
      BY DEF OtherErrors
    <3> HIDE DEF e
    <3>4. <<e>> \in Seq(OtherErrors)
      BY <3>3
    <3> QED
      BY <3>2, <3>4 DEF e
  <2>2. CASE m \in Infos
    <3> DEFINE bad == SetToSeq({i \in DOMAIN m.infos : m.infos[i] = "error"})
    <3>1. m.kind = "info" /\ DOMAIN m.infos \subseteq Fields
      BY <2>2 DEF Infos, InfoMaps
    <3>2. norm.errors = [n \in DOMAIN bad |-> [code |-> "info", field |-> bad[n]]] /\ DOMAIN norm.data = {"_field_info"}
      BY <3>1 DEF Normalize, NormalizeFieldInfo
    <3>3. bad \in Seq({i \in DOMAIN m.infos : m.infos[i] = "error"})
      <4>1. IsFiniteSet({i \in DOMAIN m.infos : m.infos[i] = "error"})
        BY <3>1, ResponsesAssumption, FS_Subset
      <4> QED
        BY <4>1, SequenceOfSet
    <3>4. bad \in Seq(Fields)
      BY <3>1, <3>3
    <3> HIDE DEF bad
    <3>5. \A n \in DOMAIN bad : [code |-> "info", field |-> bad[n]] \in OtherErrors
      BY <3>4 DEF OtherErrors
    <3>6. norm.errors \in Seq(OtherErrors)
      <4>1. DOMAIN bad = 1..Len(bad) /\ Len(bad) \in Nat
        BY <3>4
      <4> QED
        BY <3>2, <3>5, <4>1
    <3> QED
      BY <3>2, <3>6, ResponsesAssumption
  <2> QED
    BY <2>1, <2>2
<1> HIDE DEF norm
<1>2. norm.errors \in Seq(AllErrors)
  BY <1>1 DEF AllErrors
<1>3. \A s \in Securities : BySecurity(norm.errors)[s] = <<>>
  BY <1>1, ErrorsOfNone
<1>4. ASSUME NEW s \in Securities
      PROVE  SaysOf(norm.data, s, About(m, s)) /\ BySecurity(norm.errors)[s] = About(m, s).errors
  BY <1>1, <1>3, AboutOther, NothingSaid
<1> QED
  BY <1>2, <1>4 DEF Rendered, norm

LEMMA MessageRendered ==
  ASSUME NEW m \in AllMessages, NEW hint, m \in Series => m.security = hint
  PROVE  Rendered(Normalize(m, hint), m)
<1>1. CASE m \in References
  BY <1>1, ReferenceRendered
<1>2. CASE m \in Histories
  BY <1>2, HistoryRendered
<1>3. CASE m \in Series
  BY <1>3, SeriesRendered
<1>4. CASE m \in Infos \cup Failures
  BY <1>4, OtherRendered
<1> QED
  BY <1>1, <1>2, <1>3, <1>4 DEF AllMessages

-----------------------------------------------------------------------------
(* What Bloomberg may send is typed                                        *)

LEMMA RowsAreCounted == ASSUME NEW q \in Seq(AllMessages) PROVE CountOf(q) \in Nat
<1> DEFINE S == {r \in Seq(AllMessages) : CountOf(r) \in Nat}
<1>1. <<>> \in S
  BY NoneRead
<1>2. ASSUME NEW r \in Seq(AllMessages), NEW m \in AllMessages, r \in S PROVE Append(r, m) \in S
  <2>1. CountOf(Append(r, m)) = CountRows(CountOf(r), m) /\ Append(r, m) \in Seq(AllMessages)
    BY <1>2, OneMoreCounted
  <2>2. RowsOf(m) \in Nat
    <3>1. CASE m.kind \in {"history", "bars"}
      <4>1. m.rows \in Seq(RowSet) \/ m.rows \in Seq(Nat)
        BY <3>1 DEF AllMessages, References, Histories, Series, Infos, Failures
      <4>2. Len(m.rows) \in Nat
        BY <4>1
      <4> QED
        BY <3>1, <4>2 DEF RowsOf
    <3> QED
      BY <3>1 DEF RowsOf
  <2> QED
    BY <1>2, <2>1, <2>2 DEF CountRows
<1> HIDE DEF S
<1>3. Seq(AllMessages) \subseteq S
  BY <1>1, <1>2, Telling!SeqSetInduction
<1> QED
  BY <1>3 DEF S

Requests == [kind : Kinds, security : Securities]

LEMMA RecordsTyped == ASSUME asked \in Seq(Requests) PROVE Records \subseteq RecordSet
<1>1. Len(asked) \in Nat
  OBVIOUS
<1>2. ASSUME NEW s \in Securities, NEW ff \in SUBSET Fields PROVE RecordWith(s, ff) \in RecordSet
  <2>1. IsFiniteSet(Fields \ ff)
    BY ResponsesAssumption, FS_Subset
  <2>2. SetToSeq(Fields \ ff) \in Seq(Fields \ ff)
    BY <2>1, SequenceOfSet
  <2>3. SetToSeq(Fields \ ff) \in Seq(Fields)
    BY <2>2
  <2> QED
    BY <1>1, <2>3 DEF RecordWith, RecordSet
<1>3. ASSUME NEW s \in Securities PROVE ErrorRecord(s) \in RecordSet
  <2>1. <<>> \in Seq(Fields)
    OBVIOUS
  <2> QED
    BY <1>1, <2>1 DEF ErrorRecord, RecordSet
<1> QED
  BY <1>2, <1>3 DEF Records

LEMMA MessagesTyped ==
  ASSUME asked \in Seq(Requests), asked # <<>>, parts \in Seq(AllMessages),
         NEW kind \in Kinds, NEW m \in Messages(kind)
  PROVE  m \in AllMessages /\ (m \in Series => m.security = Hint)
<1> DEFINE refs == {[kind |-> kind, records |-> r] :
                      r \in {q \in UNION {[1..n -> Records] : n \in 1..MaxRecords} : OneEach(q)}}
           told == {HistoryWith(s, q) :
                      s \in Securities, q \in UNION {[1..n -> SUBSET Fields] : n \in 0..MaxRows - Rows}}
           wrong == {HistoryError(s) : s \in Securities}
           bars == {[kind |-> kind, security |-> Hint, rows |-> [n \in 1..k |-> Rows + n]] :
                      k \in 0..MaxRows - Rows}
           infos == {[kind |-> kind, infos |-> i, tag |-> Len(asked)] : i \in InfoMaps}
<1>1. Rows \in Nat
  BY RowsAreCounted DEF Rows, CountOf
<1>2. Hint \in Securities /\ Len(asked) \in Nat
  <2>1. Len(asked) \in DOMAIN asked /\ Len(asked) \in Nat
    OBVIOUS
  <2>2. asked[Len(asked)] \in Requests
    BY <2>1
  <2> QED
    BY <2>1, <2>2 DEF Hint, Requests
<1>3. \/ m = [kind |-> "responseError"]
      \/ kind = "reference" /\ m \in refs
      \/ kind = "history" /\ m \in told \cup wrong
      \/ kind = "bars" /\ m \in bars
      \/ kind = "info" /\ m \in infos
  <2>1. CASE kind = "reference"
    <3>1. Messages(kind) = {[kind |-> "responseError"]} \cup refs
      BY <2>1 DEF Messages
    <3> QED
      BY <2>1, <3>1
  <2>2. CASE kind = "history"
    <3>1. Messages(kind) = {[kind |-> "responseError"]} \cup (told \cup wrong)
      BY <2>2 DEF Messages
    <3> QED
      BY <2>2, <3>1
  <2>3. CASE kind = "bars"
    <3>1. Messages(kind) = {[kind |-> "responseError"]} \cup bars
      BY <2>3 DEF Messages
    <3> QED
      BY <2>3, <3>1
  <2>4. CASE kind = "info"
    <3>1. Messages(kind) = {[kind |-> "responseError"]} \cup infos
      BY <2>4 DEF Messages, InfoMaps
    <3> QED
      BY <2>4, <3>1
  <2> QED
    BY <2>1, <2>2, <2>3, <2>4 DEF Kinds
<1>4. CASE m = [kind |-> "responseError"]
  BY <1>4 DEF AllMessages, Failures, Series
<1>5. CASE kind = "reference" /\ m \in refs
  <2>1. PICK r \in {q \in UNION {[1..n -> Records] : n \in 1..MaxRecords} : OneEach(q)} :
           m = [kind |-> kind, records |-> r]
    BY <1>5
  <2>2. PICK n \in 1..MaxRecords : r \in [1..n -> Records]
    BY <2>1
  <2>3. r \in Seq(RecordSet)
    BY <2>2, RecordsTyped, ResponsesAssumption
  <2>4. m \in References
    BY <1>5, <2>1, <2>3 DEF References
  <2> QED
    BY <1>5, <2>1, <2>4 DEF AllMessages, Series
<1>6. CASE kind = "history" /\ m \in told \cup wrong
  <2>1. m \in Histories
    <3>1. CASE m \in told
      <4>1. PICK s \in Securities, q \in UNION {[1..n -> SUBSET Fields] : n \in 0..MaxRows - Rows} :
               m = HistoryWith(s, q)
        BY <3>1
      <4>2. PICK k \in 0..MaxRows - Rows : q \in [1..k -> SUBSET Fields]
        BY <4>1
      <4> DEFINE rows == [n \in DOMAIN q |-> [date |-> Rows + n, fields |-> q[n]]]
                 record == HistoryRecord(s, FALSE)
      <4>3. rows \in [1..k -> RowSet]
        BY <1>1, <4>2 DEF RowSet
      <4>4. k \in Nat
        OBVIOUS
      <4>5. record \in HistoryRecords
        BY DEF HistoryRecord, HistoryRecords
      <4>6. m = [kind |-> "history", record |-> record, rows |-> rows]
        BY <4>1 DEF HistoryWith
      <4> HIDE DEF rows, record
      <4>7. rows \in Seq(RowSet)
        BY <4>3, <4>4
      <4> QED
        BY <4>5, <4>6, <4>7 DEF Histories
    <3>2. CASE m \in wrong
      <4>1. PICK s \in Securities : m = HistoryError(s)
        BY <3>2
      <4> DEFINE record == HistoryRecord(s, TRUE)
      <4>2. record \in HistoryRecords /\ <<>> \in Seq(RowSet)
        BY DEF HistoryRecord, HistoryRecords
      <4>3. m = [kind |-> "history", record |-> record, rows |-> <<>>]
        BY <4>1 DEF HistoryError
      <4> HIDE DEF record
      <4> QED
        BY <4>2, <4>3 DEF Histories
    <3> QED
      BY <1>6, <3>1, <3>2
  <2>2. m.kind = "history"
    BY <2>1 DEF Histories
  <2> QED
    BY <2>1, <2>2 DEF AllMessages, Series
<1>7. CASE kind = "bars" /\ m \in bars
  <2>1. PICK k \in 0..MaxRows - Rows :
           m = [kind |-> "bars", security |-> Hint, rows |-> [n \in 1..k |-> Rows + n]]
    BY <1>7
  <2> DEFINE rows == [n \in 1..k |-> Rows + n]
  <2>2. rows \in [1..k -> Nat] /\ k \in Nat
    BY <1>1
  <2>3. m = [kind |-> "bars", security |-> Hint, rows |-> rows]
    BY <2>1
  <2> HIDE DEF rows
  <2>4. rows \in Seq(Nat)
    BY <2>2
  <2>5. m \in Series
    BY <1>2, <2>3, <2>4 DEF Series
  <2> QED
    BY <2>3, <2>5 DEF AllMessages
<1>8. CASE kind = "info" /\ m \in infos
  <2>1. m \in Infos
    BY <1>2, <1>8 DEF Infos
  <2> QED
    BY <1>8, <2>1 DEF AllMessages, Series
<1> QED
  BY <1>3, <1>4, <1>5, <1>6, <1>7, <1>8

-----------------------------------------------------------------------------
(* The data of the plan and of its requests is what was told               *)

(* norm is what the messages said, as if they had been one.                *)
Holds(norm, messages) ==
  /\ norm.errors \in Seq(AllErrors)
  /\ \A s \in Securities : /\ SaysOf(norm.data, s, Told(messages)[s])
                           /\ BySecurity(norm.errors)[s] = Told(messages)[s].errors

(* The inductive invariant: the errors are those of the finished requests; *)
(* the data says what they said, and merged what the parts so far said.    *)
ResponsesTyped ==
  /\ asked \in Seq(Requests) /\ parts \in Seq(AllMessages) /\ answers \in Seq(AllMessages)
  /\ errors \in Seq(AllErrors)
  /\ phase \in {"ready", "collecting", "raised"} /\ (phase = "collecting" => asked # <<>>)

DataSaysAnswers == phase # "raised" => \A s \in Securities : SaysOf(data, s, Told(answers)[s])
MergedHoldsParts == phase = "collecting" => Holds(merged, parts)

ResponsesInv == ResponsesTyped /\ ErrorsAreReported /\ DataSaysAnswers /\ MergedHoldsParts

LEMMA NothingHolds == Holds(Nothing, <<>>)
<1>1. Nothing.errors = <<>> /\ Nothing.data = <<>> /\ <<>> \in Seq(AllErrors)
  BY DEF Nothing
<1>2. \A s \in Securities : Told(<<>>)[s] = Silence /\ BySecurity(<<>>)[s] = <<>>
  BY NoneRead
<1>3. \A s \in Securities : SaysOf(<<>>, s, Silence) /\ Silence.errors = <<>>
  BY NothingSaid
<1> QED
  BY <1>1, <1>2, <1>3 DEF Holds

LEMMA ErrorsOfBoth ==
  ASSUME NEW p \in Seq(AllMessages), NEW q \in Seq(AllMessages),
         NEW a \in Seq(AllErrors), NEW b \in Seq(AllErrors), NEW s \in Securities,
         BySecurity(a)[s] = Told(p)[s].errors, BySecurity(b)[s] = Told(q)[s].errors
  PROVE  BySecurity(a \o b)[s] = Told(p \o q)[s].errors
<1>1. Told(p \o q)[s] = AndThen(Told(p)[s], Told(q)[s])
  BY ToldOfMore
<1>2. \A x, y : AndThen(x, y).errors = x.errors \o y.errors
  BY DEF AndThen
<1>3. Told(p \o q)[s].errors = Told(p)[s].errors \o Told(q)[s].errors
  BY <1>1, <1>2
<1> QED
  BY <1>3, ErrorsOfMore

LEMMA DataOfBoth ==
  ASSUME NEW p \in Seq(AllMessages), NEW q \in Seq(AllMessages), NEW d, NEW e, NEW s \in Securities,
         SaysOf(d, s, Told(p)[s]), SaysOf(e, s, Told(q)[s]), Clash(d, e) = {}
  PROVE  SaysOf(MergeData(d, e), s, Told(p \o q)[s])
<1>1. TellingOK(Told(p)[s]) /\ TellingOK(Told(q)[s])
  BY ToldIsOK DEF AllTold
<1>2. Told(p \o q)[s] = AndThen(Told(p)[s], Told(q)[s])
  BY ToldOfMore
<1>3. s \notin Clash(d, e)
  OBVIOUS
<1>4. SaysOf(MergeData(d, e), s, AndThen(Told(p)[s], Told(q)[s]))
  BY <1>1, <1>3, MergeSays
<1> QED
  BY <1>2, <1>4

LEMMA HoldsOne ==
  ASSUME NEW m \in AllMessages, NEW norm, Rendered(norm, m) PROVE Holds(norm, <<m>>)
<1>1. Told(<<m>>) = Hear(Told(<<>>), m)
  <2>1. <<>> \in Seq(AllMessages) /\ Append(<<>>, m) = <<m>>
    OBVIOUS
  <2>2. Told(Append(<<>>, m)) = Hear(Told(<<>>), m)
    BY <2>1, OneMoreTold
  <2> QED
    BY <2>1, <2>2
<1>2. ASSUME NEW s \in Securities PROVE Told(<<m>>)[s] = About(m, s)
  <2>1. Told(<<m>>)[s] = AndThen(Silence, About(m, s))
    BY <1>1, NoneRead DEF Hear
  <2> QED
    BY <2>1, AboutIsOK, SilenceAnd
<1> QED
  BY <1>2 DEF Rendered, Holds

LEMMA HoldsBoth ==
  ASSUME NEW x, NEW y, NEW p \in Seq(AllMessages), NEW q \in Seq(AllMessages),
         Holds(x, p), Holds(y, q), Clash(x.data, y.data) = {}
  PROVE  Holds([data |-> MergeData(x.data, y.data), errors |-> x.errors \o y.errors], p \o q)
<1> DEFINE d == MergeData(x.data, y.data)  e == x.errors \o y.errors
<1>1. e \in Seq(AllErrors) /\ x.errors \in Seq(AllErrors) /\ y.errors \in Seq(AllErrors)
  BY DEF Holds
<1>2. ASSUME NEW s \in Securities
      PROVE  SaysOf(d, s, Told(p \o q)[s]) /\ BySecurity(e)[s] = Told(p \o q)[s].errors
  <2>1. /\ SaysOf(x.data, s, Told(p)[s]) /\ BySecurity(x.errors)[s] = Told(p)[s].errors
        /\ SaysOf(y.data, s, Told(q)[s]) /\ BySecurity(y.errors)[s] = Told(q)[s].errors
    BY DEF Holds
  <2>2. SaysOf(d, s, Told(p \o q)[s])
    BY <2>1, DataOfBoth
  <2>3. BySecurity(e)[s] = Told(p \o q)[s].errors
    BY <1>1, <2>1, ErrorsOfBoth
  <2> QED
    BY <2>2, <2>3
<1> HIDE DEF d, e
<1>3. Holds([data |-> d, errors |-> e], p \o q)
  BY <1>1, <1>2 DEF Holds
<1> QED
  BY <1>3 DEF d, e

LEMMA ResponsesInitInv == ResponsesInit => ResponsesInv
<1> SUFFICES ASSUME ResponsesInit PROVE ResponsesInv
  OBVIOUS
<1>1. asked = <<>> /\ parts = <<>> /\ answers = <<>> /\ data = <<>> /\ errors = <<>> /\ phase = "ready"
  BY DEF ResponsesInit
<1>2. ResponsesTyped
  BY <1>1 DEF ResponsesTyped
<1>3. ErrorsAreReported /\ DataSaysAnswers
  BY <1>1, NoneRead, NothingSaid DEF ErrorsAreReported, DataSaysAnswers
<1> QED
  BY <1>1, <1>2, <1>3 DEF ResponsesInv, MergedHoldsParts

LEMMA SendKeeps ==
  ASSUME ResponsesInv, NEW kind \in Kinds, NEW s \in Securities, Send(kind, s) PROVE ResponsesInv'
<1>1. /\ asked' = Append(asked, [kind |-> kind, security |-> s]) /\ parts' = <<>> /\ merged' = Nothing
      /\ phase = "ready" /\ phase' = "collecting" /\ data' = data /\ errors' = errors /\ answers' = answers
  BY DEF Send
<1>2. asked' \in Seq(Requests) /\ asked' # <<>>
  <2> DEFINE r == [kind |-> kind, security |-> s]
  <2>1. r \in Requests
    BY DEF Requests
  <2> HIDE DEF r
  <2>2. Append(asked, r) \in Seq(Requests) /\ Append(asked, r) # <<>>
    BY <2>1 DEF ResponsesInv, ResponsesTyped
  <2> QED
    BY <1>1, <2>2 DEF r
<1>3. ResponsesTyped'
  BY <1>1, <1>2 DEF ResponsesInv, ResponsesTyped
<1>4. ErrorsAreReported' /\ DataSaysAnswers'
  BY <1>1 DEF ResponsesInv, ErrorsAreReported, DataSaysAnswers
<1>5. MergedHoldsParts'
  BY <1>1, NothingHolds DEF MergedHoldsParts
<1> QED
  BY <1>3, <1>4, <1>5 DEF ResponsesInv

(* A collect that raises adds an error that names no security.             *)
LEMMA RaiseKeeps ==
  ASSUME ResponsesInv, NEW error \in OtherErrors, Raise(error), parts' \in Seq(AllMessages)
  PROVE  ResponsesInv'
<1>1. phase' = "raised" /\ errors' = Append(errors, error) /\ asked' = asked /\ answers' = answers
  BY DEF Raise
<1>2. errors \in Seq(AllErrors) /\ error \in AllErrors
  BY DEF ResponsesInv, ResponsesTyped, AllErrors
<1>3. ResponsesTyped'
  BY <1>1, <1>2 DEF ResponsesInv, ResponsesTyped
<1>4. BySecurity(errors') = BySecurity(errors)
  <2>1. BySecurity(errors') = WithError(BySecurity(errors), error)
    BY <1>1, <1>2, OneMoreError
  <2> QED
    BY <2>1, ErrorNotNamed
<1>5. ErrorsAreReported'
  BY <1>1, <1>4 DEF ResponsesInv, ErrorsAreReported
<1> QED
  BY <1>1, <1>3, <1>5 DEF ResponsesInv, DataSaysAnswers, MergedHoldsParts

LEMMA RaisedErrors ==
  [code |-> "timeout"] \in OtherErrors /\ [code |-> "execution"] \in OtherErrors
  BY DEF OtherErrors

LEMMA TimesOutKeeps == ASSUME ResponsesInv, TimesOut PROVE ResponsesInv'
<1>1. Raise([code |-> "timeout"]) /\ parts' \in Seq(AllMessages)
  BY DEF TimesOut, ResponsesInv, ResponsesTyped
<1> QED
  BY <1>1, RaisedErrors, RaiseKeeps

(* A part that comes while the request is collected.                       *)
LEMMA PartHolds ==
  ASSUME ResponsesInv, phase = "collecting", NEW m \in Messages(asked[Len(asked)].kind)
  PROVE  /\ m \in AllMessages /\ Append(parts, m) \in Seq(AllMessages)
         /\ parts \o <<m>> = Append(parts, m) /\ <<m>> \in Seq(AllMessages)
         /\ Holds(merged, parts) /\ Holds(Normalize(m, Hint), <<m>>)
<1>1. asked \in Seq(Requests) /\ asked # <<>> /\ parts \in Seq(AllMessages) /\ Holds(merged, parts)
  BY DEF ResponsesInv, ResponsesTyped, MergedHoldsParts
<1>2. asked[Len(asked)].kind \in Kinds
  <2>1. asked[Len(asked)] \in Requests
    BY <1>1
  <2> QED
    BY <2>1 DEF Requests
<1>3. m \in AllMessages /\ (m \in Series => m.security = Hint)
  BY <1>1, <1>2, MessagesTyped
<1>4. Rendered(Normalize(m, Hint), m)
  BY <1>3, MessageRendered
<1>5. Holds(Normalize(m, Hint), <<m>>)
  BY <1>3, <1>4, HoldsOne
<1>6. /\ Append(parts, m) \in Seq(AllMessages) /\ <<m>> \in Seq(AllMessages)
      /\ parts \o <<m>> = Append(parts, m)
  BY <1>1, <1>3
<1> QED
  BY <1>1, <1>3, <1>5, <1>6

LEMMA PartKeeps ==
  ASSUME ResponsesInv, phase = "collecting", NEW m \in Messages(asked[Len(asked)].kind), Part(m)
  PROVE  ResponsesInv'
<1> DEFINE norm == Normalize(m, Hint)
<1>1. /\ Append(parts, m) \in Seq(AllMessages) /\ parts \in Seq(AllMessages)
      /\ parts \o <<m>> = Append(parts, m) /\ <<m>> \in Seq(AllMessages)
      /\ Holds(merged, parts) /\ Holds(norm, <<m>>)
  BY PartHolds DEF ResponsesInv, ResponsesTyped
<1>2. parts' = Append(parts, m) /\ data' = data
  BY DEF Part
<1>3. CASE Clash(merged.data, norm.data) # {}
  <2>1. Raise([code |-> "execution"])
    BY <1>3 DEF Part
  <2> QED
    BY <1>1, <1>2, <2>1, RaisedErrors, RaiseKeeps
<1>4. CASE Clash(merged.data, norm.data) = {}
  <2>1. /\ merged' = [data |-> MergeData(merged.data, norm.data), errors |-> merged.errors \o norm.errors]
        /\ asked' = asked /\ errors' = errors /\ answers' = answers /\ phase' = phase
    BY <1>4 DEF Part
  <2> HIDE DEF norm
  <2>2. Holds(merged', parts')
    BY <1>1, <1>2, <1>4, <2>1, HoldsBoth
  <2>3. ResponsesTyped' /\ MergedHoldsParts'
    BY <1>1, <1>2, <2>1, <2>2 DEF ResponsesInv, ResponsesTyped, MergedHoldsParts
  <2>4. ErrorsAreReported' /\ DataSaysAnswers'
    BY <1>2, <2>1 DEF ResponsesInv, ErrorsAreReported, DataSaysAnswers
  <2> QED
    BY <2>3, <2>4 DEF ResponsesInv
<1> QED
  BY <1>3, <1>4

LEMMA LastPartKeeps ==
  ASSUME ResponsesInv, phase = "collecting", NEW m \in Messages(asked[Len(asked)].kind), LastPart(m)
  PROVE  ResponsesInv'
<1> DEFINE norm == Normalize(m, Hint)
           whole == MergeData(merged.data, norm.data)
<1>1. /\ Append(parts, m) \in Seq(AllMessages) /\ parts \in Seq(AllMessages)
      /\ parts \o <<m>> = Append(parts, m) /\ <<m>> \in Seq(AllMessages)
      /\ Holds(merged, parts) /\ Holds(norm, <<m>>)
  BY PartHolds DEF ResponsesInv, ResponsesTyped
<1>2. parts' = Append(parts, m)
  BY DEF LastPart
<1>3. CASE Clash(merged.data, norm.data) # {} \/ Clash(data, whole) # {}
  <2>1. Raise([code |-> "execution"])
    BY <1>3 DEF LastPart
  <2> QED
    BY <1>1, <1>2, <2>1, RaisedErrors, RaiseKeeps
<1>4. CASE Clash(merged.data, norm.data) = {} /\ Clash(data, whole) = {}
  <2>1. /\ data' = MergeData(data, whole) /\ errors' = errors \o merged.errors \o norm.errors
        /\ answers' = answers \o parts' /\ phase' = "ready" /\ asked' = asked
    BY <1>4 DEF LastPart
  <2> HIDE DEF norm
  <2>2. Holds([data |-> whole, errors |-> merged.errors \o norm.errors], parts')
    BY <1>1, <1>2, <1>4, HoldsBoth
  <2>3. /\ answers \in Seq(AllMessages) /\ errors \in Seq(AllErrors) /\ answers' \in Seq(AllMessages)
        /\ merged.errors \in Seq(AllErrors) /\ norm.errors \in Seq(AllErrors)
    <3>1. merged.errors \in Seq(AllErrors) /\ norm.errors \in Seq(AllErrors)
      BY <1>1 DEF Holds
    <3>2. answers \in Seq(AllMessages) /\ errors \in Seq(AllErrors)
      BY DEF ResponsesInv, ResponsesTyped
    <3>3. answers' \in Seq(AllMessages)
      BY <1>1, <1>2, <2>1, <3>2
    <3> QED
      BY <3>1, <3>2, <3>3
  <2>4. errors' = errors \o (merged.errors \o norm.errors) /\ errors' \in Seq(AllErrors)
    <3>1. \A a, b, c \in Seq(AllErrors) : a \o b \o c = a \o (b \o c) /\ a \o b \o c \in Seq(AllErrors)
      BY ConcatAssociative
    <3> QED
      BY <2>1, <2>3, <3>1
  <2> DEFINE told == merged.errors \o norm.errors
  <2>5. ASSUME NEW s \in Securities
        PROVE  SaysOf(data', s, Told(answers')[s]) /\ BySecurity(errors')[s] = Told(answers')[s].errors
    <3>1. SaysOf(data, s, Told(answers)[s]) /\ BySecurity(errors)[s] = Told(answers)[s].errors
      BY DEF ResponsesInv, DataSaysAnswers, ErrorsAreReported
    <3>2. SaysOf(whole, s, Told(parts')[s]) /\ BySecurity(told)[s] = Told(parts')[s].errors
      BY <2>2 DEF Holds
    <3> HIDE DEF whole, told
    <3>3. SaysOf(MergeData(data, whole), s, Told(answers \o parts')[s])
      BY <1>1, <1>2, <1>4, <2>3, <3>1, <3>2, DataOfBoth
    <3>4. told \in Seq(AllErrors) /\ parts' \in Seq(AllMessages)
      BY <1>1, <1>2, <2>3 DEF told
    <3>5. BySecurity(errors \o told)[s] = Told(answers \o parts')[s].errors
      BY <2>3, <3>1, <3>2, <3>4, ErrorsOfBoth
    <3> QED
      BY <2>1, <2>4, <3>3, <3>5 DEF told
  <2>6. ResponsesTyped'
    BY <1>1, <1>2, <2>1, <2>3, <2>4 DEF ResponsesInv, ResponsesTyped
  <2>7. ErrorsAreReported'
    BY <2>5 DEF ErrorsAreReported
  <2>8. DataSaysAnswers'
    BY <2>5 DEF DataSaysAnswers
  <2> QED
    BY <2>1, <2>6, <2>7, <2>8 DEF ResponsesInv, MergedHoldsParts
<1> QED
  BY <1>3, <1>4

LEMMA ResponsesStep == ResponsesInv /\ [ResponsesNext]_responseVars => ResponsesInv'
<1> SUFFICES ASSUME ResponsesInv, [ResponsesNext]_responseVars PROVE ResponsesInv'
  OBVIOUS
<1>1. ASSUME NEW kind \in Kinds, NEW s \in Securities, Send(kind, s) PROVE ResponsesInv'
  BY <1>1, SendKeeps
<1>2. CASE Receive
  <2>1. PICK m \in Messages(asked[Len(asked)].kind) : Part(m) \/ LastPart(m)
    BY <1>2 DEF Receive
  <2>2. phase = "collecting"
    BY <1>2 DEF Receive, MayReceive
  <2>3. CASE Part(m)
    BY <2>2, <2>3, PartKeeps
  <2>4. CASE LastPart(m)
    BY <2>2, <2>4, LastPartKeeps
  <2> QED
    BY <2>1, <2>3, <2>4
<1>3. CASE TimesOut
  BY <1>3, TimesOutKeeps
<1>4. CASE UNCHANGED responseVars
  BY <1>4 DEF responseVars, ResponsesInv, ResponsesTyped, ErrorsAreReported, DataSaysAnswers,
              MergedHoldsParts, Holds
<1> QED
  BY <1>1, <1>2, <1>3, <1>4 DEF ResponsesNext

(* A history that is all that was told of its security.                    *)
LEMMA HistoryAlone ==
  ASSUME ResponsesInv, phase # "raised", NEW s \in Securities,
         "history" \in Told(answers)[s].kinds, "reference" \notin Told(answers)[s].kinds
  PROVE  /\ s \in DOMAIN data /\ data[s] = Dict(HistoryFields(Told(answers)[s].rows))
         /\ Told(answers)[s].rows \in Seq(RowSet)
<1> DEFINE t == Told(answers)[s]
<1>1. TellingOK(t)
  BY ToldIsOK DEF AllTold, ResponsesInv, ResponsesTyped
<1>2. SaysOf(data, s, t)
  BY DEF ResponsesInv, DataSaysAnswers
<1> HIDE DEF t
<1>3. "bars" \notin t.kinds
  BY <1>2 DEF t, SaysOf
<1>4. t.kinds = {"history"} /\ t.rows \in Seq(RowSet)
  <2>1. t.kinds \subseteq {"history", "bars", "reference"} /\ t.rows \in Seq(RowSet)
    BY <1>1 DEF TellingOK
  <2> QED
    BY <1>3, <2>1 DEF t
<1> QED
  BY <1>2, <1>4 DEF SaysOf, t

LEMMA InvIsWhole == ResponsesInv => DataIsWhole
<1> SUFFICES ASSUME ResponsesInv PROVE DataIsWhole
  OBVIOUS
<1>1. ErrorsAreReported
  BY DEF ResponsesInv
<1>2. NothingIsLost
  <2> SUFFICES ASSUME phase # "raised", NEW s \in Securities
               PROVE  LET told == Told(answers)[s]
                      IN  /\ "history" \in told.kinds /\ "reference" \notin told.kinds =>
                               data[s].type = "dict" /\ IsHistory(data[s].fields, told.rows)
                          /\ "bars" \in told.kinds => data[s] = List(told.bars)
                          /\ told.fields # {} => told.fields \subseteq DOMAIN data[s].fields
    BY DEF NothingIsLost
  <2> DEFINE t == Told(answers)[s]
  <2>1. TellingOK(t)
    BY ToldIsOK DEF AllTold, ResponsesInv, ResponsesTyped
  <2>2. SaysOf(data, s, t)
    BY DEF ResponsesInv, DataSaysAnswers
  <2>3. ASSUME "history" \in t.kinds, "reference" \notin t.kinds
        PROVE  data[s].type = "dict" /\ IsHistory(data[s].fields, t.rows)
    <3>1. data[s] = Dict(HistoryFields(t.rows)) /\ t.rows \in Seq(RowSet)
      BY <2>3, HistoryAlone
    <3> HIDE DEF t
    <3>2. data[s].type = "dict" /\ data[s].fields = HistoryFields(t.rows)
      BY <3>1, DictFields
    <3> QED
      BY <3>1, <3>2, HistoryTold
  <2> HIDE DEF t
  <2>4. "bars" \in t.kinds => data[s] = List(t.bars)
    BY <2>2 DEF SaysOf
  <2>5. t.fields # {} => t.fields \subseteq DOMAIN data[s].fields
    <3>1. t.fields # {} => t.kinds # {} /\ "bars" \notin t.kinds
      BY <2>1, <2>2 DEF SaysOf, TellingOK
    <3> QED
      BY <2>2, <3>1 DEF SaysOf
  <2> QED
    BY <2>3, <2>4, <2>5 DEF t
<1>3. PandasIsAligned
  <2> SUFFICES ASSUME phase # "raised", NEW s \in Securities, NEW f \in Fields,
                      "history" \in Told(answers)[s].kinds, "reference" \notin Told(answers)[s].kinds,
                      ~PdHistoryRaises(s)
               PROVE  Column(s, f) = Column(s, "dates")
    BY DEF PandasIsAligned
  <2> DEFINE columns == HistoryFields(Told(answers)[s].rows)
  <2>1. /\ s \in DOMAIN data /\ data[s] = Dict(columns) /\ Told(answers)[s].rows \in Seq(RowSet)
    BY HistoryAlone
  <2>2. Level(columns)
    BY <2>1, HistoryLevel
  <2> HIDE DEF columns
  <2>3. data[s].fields = columns
    BY <2>1, DictFields
  <2>4. \A g : Column(s, g) = ColumnOf(columns, g)
    BY <2>1, <2>3 DEF Column, ColumnOf
  <2>5. Len(Column(s, f)) = Len(Column(s, "dates"))
    BY DEF PdHistoryRaises
  <2> QED
    BY <2>2, <2>4, <2>5 DEF Level
<1> QED
  BY <1>1, <1>2, <1>3 DEF DataIsWhole

(* In every reachable state of any plan, over any messages in any number    *)
(* and order, what the caller has is what Bloomberg sent: the merges of     *)
(* parts and of requests, and the frames, lose and move no value, no error  *)
(* and no date (blp_exec.py:185-244, normalize.py, dataframes.py:71-113).   *)
THEOREM AnswersAreWhole == ResponsesSpec => []DataIsWhole
<1>1. ResponsesSpec => []ResponsesInv
  BY ResponsesInitInv, ResponsesStep, PTL DEF ResponsesSpec
<1> QED
  BY <1>1, InvIsWhole, PTL
=============================================================================
