----------------------------- MODULE RateLimit -----------------------------
(***************************************************************************)
(* The token bucket every user of /v1/execute has:                         *)
(* blpremote_server/rate_limit.py, with limiting enabled (both settings    *)
(* positive; TokenBucket refuses anything else) and settings that do not   *)
(* change while the server runs.                                           *)
(*                                                                         *)
(* A token has 60 parts, time goes in seconds, and rate_limit_per_minute   *)
(* is then the number of parts a bucket gains in a second: the fractions   *)
(* of the code without its rounding. acquire() reads the clock before it   *)
(* takes the lock, so a thread can come with a reading older than the last *)
(* refill.                                                                 *)
(***************************************************************************)
EXTENDS Integers, Sequences

CONSTANTS
  Users,
  Threads,    \* threads that call check_rate_limit
  Capacity,   \* rate_limit_burst
  PerMinute,  \* rate_limit_per_minute
  NoUser,     \* the value of user[t] outside a call
  MaxTime     \* bound: seconds

ASSUME SettingsAssumption == Capacity \in Nat \ {0} /\ PerMinute \in Nat \ {0}
ASSUME BoundsAssumption   == MaxTime \in Nat
ASSUME NoUserAssumption   == NoUser \notin Users

VARIABLES
  clock,    \* time.monotonic()
  buckets,  \* the users with a bucket in _buckets
  tokens,   \* _tokens, in parts
  last,     \* _last_refill
  pc,       \* where each thread is
  user,     \* the user it asks for
  now,      \* the clock it has read
  grants    \* for each user, _last_refill at every token taken

bucket == <<buckets, tokens, last>>
call   == <<pc, user, now>>
vars   == <<clock, bucket, call, grants>>

Token == 60
Full  == Capacity * Token

TypeOK ==
  /\ clock \in 0..MaxTime
  /\ buckets \subseteq Users
  /\ tokens \in [Users -> 0..Full]
  /\ last \in [Users -> Nat]
  /\ pc \in [Threads -> {"idle", "found", "timed"}]
  /\ user \in [Threads -> Users \cup {NoUser}]
  /\ now \in [Threads -> Nat]
  /\ grants \in [Users -> Seq(Nat)]

Init ==
  /\ clock = 0
  /\ buckets = {}
  /\ tokens = [u \in Users |-> 0]
  /\ last = [u \in Users |-> 0]
  /\ pc = [t \in Threads |-> "idle"]
  /\ user = [t \in Threads |-> NoUser]
  /\ now = [t \in Threads |-> 0]
  /\ grants = [u \in Users |-> <<>>]

-----------------------------------------------------------------------------

EmptyBucket == 0             \* faulty: a new user has to wait first
InitialTokens == Full

(* _bucket_for, under the limiter's lock: a new bucket is full.            *)
BucketFor(t, u) ==
  /\ pc[t] = "idle"
  /\ pc' = [pc EXCEPT ![t] = "found"]
  /\ user' = [user EXCEPT ![t] = u]
  /\ IF u \in buckets
       THEN UNCHANGED bucket
       ELSE /\ buckets' = buckets \cup {u}
            /\ tokens' = [tokens EXCEPT ![u] = InitialTokens]
            /\ last' = [last EXCEPT ![u] = clock]
  /\ UNCHANGED <<clock, now, grants>>

ReadClock(t) ==
  /\ pc[t] = "found"
  /\ pc' = [pc EXCEPT ![t] = "timed"]
  /\ now' = [now EXCEPT ![t] = clock]
  /\ UNCHANGED <<clock, bucket, user, grants>>

(* What the bucket of u holds at time n, and when it was last refilled     *)
Gained(u, n) == tokens[u] + (n - last[u]) * PerMinute
Uncapped(u, n) == IF n > last[u] THEN Gained(u, n) ELSE tokens[u]
                             \* faulty: min(capacity, ...) is missing
Refilled(u, n) ==
  IF n <= last[u] THEN tokens[u]
  ELSE IF Gained(u, n) <= Full THEN Gained(u, n) ELSE Full

LastReading(u, n) == n       \* faulty: an older reading turns time back
Latest(u, n) == IF n > last[u] THEN n ELSE last[u]

Settle(t) ==
  /\ pc' = [pc EXCEPT ![t] = "idle"]
  /\ user' = [user EXCEPT ![t] = NoUser]
  /\ UNCHANGED <<clock, buckets, now>>

Grant(t) ==
  /\ pc[t] = "timed"
  /\ LET u == user[t] IN
       /\ Refilled(u, now[t]) >= Token
       /\ tokens' = [tokens EXCEPT ![u] = Refilled(u, now[t]) - Token]
       /\ last' = [last EXCEPT ![u] = Latest(u, now[t])]
       /\ grants' = [grants EXCEPT ![u] = Append(@, Latest(u, now[t]))]
  /\ Settle(t)

Throttle(t) ==
  /\ pc[t] = "timed"
  /\ LET u == user[t] IN
       /\ Refilled(u, now[t]) < Token
       /\ tokens' = [tokens EXCEPT ![u] = Refilled(u, now[t])]
       /\ last' = [last EXCEPT ![u] = Latest(u, now[t])]
  /\ UNCHANGED grants
  /\ Settle(t)

Tick ==
  /\ clock < MaxTime
  /\ clock' = clock + 1
  /\ UNCHANGED <<bucket, call, grants>>

Next ==
  \/ \E t \in Threads :
       \/ \E u \in Users : BucketFor(t, u)
       \/ ReadClock(t) \/ Grant(t) \/ Throttle(t)
  \/ Tick

Spec == Init /\ [][Next]_vars

-----------------------------------------------------------------------------
(* Properties                                                              *)

(* The limit holds in every window, not only on average: between any two   *)
(* grants a user was allowed no more than a full bucket and what it gained *)
(* meanwhile. (In the bucket's own time, so that threads with old readings *)
(* of the clock count as well.)                                            *)
WindowBound ==
  \A u \in Users : \A i, j \in DOMAIN grants[u] :
    i <= j => (j - i + 1) * Token <= Full + (grants[u][j] - grants[u][i]) * PerMinute

(* "No false-positive throttles on legitimate parallelism": a call is      *)
(* refused only when one more grant would break the bound of some window   *)
(* that ends now.                                                          *)
OneMoreIsTooMany(u, n) ==
  \E i \in DOMAIN grants[u] :
    (Len(grants[u]) - i + 2) * Token > Full + (n - grants[u][i]) * PerMinute

ThrottledOnlyWhenSpent ==
  [][\A t \in Threads : Throttle(t) => OneMoreIsTooMany(user[t], last'[user[t]])]_vars

=============================================================================
