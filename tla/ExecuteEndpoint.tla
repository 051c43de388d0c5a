-------------------------- MODULE ExecuteEndpoint --------------------------
(***************************************************************************)
(* POST /v1/execute from the request to the response: rate limit,          *)
(* validation, the LRU + TTL request cache, the executor, the audit line   *)
(* (execute of app.py, request_cache.py, audit_execute of audit.py).       *)
(*                                                                         *)
(* execute() is a coroutine that awaits nothing, so the event loop runs    *)
(* one call at a time to its end, and the locks of the cache are never     *)
(* contended. Time passes during a call: execute_plan() blocks in it. How  *)
(* it gets its result is the subject of RequestDispatch, how the limiter   *)
(* decides that of RateLimit; here they answer as they like. A plan stands *)
(* for all plans of the same hash.                                         *)
(***************************************************************************)
EXTENDS Integers, Sequences, FiniteSets, SequencesExt

CONSTANTS
  Plans,       \* hashes of plans
  Invalid,     \* those that validate_plan rejects
  NoPlan,      \* the value of plan between calls
  MaxEntries,  \* request_cache_max_entries
  Ttl,         \* request_cache_ttl_s, the cache being enabled
  MaxClock,    \* bound: seconds
  MaxRequests  \* bound: calls

ASSUME EndpointAssumption ==
  /\ Invalid \subseteq Plans /\ NoPlan \notin Plans
  /\ MaxEntries \in Nat \ {0} /\ Ttl \in Nat \ {0}
  /\ MaxClock \in Nat /\ MaxRequests \in Nat

VARIABLES
  uptime,    \* of the server, in seconds
  lru,       \* the keys of _cache, least recently used first
  entry,     \* the result under each key, and when it expires
  stage, plan,  \* the call in progress
  result,    \* what execute_plan returned
  served,    \* the last response with a result, and when it was made
  received, throttled,  \* calls and 429s so far
  attempts,  \* the lines given to audit_execute, and whether each was written
  use, uses  \* when each key was last put or hit, by number; 0 when the
             \* cache owes it nothing

cache   == <<lru, entry>>
request == <<stage, plan, result>>
counts  == <<received, throttled, attempts>>
history == <<use, uses>>
endpointVars == <<uptime, cache, request, served, counts, history>>

-----------------------------------------------------------------------------

Status == {"ok", "partial", "error"}

Result == [of : Plans \cup {NoPlan}, status : Status, done : Nat]

Line == [of : Plans, status : Status, hit : BOOLEAN, written : BOOLEAN]

NoOutcome == [of |-> NoPlan, status |-> "error", done |-> 0]

EndpointTypeOK ==
  /\ uptime \in 0..MaxClock
  /\ lru \in Seq(Plans) /\ IsInjective(lru) /\ Len(lru) <= MaxEntries
  /\ entry \in [Plans -> [result : Result, expiry : Nat]]
  /\ stage \in {"idle", "arrived", "executing", "executed"}
  /\ plan \in Plans \cup {NoPlan}
  /\ result \in Result
  /\ served \in [result : Result, at : Nat, hit : BOOLEAN]
  /\ received \in 0..MaxRequests
  /\ throttled \in 0..MaxRequests
  /\ attempts \in Seq(Line)
  /\ use \in 0..MaxRequests
  /\ uses \in [Plans -> 0..MaxRequests]

EndpointInit ==
  /\ uptime = 0
  /\ lru = <<>>
  /\ entry = [p \in Plans |-> [result |-> NoOutcome, expiry |-> 0]]
  /\ stage = "idle"
  /\ plan = NoPlan
  /\ result = NoOutcome
  /\ served = [result |-> NoOutcome, at |-> 0, hit |-> FALSE]
  /\ received = 0 /\ throttled = 0
  /\ attempts = <<>>
  /\ use = 0
  /\ uses = [p \in Plans |-> 0]

Cached(p) == p \in Range(lru)

(* What is left of the keys when p is taken out                            *)
Position(p) == CHOOSE i \in DOMAIN lru : lru[i] = p
Without(p)  == IF Cached(p) THEN RemoveAt(lru, Position(p)) ELSE lru

-----------------------------------------------------------------------------

Arrive(p) ==
  /\ stage = "idle"
  /\ received < MaxRequests
  /\ received' = received + 1
  /\ stage' = "arrived"
  /\ plan' = p
  /\ UNCHANGED <<uptime, cache, result, served, throttled, attempts, history>>

Done ==
  /\ stage' = "idle"
  /\ plan' = NoPlan
  /\ result' = NoOutcome

Reply(r, hit) == served' = [result |-> r, at |-> uptime, hit |-> hit]

Failure == [of |-> plan, status |-> "error", done |-> uptime]

(* audit_execute() for the response r, in a try of its own: whatever it    *)
(* raises is logged and the call is answered as if it had not.             *)
Audit(r, hit) ==
  \E written \in BOOLEAN :
    attempts' = Append(attempts, [of |-> plan, status |-> r.status, hit |-> hit,
                                  written |-> written])

(* The exception handlers write an audit line of their own.                *)
Unaudited == UNCHANGED attempts   \* faulty: they do not
AuditFailure == Audit(Failure, FALSE)

(* The limiter refuses: 429, re-raised past the handlers that audit.       *)
Throttled ==
  /\ stage = "arrived"
  /\ throttled' = throttled + 1
  /\ Done
  /\ UNCHANGED <<uptime, cache, served, received, attempts, history>>

(* PlanValidationError                                                     *)
Rejected ==
  /\ stage = "arrived"
  /\ plan \in Invalid
  /\ Reply(Failure, FALSE)
  /\ AuditFailure
  /\ Done
  /\ UNCHANGED <<uptime, cache, received, throttled, history>>

(* The cache's get(): a hit moves the key to the recent end ...            *)
Touch(p) == Append(Without(p), p)
AsIfNew(p) == lru                 \* faulty: first in, first out
Touched(p) == Touch(p)

Expired(p) == uptime > entry[p].expiry

Hit ==
  /\ stage = "arrived"
  /\ plan \notin Invalid
  /\ Cached(plan) /\ ~ Expired(plan)
  /\ lru' = Touched(plan)
  /\ use' = use + 1
  /\ uses' = [uses EXCEPT ![plan] = use + 1]
  /\ Reply(entry[plan].result, TRUE)
  /\ Audit(entry[plan].result, TRUE)
  /\ Done
  /\ UNCHANGED <<uptime, entry, received, throttled>>

(* ... a stale entry is dropped, and the plan executed as without one.     *)
Miss ==
  /\ stage = "arrived"
  /\ plan \notin Invalid
  /\ Cached(plan) => Expired(plan)
  /\ lru' = Without(plan)
  /\ uses' = [uses EXCEPT ![plan] = 0]
  /\ stage' = "executing"
  /\ UNCHANGED <<uptime, entry, plan, result, served, counts, use>>

Executed ==
  /\ stage = "executing"
  /\ \E s \in Status : result' = [of |-> plan, status |-> s, done |-> uptime]
  /\ stage' = "executed"
  /\ UNCHANGED <<uptime, cache, plan, served, counts, history>>

(* The catch-all handler: EXECUTION_FAILED                                 *)
ExecutionRaises ==
  /\ stage = "executing"
  /\ Reply(Failure, FALSE)
  /\ AuditFailure
  /\ Done
  /\ UNCHANGED <<uptime, cache, received, throttled, history>>

(* The cache's put(), then the audit line and the response.                *)
Cacheable(r) == r.status = "ok"

Evict(s) == IF Len(s) > MaxEntries THEN Tail(s) ELSE s

Store ==
  /\ stage = "executed"
  /\ IF Cacheable(result)
       THEN /\ lru' = Evict(Touch(plan))
            /\ entry' = [entry EXCEPT ![plan] =
                           [result |-> result, expiry |-> uptime + Ttl]]
            /\ use' = use + 1
            /\ uses' = [uses EXCEPT ![plan] = use + 1]
       ELSE UNCHANGED <<cache, history>>
  /\ Reply(result, FALSE)
  /\ Audit(result, FALSE)
  /\ Done
  /\ UNCHANGED <<uptime, received, throttled>>

(* Time passes between calls, before the lookup and in execute_plan; the   *)
(* result is stored as soon as it is there.                                *)
TimePasses ==
  /\ stage # "executed"
  /\ uptime < MaxClock
  /\ uptime' = uptime + 1
  /\ UNCHANGED <<cache, request, served, counts, history>>

EndpointNext ==
  \/ \E p \in Plans : Arrive(p)
  \/ Throttled \/ Rejected \/ Hit \/ Miss
  \/ Executed \/ ExecutionRaises \/ Store
  \/ TimePasses

EndpointSpec == EndpointInit /\ [][EndpointNext]_endpointVars

-----------------------------------------------------------------------------
(* Properties                                                              *)

(* A response from the cache is an "ok" result of the same plan that the   *)
(* executor produced at most Ttl seconds ago: an error is never repeated,  *)
(* and however often an entry is hit, its age counts from the execution.   *)
HitIsFresh ==
  served.hit => /\ served.result.status = "ok"
                /\ served.result.of \in Plans \ Invalid
                /\ served.at - served.result.done <= Ttl

(* What leaves the cache for want of room is what was used least recently: *)
(* while a key is there, so is every key put or hit after it.              *)
RecentKeysStay ==
  \A p \in Range(lru), q \in Plans : uses[q] > uses[p] => q \in Range(lru)

(* The cache as a whole (request_cache.py:67-94): of the right type, which *)
(* bounds it, with the right keys in it and the right results given out.   *)
CacheInv == EndpointTypeOK /\ RecentKeysStay /\ HitIsFresh

(* What the audit log is worth (audit.py:3-5, app.py:423-430, 455-498).    *)
(* Each call that was not throttled made one attempt at its line, with the *)
(* status it was answered with; what the log lacks are attempts that       *)
(* failed. And a call answered from the cache comes after one of the same  *)
(* plan that was executed, answered "ok" and given to the log before it.   *)
AuditIsComplete ==
  /\ stage = "idle" =>
       /\ Len(attempts) = received - throttled
       /\ attempts # <<>> => /\ Last(attempts).status = served.result.status
                             /\ Last(attempts).hit = served.hit
  /\ \A i \in DOMAIN attempts : attempts[i].hit =>
       /\ attempts[i].status = "ok"
       /\ \E j \in 1..i - 1 : /\ attempts[j].of = attempts[i].of
                              /\ attempts[j].status = "ok" /\ ~ attempts[j].hit

=============================================================================
