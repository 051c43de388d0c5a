--------------------------- MODULE CoordChannel ----------------------------
(***************************************************************************)
(* The coordination channel: the in-memory inboxes of the server           *)
(* (blpremote_server/coord.py with the two /v1/coord endpoints of app.py)  *)
(* and the readers that poll them (tools/coord.py: watch, inbox and        *)
(* inbox --peek).                                                          *)
(*                                                                         *)
(* drain() runs in a worker thread of the server's pool and may park on    *)
(* the condition `_cond` for a long poll. A worker knows nothing of the    *)
(* connection it works for: when that is lost it goes on. Each critical    *)
(* section of `_cond` is one step; wait() ends one and begins another.     *)
(***************************************************************************)
EXTENDS Integers, Sequences, FiniteSets, SequencesExt

CONSTANTS
  Users,      \* recipients
  Msgs,       \* messages; a message is posted once
  Readers,    \* processes that read an inbox
  UserOf,     \* UserOf[r]: whose inbox reader r reads
  Mode,       \* Mode[r]: "watch" (long polls, again and again), "inbox" or
              \* "peek" (once, without waiting)
  Workers,    \* threads of the server's pool
  NoReader,   \* the value of reader[w] for a worker without a call
  InboxMax,   \* INBOX_MAX
  MaxFaults,  \* bound: requests or connections that fail
  MaxRestarts \* bound: restarts of the server

ASSUME ReadersAssumption ==
  /\ UserOf \in [Readers -> Users]
  /\ Mode \in [Readers -> {"watch", "inbox", "peek"}]
  /\ NoReader \notin Readers

ASSUME BoundsAssumption ==
  /\ InboxMax \in Nat \ {0}
  /\ MaxFaults \in Nat
  /\ MaxRestarts \in Nat

VARIABLES
  inbox,     \* _inboxes
  posts,     \* every message posted to a user, in order
  pc,        \* where each worker is in drain()
  reader,    \* the reader whose call a worker runs
  attached,  \* whether that reader's connection is still there
  expired,   \* whether the deadline of the long poll has passed
  got,       \* msgs of drain()
  at,        \* what each reader does
  printed,   \* the messages a reader has printed
  faults, restarts

server == <<inbox, posts>>
calls  == <<pc, reader, attached, expired, got>>
client == <<at, printed>>
bounds == <<faults, restarts>>
vars   == <<server, calls, client, bounds>>

-----------------------------------------------------------------------------

WorkerPC == {"free", "called", "waiting", "woken", "returning"}

TypeOK ==
  /\ inbox \in [Users -> Seq(Msgs)]
  /\ \A u \in Users : Len(inbox[u]) <= InboxMax
  /\ posts \in [Users -> Seq(Msgs)]
  /\ pc \in [Workers -> WorkerPC]
  /\ reader \in [Workers -> Readers \cup {NoReader}]
  /\ \A w \in Workers : pc[w] # "free" => reader[w] \in Readers
  /\ attached \in [Workers -> BOOLEAN]
  /\ expired \in [Workers -> BOOLEAN]
  /\ got \in [Workers -> Seq(Msgs)]
  /\ at \in [Readers -> {"idle", "polling", "backoff", "done"}]
  /\ printed \in [Readers -> Seq(Msgs)]
  /\ faults \in 0..MaxFaults
  /\ restarts \in 0..MaxRestarts

Init ==
  /\ inbox = [u \in Users |-> <<>>]
  /\ posts = [u \in Users |-> <<>>]
  /\ pc = [w \in Workers |-> "free"]
  /\ reader = [w \in Workers |-> NoReader]
  /\ attached = [w \in Workers |-> FALSE]
  /\ expired = [w \in Workers |-> FALSE]
  /\ got = [w \in Workers |-> <<>>]
  /\ at = [r \in Readers |-> "idle"]
  /\ printed = [r \in Readers |-> <<>>]
  /\ faults = 0
  /\ restarts = 0

Mine(w) == UserOf[reader[w]]

-----------------------------------------------------------------------------
(* post()                                                                  *)

KeepsOldest(s) == IF Len(s) > InboxMax THEN Front(s) ELSE s  \* faulty
Trim(s)        == IF Len(s) > InboxMax THEN Tail(s) ELSE s

(* notify_all: whoever they wait for                                       *)
WakeOne ==  \* faulty: notify()
  LET waiting == {w \in Workers : pc[w] = "waiting"}
      one == CHOOSE w \in waiting : TRUE
  IN  IF waiting = {} THEN pc ELSE [pc EXCEPT ![one] = "woken"]
WakeAll == [w \in Workers |-> IF pc[w] = "waiting" THEN "woken" ELSE pc[w]]

Post(m, u) ==
  /\ \A v \in Users : m \notin Range(posts[v])
  /\ posts' = [posts EXCEPT ![u] = Append(@, m)]
  /\ inbox' = [inbox EXCEPT ![u] = Trim(Append(@, m))]
  /\ pc' = WakeAll
  /\ UNCHANGED <<reader, attached, expired, got, client, bounds>>

-----------------------------------------------------------------------------
(* drain()                                                                 *)

(* The end of drain(): the inbox is copied and, but for a peek, cleared.   *)
Cleared(w) ==
  IF Mode[reader[w]] = "peek" THEN inbox ELSE [inbox EXCEPT ![Mine(w)] = <<>>]

Take(w) ==
  /\ got' = [got EXCEPT ![w] = inbox[Mine(w)]]
  /\ inbox' = Cleared(w)
  /\ pc' = [pc EXCEPT ![w] = "returning"]

Park(w) ==
  /\ pc' = [pc EXCEPT ![w] = "waiting"]
  /\ UNCHANGED <<inbox, got>>

MayPark(w) == inbox[Mine(w)] = <<>> /\ Mode[reader[w]] = "watch"

DrainBegins(w) ==
  /\ pc[w] = "called"
  /\ \/ MayPark(w) /\ Park(w)
     \/ ~ MayPark(w) /\ Take(w)
  /\ UNCHANGED <<posts, reader, attached, expired, client, bounds>>

(* The deadline passes, while the worker is parked or before it has got    *)
(* the lock back.                                                          *)
DeadlinePasses(w) ==
  /\ pc[w] \in {"waiting", "woken"}
  /\ ~ expired[w]
  /\ expired' = [expired EXCEPT ![w] = TRUE]
  /\ pc' = [pc EXCEPT ![w] = "woken"]
  /\ UNCHANGED <<server, reader, attached, got, client, bounds>>

(* The loop's condition, after a wait                                      *)
ParksAgain(w) == inbox[Mine(w)] = <<>> /\ ~ expired[w]

Recheck(w) ==
  /\ pc[w] = "woken"
  /\ \/ ParksAgain(w) /\ Park(w)
     \/ ~ ParksAgain(w) /\ Take(w)
  /\ UNCHANGED <<posts, reader, attached, expired, client, bounds>>

(* The response; nobody is there to read the one of a lost connection.     *)
Return(w) ==
  /\ pc[w] = "returning"
  /\ pc' = [pc EXCEPT ![w] = "free"]
  /\ reader' = [reader EXCEPT ![w] = NoReader]
  /\ attached' = [attached EXCEPT ![w] = FALSE]
  /\ expired' = [expired EXCEPT ![w] = FALSE]
  /\ got' = [got EXCEPT ![w] = <<>>]
  /\ LET r == reader[w] IN
       IF attached[w]
         THEN /\ printed' = [printed EXCEPT ![r] = @ \o got[w]]
              /\ at' = [at EXCEPT ![r] = IF Mode[r] = "watch" THEN "idle" ELSE "done"]
         ELSE UNCHANGED client
  /\ UNCHANGED <<server, bounds>>

-----------------------------------------------------------------------------
(* tools/coord.py                                                          *)

Poll(r) ==
  /\ at[r] = "idle"
  /\ at' = [at EXCEPT ![r] = "polling"]
  /\ \E w \in Workers :
       /\ pc[w] = "free"
       /\ pc' = [pc EXCEPT ![w] = "called"]
       /\ reader' = [reader EXCEPT ![w] = r]
       /\ attached' = [attached EXCEPT ![w] = TRUE]
  /\ UNCHANGED <<server, expired, got, printed, bounds>>

(* A transient error: watch backs off and retries, the others exit.        *)
HangsOn(r) == "polling"  \* faulty: no timeout on the request
AfterError(r) == IF Mode[r] = "watch" THEN "backoff" ELSE "done"

(* The request does not reach the server: no route, 5xx, a refused login.  *)
RequestFails(r) ==
  /\ at[r] = "idle"
  /\ faults < MaxFaults
  /\ faults' = faults + 1
  /\ at' = [at EXCEPT ![r] = AfterError(r)]
  /\ UNCHANGED <<server, calls, printed, restarts>>

(* The connection is lost, or the client's timeout passes, at any time     *)
(* between the request and the response.                                   *)
ConnectionLost(w) ==
  /\ attached[w]
  /\ faults < MaxFaults
  /\ faults' = faults + 1
  /\ attached' = [attached EXCEPT ![w] = FALSE]
  /\ at' = [at EXCEPT ![reader[w]] = AfterError(reader[w])]
  /\ UNCHANGED <<server, pc, reader, expired, got, printed, restarts>>

(* The response breaks off in its body, or a proxy answers with something  *)
(* that is not JSON: IncompleteRead and ValueError are no transient errors *)
(* to _request, and every reader exits, watch included.                    *)
ReplyUnreadable(w) ==
  /\ pc[w] = "returning"
  /\ attached[w]
  /\ faults < MaxFaults
  /\ faults' = faults + 1
  /\ attached' = [attached EXCEPT ![w] = FALSE]
  /\ at' = [at EXCEPT ![reader[w]] = "done"]
  /\ UNCHANGED <<server, pc, reader, expired, got, printed, restarts>>

BackoffElapsed(r) ==
  /\ at[r] = "backoff"
  /\ at' = [at EXCEPT ![r] = "idle"]
  /\ UNCHANGED <<server, calls, printed, bounds>>

(* "State is process-local and lost on server restart."                    *)
Restart ==
  /\ restarts < MaxRestarts
  /\ restarts' = restarts + 1
  /\ inbox' = [u \in Users |-> <<>>]
  /\ pc' = [w \in Workers |-> "free"]
  /\ reader' = [w \in Workers |-> NoReader]
  /\ attached' = [w \in Workers |-> FALSE]
  /\ expired' = [w \in Workers |-> FALSE]
  /\ got' = [w \in Workers |-> <<>>]
  /\ at' = [r \in Readers |-> IF at[r] = "polling" THEN AfterError(r) ELSE at[r]]
  /\ UNCHANGED <<posts, printed, faults>>

-----------------------------------------------------------------------------

Drain(w) == DrainBegins(w) \/ Recheck(w) \/ Return(w)

Next ==
  \/ \E m \in Msgs, u \in Users : Post(m, u)
  \/ \E w \in Workers :
       \/ Drain(w) \/ DeadlinePasses(w)
       \/ ConnectionLost(w) \/ ReplyUnreadable(w)
  \/ \E r \in Readers : Poll(r) \/ RequestFails(r) \/ BackoffElapsed(r)
  \/ Restart

Spec == Init /\ [][Next]_vars

(* Workers run on, deadlines pass and readers keep polling; nobody has to  *)
(* post, and failures are not owed.                                        *)
Fairness ==
  /\ \A w \in Workers : WF_vars(Drain(w)) /\ WF_vars(DeadlinePasses(w))
  /\ \A r \in Readers : SF_vars(Poll(r)) /\ WF_vars(BackoffElapsed(r))

FairSpec == Spec /\ Fairness

-----------------------------------------------------------------------------
(* Properties                                                              *)

(* No wake-up is lost: a worker stays parked only while the inbox it waits *)
(* for is empty, whoever else drained, peeked or was posted to.            *)
NoLostWakeup ==
  \A w \in Workers : pc[w] = "waiting" => inbox[Mine(w)] = <<>>

(* A long poll is answered empty-handed only after its deadline: a post to *)
(* another user, or a concurrent drain that was faster, sends the worker   *)
(* back to wait.                                                           *)
EmptyOnlyAtDeadline ==
  \A w \in Workers :
    pc[w] = "returning" /\ got[w] = <<>> /\ Mode[reader[w]] = "watch" => expired[w]

(* An inbox holds the last messages posted to its user, in order and       *)
(* without a gap: the cap drops the oldest ones, a drain takes all.        *)
InboxIsLatest == \A u \in Users : IsSuffix(inbox[u], posts[u])

(* A message is in one place at the most: in the inbox, in one draining    *)
(* call or printed once. Concurrent drains of one inbox never share it,    *)
(* and a reader that retries is not given it again. (A peek is a copy.)    *)
Takes(w) == pc[w] = "returning" /\ Mode[reader[w]] # "peek"

Holders(m) ==
       {<<u, 1>> : u \in {v \in Users : m \in Range(inbox[v])}}
  \cup {<<w, 1>> : w \in {v \in Workers : Takes(v) /\ m \in Range(got[v])}}
  \cup {p \in Readers \X (1..Cardinality(Msgs)) :
          /\ Mode[p[1]] # "peek"
          /\ p[2] \in DOMAIN printed[p[1]] /\ printed[p[1]][p[2]] = m}

DeliveredOnce == \A m \in Msgs : Cardinality(Holders(m)) <= 1

(* Mail comes in order, once and without a false alarm (coord.py:33-65).   *)
MailInv == TypeOK /\ InboxIsLatest /\ DeliveredOnce /\ EmptyOnlyAtDeadline

(* While somebody watches it, an inbox does not stay full: failed          *)
(* requests, lost connections and restarts only delay the next poll. Only  *)
(* an unreadable reply ends the watch.                                     *)
Watched(u) == \E r \in Readers :
  UserOf[r] = u /\ Mode[r] = "watch" /\ at[r] # "done"

WatchedInboxIsRead ==
  \A u \in Users : inbox[u] # <<>> ~> inbox[u] = <<>> \/ ~ Watched(u)

=============================================================================
