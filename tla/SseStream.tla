----------------------------- MODULE SseStream -----------------------------
(***************************************************************************)
(* Live subscriptions over HTTP: stream_subscription of                    *)
(* blpremote_server/sse.py, one asynchronous generator per open stream.    *)
(*                                                                         *)
(* A generator is left only where it yields to the HTTP layer or waits for *)
(* `asyncio.to_thread(q.get, ...)`; there a disconnect reaches it. The     *)
(* q.get() of a stream is a job of the event loop's thread pool: it waits  *)
(* for a worker, and goes on after the stream that asked for it is gone.   *)
(* Between two steps of a generator the blpapi callback thread and the     *)
(* reconnect threads run.                                                  *)
(*                                                                         *)
(* The correlation id of a stream is fresh (uuid4), so streams stand for   *)
(* their cids and for the queues registered under them.                    *)
(***************************************************************************)
EXTENDS Integers, Sequences, FiniteSets, SequencesExt

CONSTANTS
  Streams,    \* requests to GET /v1/subscribe
  Workers,    \* threads of the event loop's default executor
  MaxEvents,  \* bound: events Bloomberg sends for a subscription
  MaxLosses   \* bound: times the session is lost

ASSUME BoundsAssumption ==
  /\ Workers \in Nat \ {0}
  /\ MaxEvents \in Nat
  /\ MaxLosses \in Nat

VARIABLES
  link,     \* what the manager has: "connected", "broken" (lost, but
            \* _session is still there) or "none"
  losses,
  subs,     \* the streams subscribed on the session in force
  sent,     \* events Bloomberg has sent for a stream: 1, 2, ...
  table,    \* _queues: the streams whose queue is registered
  content,  \* what is in the queue of a stream
  jobs,     \* q.get jobs that wait for a worker
  busy,     \* q.get jobs that have one
  pc,       \* where each generator is
  result,   \* what its last q.get returned: at most one event
  heard     \* the events its client was sent

session == <<link, losses>>
queues  == <<table, content>>
pool    == <<jobs, busy>>
locals  == <<pc, result, heard>>
vars    == <<session, subs, sent, queues, pool, locals>>

-----------------------------------------------------------------------------

Events == 1..MaxEvents

(* "gone" is a generator closed at a yield that no `try` surrounds, "left" *)
(* one that was closed after its unsubscribe had failed.                   *)
PC == {"idle", "opening", "registering", "subscribing", "confirming",
       "waiting", "yielding", "pinging", "closing", "unregistering",
       "leaving", "closed", "left", "gone"}

TypeOK ==
  /\ link \in {"connected", "broken", "none"}
  /\ losses \in 0..MaxLosses
  /\ subs \subseteq Streams
  /\ sent \in [Streams -> 0..MaxEvents]
  /\ table \subseteq Streams
  /\ content \in [Streams -> Seq(Events)]
  /\ jobs \in Seq(Streams)
  /\ busy \subseteq Streams
  /\ Cardinality(busy) <= Workers
  /\ pc \in [Streams -> PC]
  /\ result \in [Streams -> Seq(Events)]
  /\ heard \in [Streams -> Seq(Events)]

Init ==
  /\ link \in {"connected", "none"}
  /\ losses = 0
  /\ subs = {}
  /\ sent = [s \in Streams |-> 0]
  /\ table = {}
  /\ content = [s \in Streams |-> <<>>]
  /\ jobs = <<>>
  /\ busy = {}
  /\ pc = [s \in Streams |-> "idle"]
  /\ result = [s \in Streams |-> <<>>]
  /\ heard = [s \in Streams |-> <<>>]

At(s, label)   == pc[s] = label
Goto(s, label) == pc' = [pc EXCEPT ![s] = label]

-----------------------------------------------------------------------------
(* Up to the "subscribed" frame                                            *)

(* is_connected(): when it is not, the stream ends with an error frame.    *)
Request(s) ==
  /\ At(s, "idle")
  /\ Goto(s, IF link = "connected" THEN "opening" ELSE "closed")
  /\ UNCHANGED <<session, subs, sent, queues, pool, result, heard>>

(* get_service("//blp/mktdata")                                            *)
OpenMktdata(s) ==
  /\ At(s, "opening")
  /\ \/ link # "none" /\ Goto(s, "registering")
     \/ Goto(s, "closed")
  /\ UNCHANGED <<session, subs, sent, queues, pool, result, heard>>

NotListed(s) == table            \* faulty: the queue is not in the table
Listed(s) == table \cup {s}

RegisterQueue(s) ==
  /\ At(s, "registering")
  /\ table' = Listed(s)
  /\ Goto(s, "subscribing")
  /\ UNCHANGED <<session, subs, sent, content, pool, result, heard>>

(* On a broken link blpapi raises or the subscription is lost.             *)
Subscribe(s) ==
  /\ At(s, "subscribing")
  /\ link # "none"
  /\ subs' = IF link = "connected" THEN subs \cup {s} ELSE subs
  /\ Goto(s, "confirming")
  /\ UNCHANGED <<session, sent, queues, pool, result, heard>>

SubscribeRaises(s) ==
  /\ At(s, "subscribing")
  /\ table' = table \ {s}
  /\ Goto(s, "closed")
  /\ UNCHANGED <<session, subs, sent, content, pool, result, heard>>

(* The client disconnects while the "subscribed" frame is sent: the        *)
(* generator is closed at a yield before the try statement.                *)
Abandon(s) ==
  /\ At(s, "confirming")
  /\ Goto(s, "gone")
  /\ UNCHANGED <<session, subs, sent, queues, pool, result, heard>>

-----------------------------------------------------------------------------
(* The loop. A frame is sent, then the next q.get job is submitted.        *)

Confirm(s) ==
  /\ At(s, "confirming")
  /\ jobs' = Append(jobs, s)
  /\ Goto(s, "waiting")
  /\ UNCHANGED <<session, subs, sent, queues, busy, result, heard>>

Yield(s) ==
  /\ At(s, "yielding") \/ At(s, "pinging")
  /\ heard' = [heard EXCEPT ![s] = @ \o result[s]]
  /\ result' = [result EXCEPT ![s] = <<>>]
  /\ jobs' = Append(jobs, s)
  /\ Goto(s, "waiting")
  /\ UNCHANGED <<session, subs, sent, queues, busy>>

(* CancelledError in the wait, GeneratorExit at a yield. The job of the    *)
(* stream, if it still waits for a worker, is cancelled with it.           *)
JobOf(s) == {i \in DOMAIN jobs : jobs[i] = s}
Cancelled(s) ==
  IF JobOf(s) = {} THEN jobs ELSE RemoveAt(jobs, CHOOSE i \in JobOf(s) : TRUE)

Disconnect(s) ==
  /\ pc[s] \in {"waiting", "yielding", "pinging"}
  /\ jobs' = Cancelled(s)
  /\ Goto(s, "closing")
  /\ UNCHANGED <<session, subs, sent, queues, busy, result, heard>>

(* The finally clause: unsubscribe, on whatever session is in force, ...   *)
StillSubscribed(s) == subs       \* faulty: no unsubscribe
Unsubscribed(s) == subs \ {s}

Unsubscribe(s) ==
  /\ At(s, "closing")
  /\ link # "none"
  /\ subs' = Unsubscribed(s)
  /\ Goto(s, "unregistering")
  /\ UNCHANGED <<session, sent, queues, pool, result, heard>>

(* ... whose failure is only logged: the subscription, if the session      *)
(* still has it, stays, ...                                                *)
UnsubscribeRaises(s) ==
  /\ At(s, "closing")
  /\ Goto(s, "leaving")
  /\ UNCHANGED <<session, subs, sent, queues, pool, result, heard>>

(* ... then unregister_queue.                                              *)
UnregisterQueue(s) ==
  /\ \/ At(s, "unregistering") /\ Goto(s, "closed")
     \/ At(s, "leaving") /\ Goto(s, "left")
  /\ table' = table \ {s}
  /\ UNCHANGED <<session, subs, sent, content, pool, result, heard>>

-----------------------------------------------------------------------------
(* The thread pool                                                         *)

WorkerFree == Cardinality(busy) < Workers

StartJob ==
  /\ jobs # <<>>
  /\ WorkerFree
  /\ busy' = busy \cup {Head(jobs)}
  /\ jobs' = Tail(jobs)
  /\ UNCHANGED <<session, subs, sent, queues, locals>>

(* The outcome of a job reaches a generator that still waits for it.       *)
Resume(s, label) == IF At(s, "waiting") THEN Goto(s, label) ELSE UNCHANGED pc

JobGets(s) ==
  /\ s \in busy
  /\ content[s] # <<>>
  /\ content' = [content EXCEPT ![s] = Tail(@)]
  /\ busy' = busy \ {s}
  /\ result' = [result EXCEPT ![s] = <<Head(content[s])>>]
  /\ Resume(s, "yielding")
  /\ UNCHANGED <<session, subs, sent, table, jobs, heard>>

(* HEARTBEAT_INTERVAL_S without an event                                   *)
NeverExpires(s) == FALSE         \* faulty: q.get() without a timeout
Expires(s) == content[s] = <<>>

JobTimesOut(s) ==
  /\ s \in busy
  /\ Expires(s)
  /\ busy' = busy \ {s}
  /\ Resume(s, "pinging")
  /\ UNCHANGED <<session, subs, sent, queues, jobs, result, heard>>

-----------------------------------------------------------------------------
(* Bloomberg sends the next event of a subscription; _on_event puts it into*)
(* the queue registered for its cid, or drops it. No two streams share a   *)
(* queue, so looking it up and putting the event may be one step.          *)
Deliver(s) ==
  /\ s \in subs
  /\ link = "connected"
  /\ sent[s] < MaxEvents
  /\ sent' = [sent EXCEPT ![s] = @ + 1]
  /\ content' = IF s \in table
                  THEN [content EXCEPT ![s] = Append(@, sent[s] + 1)]
                  ELSE content
  /\ UNCHANGED <<session, subs, table, pool, locals>>

(* The session, as SessionManager moves it. The subscriptions of a lost    *)
(* session are gone and nothing subscribes again.                          *)
SessionLost ==
  /\ link = "connected"
  /\ losses < MaxLosses
  /\ losses' = losses + 1
  /\ link' = "broken"
  /\ subs' = {}
  /\ UNCHANGED <<sent, queues, pool, locals>>

SessionReplaced ==
  /\ \/ link = "broken" /\ link' = "none"
     \/ link = "none" /\ link' = "connected"
  /\ UNCHANGED <<losses, subs, sent, queues, pool, locals>>

-----------------------------------------------------------------------------

StreamStep(s) ==
  \/ OpenMktdata(s) \/ RegisterQueue(s) \/ Subscribe(s) \/ SubscribeRaises(s)
  \/ Confirm(s) \/ Yield(s)
  \/ Unsubscribe(s) \/ UnsubscribeRaises(s) \/ UnregisterQueue(s)

JobStep(s) == JobGets(s) \/ JobTimesOut(s)

Next ==
  \/ \E s \in Streams :
       \/ Request(s) \/ StreamStep(s) \/ Abandon(s) \/ Disconnect(s)
       \/ JobStep(s) \/ Deliver(s)
  \/ StartJob
  \/ SessionLost \/ SessionReplaced

Spec == Init /\ [][Next]_vars

(* The event loop runs every generator that can run, the pool serves its   *)
(* jobs in order, and a q.get() returns within the heartbeat interval. No  *)
(* client is obliged to disconnect, no event to come.                      *)
FairSpec ==
  /\ Spec
  /\ WF_vars(StartJob)
  /\ \A s \in Streams : WF_vars(StreamStep(s)) /\ WF_vars(JobStep(s))

-----------------------------------------------------------------------------
(* Properties                                                              *)

(* "Cleans up subscription + queue on any exit": a stream that ran to its  *)
(* end, through an error frame or the finally clause, has no queue in the  *)
(* table and no subscription on the session in force, whatever the session *)
(* did meanwhile. Where unsubscribe itself failed, its queue is gone all   *)
(* the same, and what Bloomberg goes on sending is dropped.                *)
ClosedIsCleanedUp ==
  \A s \in Streams : /\ At(s, "closed") => s \notin table /\ s \notin subs
                     /\ At(s, "left") => s \notin table

(* What an open stream was sent, has in hand and finds in its queue are    *)
(* the events Bloomberg sent for it from the first one on, in order: none  *)
(* is lost between the callback thread, the worker and the generator, none *)
(* comes before the queue is there and none arrives twice.                 *)
Open(s) == pc[s] \in {"confirming", "waiting", "yielding", "pinging"}

NoEventLost ==
  \A s \in Streams : Open(s) =>
    heard[s] \o result[s] \o content[s] = [i \in 1..sent[s] |-> i]

(* The pool runs one q.get per stream at the most, and each generator that *)
(* waits has exactly one, queued or running: a cancelled stream leaves no  *)
(* job in the line, and no second job steals its events.                   *)
OneJobPerWaiter ==
  \A s \in Streams :
    /\ Cardinality(JobOf(s)) <= 1
    /\ At(s, "waiting") <=> (JobOf(s) # {} \/ (s \in busy /\ Open(s)))
    /\ ~ (JobOf(s) # {} /\ s \in busy)

(* An open stream loses no event and keeps one worker at the most          *)
(* (sse.py:159-204).                                                       *)
StreamInv == TypeOK /\ NoEventLost /\ OneJobPerWaiter

(* A stream that waits is sent an event or a ping in the end, with fewer   *)
(* workers than streams too: no stream keeps the worker of another.        *)
WaitersHearSomething ==
  \A s \in Streams : At(s, "waiting") ~> ~ At(s, "waiting")

=============================================================================
