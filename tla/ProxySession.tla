---------------------------- MODULE ProxySession ----------------------------
(***************************************************************************)
(* The client's imitation of blpapi (proxy/session.py, service.py,         *)
(* request.py): calls on a session are recorded as operations, and         *)
(* collectResponse sends them all as one plan, which the server validates  *)
(* and runs (PlanExecution).                                               *)
(*                                                                         *)
(* Any order of the calls is allowed.  `documented` remembers whether the  *)
(* user kept to the example of the class: one service, and one request at  *)
(* a time from createRequest to collectResponse.                           *)
(***************************************************************************)
EXTENDS PlanExecution

CONSTANTS Timeout,   \* of a collect, as the user gives it
          MaxRequests, MaxSends, MaxOpens, MaxCollects

ASSUME SessionAssumption == {Timeout, MaxRequests, MaxSends, MaxOpens, MaxCollects} \subseteq Nat

VARIABLES
  started,
  counter,    \* service -> its Service object's _request_counter, or -1: not open
  requests,   \* the Request objects: [service, type, id, paths]
  ops,        \* _ops
  pending,    \* _pending_requests: cid -> index of its request
  cids,       \* _correlation_counter
  queues,     \* server: the cids left registered in the session manager
  last,       \* history: what a collect just came to, <<>> after any other call
  documented, \* history: the calls so far follow the documented example
  cleared,    \* history: how often _ops was emptied
  opens, collects

client == <<started, counter, requests, ops, pending, cids>>
sessionVars == <<client, queues, last, documented, cleared, opens, collects>>

Open == {s \in Services : counter[s] >= 0}

SessionInit ==
  /\ started = FALSE
  /\ counter = [s \in Services |-> -1]
  /\ requests = <<>> /\ ops = <<>> /\ pending = <<>> /\ cids = 0
  /\ queues = {} /\ last = <<>> /\ documented = TRUE /\ cleared = 0
  /\ opens = 0 /\ collects = 0

StartSession ==
  /\ ~started /\ opens < MaxOpens
  /\ started' = TRUE
  /\ ops' = Append(ops, StartOp)
  /\ last' = <<>>
  /\ UNCHANGED <<counter, requests, pending, cids, queues, documented, cleared, opens, collects>>

\* A new Service object, also for a service that is open: its counter starts
\* again.
OpenService(s) ==
  /\ started /\ opens < MaxOpens
  /\ ops' = Append(ops, OpenOp(s))
  /\ counter' = [counter EXCEPT ![s] = 0]
  /\ opens' = opens + 1
  /\ documented' = (documented /\ Open = {})
  /\ last' = <<>>
  /\ UNCHANGED <<started, requests, pending, cids, queues, cleared, collects>>

NeverCounted(s) == 1   \* faulty

\* Request ids are counted per Service object.
NextId(s) == counter[s] + 1

CreateRequestCall(s, t) ==
  LET id == NextId(s)
  IN  /\ counter[s] >= 0 /\ Len(requests) < MaxRequests
      /\ counter' = [counter EXCEPT ![s] = id]
      /\ ops' = Append(ops, CreateOp(s, t, id))
      /\ requests' = Append(requests, [service |-> s, type |-> t, id |-> id, paths |-> <<>>, done |-> FALSE,
                                      epoch |-> cleared])
      /\ documented' = (documented /\ \A n \in DOMAIN requests : requests[n].done)
      /\ last' = <<>>
      /\ UNCHANGED <<started, pending, cids, queues, cleared, opens, collects>>

\* Request.append, Request.set, Element.appendValue: kept with the request.
Put(n, p) ==
  /\ n \in DOMAIN requests
  /\ p \notin ToSet(requests[n].paths)   \* bound: each path once
  /\ requests' = [requests EXCEPT ![n].paths = Append(@, p)]
  /\ documented' = (documented /\ n \notin {pending[c] : c \in DOMAIN pending} /\ ~requests[n].done)
  /\ last' = <<>>
  /\ UNCHANGED <<started, counter, ops, pending, cids, queues, cleared, opens, collects>>

\* sendRequest: the recorded elements and the send go into the plan.
Sent(n, c) ==
  LET r == requests[n]
  IN  [m \in DOMAIN r.paths |-> PutOp(r.id, r.paths[m])] \o <<SendOp(r.id, c)>>

SendRequestCall(n) ==
  /\ n \in DOMAIN requests /\ cids < MaxSends
  /\ cids' = cids + 1
  /\ ops' = ops \o Sent(n, cids')
  /\ pending' = Bind(pending, cids', n)
  /\ documented' = (/\ documented
                    /\ ~requests[n].done /\ n \notin {pending[c] : c \in DOMAIN pending}
                    /\ Required[requests[n].type] \subseteq ToSet(requests[n].paths))
  /\ last' = <<>>
  /\ UNCHANGED <<started, counter, requests, queues, cleared, opens, collects>>

NoLongerPending(c) == [d \in DOMAIN pending \ {c} |-> pending[d]]

KeepsOps == ops   \* faulty

\* The plan of the next request begins with the session and its services.
Reopened == <<StartOp>> \o SetToSeq({OpenOp(s) : s \in Open})

Plan(c) == Append(ops, CollectOp(c, Timeout))

CollectCall(c) ==
  /\ c \in DOMAIN pending /\ collects < MaxCollects
  /\ collects' = collects + 1

\* What the call came to, for the properties.
Outcome(c, status, run) ==
  [cid |-> c, status |-> status, got |-> run.got, error |-> run.error,
   want |-> requests[pending[c]], documented |-> documented,
   cleared |-> cleared, plan |-> Plan(c), opens |-> opens]

\* The plan does not reach the server, its answer does not come back, or the
\* server answers with an error: the call raises, and the operations stay.
CollectRaises(c, status, run) ==
  /\ CollectCall(c)
  /\ ops' = Plan(c)
  /\ documented' = FALSE
  /\ last' = Outcome(c, status, run)
  /\ UNCHANGED <<started, counter, requests, pending, cids, opens, cleared>>

\* The finally clause undoes what the sends registered, and only that.
Served(c, run) ==
  queues' = (queues \cup LeftRegistered(Plan(c), run)) \ run.registered

NotReached(c) == CollectRaises(c, "lost", Fresh) /\ UNCHANGED queues

LostAnswer(c) ==
  /\ c \in DOMAIN pending /\ Valid(Plan(c))
  /\ CollectRaises(c, "lost", Fresh)
  /\ Served(c, Execute(Plan(c)))

Rejected(c) ==
  /\ c \in DOMAIN pending /\ ~Valid(Plan(c))
  /\ CollectRaises(c, "rejected", Fresh) /\ UNCHANGED queues

Answered(c) ==
  /\ c \in DOMAIN pending /\ Valid(Plan(c))
  /\ LET run == Execute(Plan(c))
     IN  /\ Served(c, run)
         /\ \/ Status(run) = "error" /\ CollectRaises(c, "error", run)
            \/ /\ Status(run) # "error"
               /\ CollectCall(c)
               /\ last' = Outcome(c, Status(run), run)
               /\ pending' = NoLongerPending(c)
               /\ requests' = [requests EXCEPT ![pending[c]].done = TRUE]
               /\ ops' = Reopened
               /\ cleared' = cleared + 1
               /\ UNCHANGED <<started, counter, cids, documented, opens>>

StopSession ==
  /\ started /\ cleared < MaxCollects
  /\ started' = FALSE
  /\ counter' = [s \in Services |-> -1]
  /\ ops' = <<>> /\ pending' = <<>>
  /\ documented' = FALSE /\ cleared' = cleared + 1
  /\ last' = <<>>
  /\ UNCHANGED <<requests, cids, queues, opens, collects>>

SessionNext ==
  \/ StartSession \/ StopSession
  \/ \E s \in Services : OpenService(s) \/ \E t \in Types : CreateRequestCall(s, t)
  \/ \E n \in 1..MaxRequests : SendRequestCall(n) \/ \E p \in Paths : Put(n, p)
  \/ \E c \in 1..MaxSends : NotReached(c) \/ LostAnswer(c) \/ Rejected(c) \/ Answered(c)

SessionSpec == SessionInit /\ [][SessionNext]_sessionVars

----------------------------------------------------------------------------
(* Properties.  They are about `last`, what the latest collect came to.    *)

\* A user who keeps to the documented example gets the answer to every
\* request, one answer for each collect, with the elements of that request:
\* nothing of an earlier plan comes back or is asked again.  The server turns
\* such a plan away only for what it does not allow.
DocumentedUseWorks ==
  last # <<>> /\ last.documented =>
    CASE last.status = "rejected" ->
           \/ last.want.service \notin AllowedServices
           \/ last.want.type \notin AllowedTypes
           \/ MaxSecurities = 0 \/ MaxFields = 0
           \/ Timeout > MaxTimeout
      [] last.status = "lost" -> TRUE
      [] OTHER ->
           /\ last.status = "ok"
           /\ OpsOf(last.plan, "send_request") = {SendOp(last.want.id, last.cid)}
           /\ last.got = <<[cid |-> last.cid,
                            request |-> [service |-> last.want.service, type |-> last.want.type,
                                         paths |-> last.want.paths]]>>

\* While one service was opened once, an answer that came without an error
\* ends with the answer to the request that was asked for (with two services,
\* or one opened again, two requests can have the same id and one is sent with
\* the other's elements).
AnswersTheRequest ==
  last # <<>> /\ last.status = "ok" /\ last.opens = 1 =>
    /\ Last(last.got).cid = last.cid
    /\ Last(last.got).request.type = last.want.type
    /\ ToSet(Last(last.got).request.paths) \subseteq ToSet(last.want.paths)

\* A queue that stays registered on the server is one that a plan collected
\* without having sent the request: every queue of a send is gone again.
QueueLeftOnlyByLoneCollect ==
  [][\A c \in queues' \ queues :
       /\ CollectOp(c, Timeout) \in OpsOf(last'.plan, "collect_response")
       /\ c \notin {o.cid : o \in OpsOf(last'.plan, "send_request")}]_sessionVars
============================================================================
