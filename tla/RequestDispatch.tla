-------------------------- MODULE RequestDispatch -------------------------
(***************************************************************************)
(* Requests and responses over the shared session: the executor            *)
(* (executor/blp_exec.py), which runs the ops of a plan one after the      *)
(* other, and the queue table of the manager (session_manager.py), into    *)
(* which the blpapi callback thread dispatches every answer by its         *)
(* correlation id.                                                         *)
(*                                                                         *)
(* Of the session only what execute() can see of it is kept: `link`. How   *)
(* it changes is the subject of SessionManager.                            *)
(***************************************************************************)
EXTENDS Integers, Sequences, FiniteSets

CONSTANTS
  Calls,     \* calls of execute()
  Cids,      \* correlation ids
  Ids,       \* request ids
  Plan,      \* Plan[c]: the ops of call c
  Serial,    \* TRUE: the calls come one at a time, as from /v1/execute
  NoQueue,   \* the value of table[cid] for a cid that is not registered
  Bodies,    \* what the normaliser can make of a message: of "data" and
             \* "error", the parts that come out non-empty
  MaxParts,  \* bound: PARTIAL_RESPONSE events before the RESPONSE
  MaxLosses  \* bound: times the session is lost

Ops == [op : {"start_session", "open_service"}]
       \cup [op : {"create_request", "append"}, id : Ids]
       \cup [op : {"send_request"}, id : Ids, cid : Cids]
       \cup [op : {"collect_response"}, cid : Cids]

ASSUME PlanAssumption ==
  /\ Plan \in [Calls -> Seq(Ops)]
  /\ \A c \in Calls : Plan[c] # <<>>

ASSUME BoundsAssumption ==
  /\ Serial \in BOOLEAN
  /\ MaxParts \in Nat
  /\ MaxLosses \in Nat

ASSUME BodiesAssumption == Bodies \subseteq SUBSET {"data", "error"}

ASSUME NoQueueAssumption == NoQueue \notin Nat

VARIABLES
  link,         \* what the manager has: "connected", "broken" (lost, but
                \* _session is still there), "none" or, for good, "stopped"
  losses,
  table,        \* _queues: the number of the queue registered for a cid
  content,      \* the messages in every queue ever created
  outstanding,  \* requests Bloomberg has still to answer
  parts,        \* partial responses a request has had
  dispatching,  \* what the callback thread has looked up and not yet put
  pc,           \* where each call is
  op,           \* the index of its current op
  built,        \* requests: the ids of the requests it has created
  registered,   \* registered_cids
  queue,        \* q of _collect_response
  merged,       \* merged: what the current collect has received
  data,         \* what the finished collects have received and merged
  failed        \* whether errors is non-empty

session  == <<link, losses>>
dispatch == <<outstanding, parts, dispatching>>
locals   == <<built, registered, queue, merged, data, failed>>
vars     == <<session, table, content, dispatch, pc, op, locals>>

-----------------------------------------------------------------------------

(* A request is named by the call and the index of its send op.            *)
SendOps(c) == {i \in DOMAIN Plan[c] : Plan[c][i].op = "send_request"}

Requests == UNION {{c} \X SendOps(c) : c \in Calls}

CidOf(r) == Plan[r[1]][r[2]].cid

Message == [req : Requests, n : 1..MaxParts + 1, final : BOOLEAN]

Normalized == [req : Requests, n : 1..MaxParts + 1, final : BOOLEAN, body : Bodies]

Idle == [msg |-> <<>>, q |-> NoQueue]

TypeOK ==
  /\ link \in {"connected", "broken", "none", "stopped"}
  /\ losses \in 0..MaxLosses
  /\ content \in Seq(Seq(Message))
  /\ table \in [Cids -> DOMAIN content \cup {NoQueue}]
  /\ outstanding \in SUBSET Requests
  /\ parts \in [Requests -> 0..MaxParts]
  /\ dispatching = Idle \/ dispatching \in [msg : Message, q : DOMAIN content]
  /\ pc \in [Calls -> {"idle", "running", "sending", "collecting", "closing", "done"}]
  /\ op \in [Calls -> Nat]
  /\ built \in [Calls -> SUBSET Ids]
  /\ registered \in [Calls -> SUBSET Cids]
  /\ queue \in [Calls -> DOMAIN content \cup {NoQueue}]
  /\ merged \in [Calls -> Seq(Normalized)]
  /\ data \in [Calls -> Seq(Normalized)]
  /\ failed \in [Calls -> BOOLEAN]

Init ==
  /\ link = "connected"
  /\ losses = 0
  /\ table = [i \in Cids |-> NoQueue]
  /\ content = <<>>
  /\ outstanding = {}
  /\ parts = [r \in Requests |-> 0]
  /\ dispatching = Idle
  /\ pc = [c \in Calls |-> "idle"]
  /\ op = [c \in Calls |-> 1]
  /\ built = [c \in Calls |-> {}]
  /\ registered = [c \in Calls |-> {}]
  /\ queue = [c \in Calls |-> NoQueue]
  /\ merged = [c \in Calls |-> <<>>]
  /\ data = [c \in Calls |-> <<>>]
  /\ failed = [c \in Calls |-> FALSE]

-----------------------------------------------------------------------------
(* The manager's queue table                                               *)

RegisterForAll(cid) ==  \* faulty: one queue, whatever the cid
  /\ content' = Append(content, <<>>)
  /\ table' = [i \in Cids |-> Len(content) + 1]

(* register_queue: a fresh queue, replacing the one registered for the cid *)
RegisterQueue(cid) ==
  /\ content' = Append(content, <<>>)
  /\ table' = [table EXCEPT ![cid] = Len(content) + 1]

UnregisterQueue(cid) == table' = [table EXCEPT ![cid] = NoQueue]

-----------------------------------------------------------------------------
(* execute()                                                               *)

Running(c, kind) == pc[c] = "running" /\ Plan[c][op[c]].op = kind

Current(c) == Plan[c][op[c]]

(* The next op, or the end of the plan.                                    *)
Advance(c) ==
  IF op[c] < Len(Plan[c])
    THEN /\ op' = [op EXCEPT ![c] = @ + 1]
         /\ pc' = [pc EXCEPT ![c] = "running"]
    ELSE /\ pc' = [pc EXCEPT ![c] = "closing"]
         /\ UNCHANGED op

(* An exception leaves the loop over the ops and is recorded as an error.  *)
Raise(c) ==
  /\ failed' = [failed EXCEPT ![c] = TRUE]
  /\ pc' = [pc EXCEPT ![c] = "closing"]
  /\ UNCHANGED op

Begin(c) ==
  /\ pc[c] = "idle"
  /\ Serial => \A d \in Calls : pc[d] \in {"idle", "done"}
  /\ pc' = [pc EXCEPT ![c] = "running"]
  /\ UNCHANGED <<session, table, content, dispatch, op, locals>>

StartSessionOp(c) ==
  /\ Running(c, "start_session")
  /\ \/ link = "connected" /\ Advance(c) /\ UNCHANGED failed
     \/ link # "connected" /\ Raise(c)
  /\ UNCHANGED <<session, table, content, dispatch, built, registered, queue,
                 merged, data>>

(* get_service: a cached handle is returned even on a broken link; opening *)
(* a service may fail; without a session it raises.                        *)
GetServiceOp(c) ==
  /\ Running(c, "open_service") \/ Running(c, "create_request")
  /\ \/ /\ link \in {"connected", "broken"}
        /\ built' = IF Current(c).op = "create_request"
                      THEN [built EXCEPT ![c] = @ \cup {Current(c).id}]
                      ELSE built
        /\ Advance(c)
        /\ UNCHANGED failed
     \/ Raise(c) /\ UNCHANGED built
  /\ UNCHANGED <<session, table, content, dispatch, registered, queue, merged,
                 data>>

(* append and set; blpapi rejects unknown elements and wrong values        *)
AppendOp(c) ==
  /\ Running(c, "append")
  /\ \/ Current(c).id \in built[c] /\ Advance(c) /\ UNCHANGED failed
     \/ Raise(c)
  /\ UNCHANGED <<session, table, content, dispatch, built, registered, queue,
                 merged, data>>

(* _send_request: register first ...                                       *)
SendRegister(c) ==
  /\ Running(c, "send_request")
  /\ Current(c).id \in built[c]
  /\ RegisterQueue(Current(c).cid)
  /\ registered' = [registered EXCEPT ![c] = @ \cup {Current(c).cid}]
  /\ pc' = [pc EXCEPT ![c] = "sending"]
  /\ UNCHANGED <<session, dispatch, op, built, queue, merged, data, failed>>

SendUnknown(c) ==
  /\ Running(c, "send_request")
  /\ Current(c).id \notin built[c]
  /\ Raise(c)
  /\ UNCHANGED <<session, table, content, dispatch, built, registered, queue,
                 merged, data>>

(* ... then submit. On a broken link blpapi raises or the request is lost. *)
SendRequest(c) ==
  /\ pc[c] = "sending"
  /\ link \in {"connected", "broken"}
  /\ outstanding' = IF link = "connected" THEN outstanding \cup {<<c, op[c]>>}
                                          ELSE outstanding
  /\ Advance(c)
  /\ UNCHANGED <<session, table, content, parts, dispatching, locals>>

SendRaises(c) ==
  /\ pc[c] = "sending"
  /\ Raise(c)
  /\ UNCHANGED <<session, table, content, dispatch, built, registered, queue,
                 merged, data>>

(* _collect_response: `q = mgr.register_queue(correlation_id)`             *)
CollectQueue(c) == RegisterQueue(Current(c).cid)

CollectRegister(c) ==
  /\ Running(c, "collect_response")
  /\ CollectQueue(c)
  /\ queue' = [queue EXCEPT ![c] = Len(content) + 1]
  /\ merged' = [merged EXCEPT ![c] = <<>>]
  /\ pc' = [pc EXCEPT ![c] = "collecting"]
  /\ UNCHANGED <<session, dispatch, op, built, registered, data, failed>>

(* normalize_message: a responseError comes without data, a securityError  *)
(* or a fieldException beside the data of others, or alone.                *)
Normalize(m, body) == [req |-> m.req, n |-> m.n, final |-> m.final, body |-> body]

CarriesData(s)   == \E k \in DOMAIN s : "data" \in s[k].body
CarriesErrors(s) == \E k \in DOMAIN s : "error" \in s[k].body

ErrorsDropped(errors, s) == errors  \* faulty: norm.errors are not merged
ErrorsMerged(errors, s)  == errors \/ CarriesErrors(s)

(* q.get() and normalise. The RESPONSE event ends the collect; only then   *)
(* its data and its errors are merged into those of the call.              *)
Receive(c) ==
  /\ pc[c] = "collecting"
  /\ content[queue[c]] # <<>>
  /\ content' = [content EXCEPT ![queue[c]] = Tail(@)]
  /\ \E body \in Bodies :
       LET m == Head(content[queue[c]])
           received == Append(merged[c], Normalize(m, body))
       IN  IF m.final
             THEN /\ data' = [data EXCEPT ![c] = @ \o received]
                  /\ failed' = [failed EXCEPT ![c] = ErrorsMerged(@, received)]
                  /\ merged' = [merged EXCEPT ![c] = <<>>]
                  /\ Advance(c)
             ELSE /\ merged' = [merged EXCEPT ![c] = received]
                  /\ UNCHANGED <<data, failed, pc, op>>
  /\ UNCHANGED <<session, table, dispatch, built, registered, queue>>

(* The deadline has passed, or normalising a message raised: what this     *)
(* collect had received goes with it. With a message in the queue and time *)
(* left the code receives, but how much time is left is anybody's guess.   *)
NoDeadline(c) ==  \* faulty: q.get() without a timeout
  pc[c] = "collecting" /\ content[queue[c]] # <<>>
MayRaise(c) == pc[c] = "collecting"

CollectRaises(c) ==
  /\ MayRaise(c)
  /\ Raise(c)
  /\ merged' = [merged EXCEPT ![c] = <<>>]
  /\ UNCHANGED <<session, table, content, dispatch, built, registered, queue,
                 data>>

(* The finally clause: unregister this call's queues, one by one           *)
Unregister(c) ==
  /\ pc[c] = "closing"
  /\ \E cid \in registered[c] :
       /\ UnregisterQueue(cid)
       /\ registered' = [registered EXCEPT ![c] = @ \ {cid}]
  /\ UNCHANGED <<session, content, dispatch, pc, op, built, queue, merged, data,
                 failed>>

AtOnce(c) == pc[c] = "closing"  \* faulty: returns without the finally clause
Cleaned(c) == pc[c] = "closing" /\ registered[c] = {}

Return(c) ==
  /\ Cleaned(c)
  /\ pc' = [pc EXCEPT ![c] = "done"]
  /\ UNCHANGED <<session, table, content, dispatch, op, locals>>

(* status of the ExecutionResult                                           *)
Status(c) == IF ~ failed[c] THEN "ok"
             ELSE IF CarriesData(data[c]) THEN "partial" ELSE "error"

-----------------------------------------------------------------------------
(* The blpapi callback thread: _on_event, for an answer to request r. It   *)
(* looks the queue up under _queues_lock and puts the message after it.    *)

Unroutable(r) == table[CidOf(r)] = NoQueue

AnswerArrives(r) ==
  /\ dispatching = Idle
  /\ r \in outstanding
  /\ \E final \in BOOLEAN :
       /\ final \/ parts[r] < MaxParts
       /\ outstanding' = IF final THEN outstanding \ {r} ELSE outstanding
       /\ parts' = IF final THEN parts ELSE [parts EXCEPT ![r] = @ + 1]
       /\ dispatching' =
            IF Unroutable(r) THEN Idle
            ELSE [msg |-> [req |-> r, n |-> parts[r] + 1, final |-> final],
                  q   |-> table[CidOf(r)]]
  /\ UNCHANGED <<session, table, content, pc, op, locals>>

InOrder(m, s) == Append(s, m)

Put ==
  /\ dispatching # Idle
  /\ content' = [content EXCEPT ![dispatching.q] = InOrder(dispatching.msg, @)]
  /\ dispatching' = Idle
  /\ UNCHANGED <<session, table, outstanding, parts, pc, op, locals>>

-----------------------------------------------------------------------------
(* The session, as SessionManager moves it. A lost session takes the       *)
(* answers it still owed with it; nobody is told.                          *)

SessionLost ==
  /\ link = "connected"
  /\ losses < MaxLosses
  /\ losses' = losses + 1
  /\ link' = "broken"
  /\ outstanding' = {}
  /\ UNCHANGED <<table, content, parts, dispatching, pc, op, locals>>

SessionReplaced ==
  /\ \/ link = "broken" /\ link' = "none"
     \/ link = "none" /\ link' = "connected"
  /\ UNCHANGED <<losses, table, content, dispatch, pc, op, locals>>

(* stop() also clears the queue table                                      *)
ManagerStopped ==
  /\ link # "stopped"
  /\ losses < MaxLosses
  /\ losses' = losses + 1
  /\ link' = "stopped"
  /\ outstanding' = {}
  /\ table' = [i \in Cids |-> NoQueue]
  /\ UNCHANGED <<content, parts, dispatching, pc, op, locals>>

-----------------------------------------------------------------------------

CallStep(c) ==
  \/ StartSessionOp(c) \/ GetServiceOp(c) \/ AppendOp(c)
  \/ SendRegister(c) \/ SendUnknown(c) \/ SendRequest(c) \/ SendRaises(c)
  \/ CollectRegister(c) \/ Receive(c) \/ CollectRaises(c)
  \/ Unregister(c) \/ Return(c)

Next ==
  \/ \E c \in Calls : Begin(c) \/ CallStep(c)
  \/ \E r \in Requests : AnswerArrives(r)
  \/ Put
  \/ SessionLost \/ SessionReplaced \/ ManagerStopped

Spec == Init /\ [][Next]_vars

(* A call that has begun runs on: every wait in it has a deadline, so even *)
(* without an answer it is never stuck. Bloomberg owes no answer.          *)
FairSpec == Spec /\ \A c \in Calls : WF_vars(CallStep(c))

-----------------------------------------------------------------------------
(* Properties                                                              *)

(* The module docstring of the executor: "The session is shared across     *)
(* concurrent requests; per-cid queues isolate them." Whatever a call has  *)
(* received answers a request of its own, and what the current collect has *)
(* received answers the request sent with the cid it collects.             *)
OwnAnswersOnly ==
  \A c \in Calls :
    /\ \A k \in DOMAIN data[c] : data[c][k].req[1] = c
    /\ \A k \in DOMAIN merged[c] : /\ merged[c][k].req[1] = c
                                   /\ CidOf(merged[c][k].req) = Current(c).cid

(* Within a collect nothing is missing in the middle and nothing is out of *)
(* order: after each message comes the next part of the same answer, or    *)
(* the message was the final one and the next collect begins.              *)
PartsInSequence ==
  \A c \in Calls : LET got == data[c] \o merged[c] IN
    \A k \in 1 .. Len(got) - 1 :
      \/ got[k].final
      \/ got[k + 1].req = got[k].req /\ got[k + 1].n = got[k].n + 1

(* While a call waits, the queue it waits on is the one the callback       *)
(* thread finds for its cid: no other call, however interleaved, replaces  *)
(* or removes it. Only stop() does, which clears the table.                *)
CollectorIsRegistered ==
  \A c \in Calls :
    pc[c] = "collecting" /\ link # "stopped" => table[Current(c).cid] = queue[c]

(* The queues isolate the calls (blp_exec.py:13-14, session_manager.py:    *)
(* 123-136): what a call waits on and hears is its own, whole and in order.*)
Isolation == TypeOK /\ OwnAnswersOnly /\ PartsInSequence /\ CollectorIsRegistered

(* No queue outlives its call: every entry of the table belongs to a call  *)
(* that has still to unregister it, whichever op raised.                   *)
NoQueueLeft ==
  \A cid \in Cids : table[cid] # NoQueue
    => \E c \in Calls : pc[c] # "done" /\ cid \in registered[c]

(* The executor keeps the contract of execute(): see ExecuteContract. What *)
(* the collects that ended have received is what the caller has heard.     *)
CollectOps(c) == {i \in DOMAIN Plan[c] : Plan[c][i].op = "collect_response"}

Contract == INSTANCE ExecuteContract WITH
  OwnMessages <- [c \in Calls |-> {m \in Normalized : m.req[1] = c}],
  Collects    <- [c \in Calls |-> Cardinality(CollectOps(c))],
  phase  <- [c \in Calls |-> IF pc[c] \in {"idle", "done"} THEN pc[c] ELSE "open"],
  heard  <- [c \in Calls |-> {data[c][k] : k \in DOMAIN data[c]}],
  result <- [c \in Calls |-> IF pc[c] = "done" THEN Status(c) ELSE "none"]

KeepsContract == Contract!Spec

(* Every call returns, with or without answers, session or manager.        *)
CallsReturn == \A c \in Calls : pc[c] = "running" ~> pc[c] = "done"

-----------------------------------------------------------------------------
(* What the source says of itself and the code does not do.                *)

(* _send_request: "Register queue BEFORE sending so we don't race the      *)
(* response." A call that reports "ok" has every part of every answer,     *)
(* however early it came.                                                  *)
OkIsComplete ==
  \A c \in Calls : pc[c] = "done" /\ Status(c) = "ok" =>
    \A k \in DOMAIN data[c] : data[c][k].n > 1 =>
      \E j \in DOMAIN data[c] : /\ data[c][j].req = data[c][k].req
                                /\ data[c][j].n = data[c][k].n - 1

=============================================================================
