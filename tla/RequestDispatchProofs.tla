----------------------- MODULE RequestDispatchProofs ------------------------
(***************************************************************************)
(* The queues isolate the calls of execute(): for any number of calls, any *)
(* plans that meet the three conditions below, any number of partial       *)
(* responses and any losses of the session. The argument is in README.md.  *)
(***************************************************************************)
EXTENDS RequestDispatch, SequenceTheorems, FiniteSetTheorems, TLAPS

-----------------------------------------------------------------------------
(* The plans                                                               *)

Uses(c) == SendOps(c) \cup CollectOps(c)

(* Whether the request that a send op of c names can exist when the op is  *)
(* reached: some op before it creates it.                                  *)
Makeable(c, i) == \E k \in DOMAIN Plan[c] :
                    k < i /\ Plan[c][k].op = "create_request" /\ Plan[c][k].id = Plan[c][i].id

(* A cid belongs to one call; a call can send one request with it, and     *)
(* collects with it only after a send op.                                  *)
OwnCids == \A c, d \in Calls : \A i \in Uses(c), j \in Uses(d) :
             Plan[c][i].cid = Plan[d][j].cid => c = d
SentOnce == \A c \in Calls : \A i, j \in SendOps(c) :
              Makeable(c, i) /\ Makeable(c, j) /\ Plan[c][i].cid = Plan[c][j].cid => i = j
CollectsSent == \A c \in Calls : \A i \in CollectOps(c) :
                  \E j \in SendOps(c) : j < i /\ Plan[c][j].cid = Plan[c][i].cid

LEMMA PlanFacts ==
  ASSUME NEW c \in Calls, NEW i \in DOMAIN Plan[c]
  PROVE  /\ Plan[c] \in Seq(Ops) /\ Len(Plan[c]) \in Nat /\ DOMAIN Plan[c] = 1..Len(Plan[c])
         /\ Plan[c][i].op \in {"start_session", "open_service", "create_request", "append",
                               "send_request", "collect_response"}
         /\ Plan[c][i].op = "create_request" => Plan[c][i].id \in Ids
         /\ Plan[c][i].op \in {"send_request", "collect_response"} => Plan[c][i].cid \in Cids
<1>1. /\ Plan[c] \in Seq(Ops) /\ Len(Plan[c]) \in Nat /\ DOMAIN Plan[c] = 1..Len(Plan[c])
  BY PlanAssumption, LenProperties
<1>2. Plan[c][i] \in Ops
  BY <1>1, ElementOfSeq
<1> QED
  BY <1>1, <1>2 DEF Ops

LEMMA RequestFacts ==
  ASSUME NEW r \in Requests
  PROVE  /\ r[1] \in Calls /\ r[2] \in SendOps(r[1]) /\ r = <<r[1], r[2]>>
         /\ CidOf(r) \in Cids
<1>1. PICK c \in Calls : r \in {c} \X SendOps(c)
  BY DEF Requests
<1>2. r[1] = c /\ r[2] \in SendOps(c) /\ r = <<r[1], r[2]>>
  BY <1>1
<1> QED
  BY <1>2, PlanFacts DEF SendOps, CidOf

LEMMA SendIsRequest ==
  ASSUME NEW c \in Calls, NEW i \in DOMAIN Plan[c], Plan[c][i].op = "send_request"
  PROVE  <<c, i>> \in Requests
  BY DEF Requests, SendOps

(* A cid names one request that can be sent.                               *)
LEMMA OneRequestPerCid ==
  ASSUME OwnCids, SentOnce, NEW r \in Requests, NEW s \in Requests, CidOf(r) = CidOf(s),
         Makeable(r[1], r[2]), Makeable(s[1], s[2])
  PROVE  r = s
<1>1. r[1] = s[1]
  BY RequestFacts DEF OwnCids, Uses, CidOf
<1>2. r[2] = s[2]
  BY <1>1, RequestFacts DEF SentOnce, CidOf
<1> QED
  BY <1>1, <1>2, RequestFacts

-----------------------------------------------------------------------------
(* The type invariant                                                      *)

OpsInPlan ==
  \A c \in Calls :
    /\ op[c] \in DOMAIN Plan[c]
    /\ pc[c] = "sending" => Current(c).op = "send_request"
    /\ pc[c] = "collecting" => Current(c).op = "collect_response" /\ queue[c] \in DOMAIN content

TypeInv == TypeOK /\ OpsInPlan

LEMMA QueueType ==
  ASSUME TypeInv
  PROVE  /\ Len(content) \in Nat /\ DOMAIN content = 1..Len(content)
         /\ \A q \in DOMAIN content : content[q] \in Seq(Message)
         /\ NoQueue \notin DOMAIN content
  BY LenProperties, ElementOfSeq, NoQueueAssumption DEF TypeInv, TypeOK

(* Advance and Raise stay in the plan.                                     *)
LEMMA AdvanceType ==
  ASSUME TypeInv, NEW c \in Calls, Advance(c)
  PROVE  /\ op' \in [Calls -> Nat]
         /\ pc' \in [Calls -> {"idle", "running", "sending", "collecting", "closing", "done"}]
         /\ \A d \in Calls : op'[d] \in DOMAIN Plan[d]
         /\ \A d \in Calls \ {c} : pc'[d] = pc[d] /\ op'[d] = op[d]
         /\ pc'[c] \in {"running", "closing"}
<1>1. op[c] \in Nat /\ op[c] \in 1..Len(Plan[c]) /\ Len(Plan[c]) \in Nat
      /\ DOMAIN Plan[c] = 1..Len(Plan[c])
  BY PlanFacts DEF TypeInv, TypeOK, OpsInPlan
<1>2. CASE op[c] < Len(Plan[c])
  <2>1. op' = [op EXCEPT ![c] = op[c] + 1] /\ pc' = [pc EXCEPT ![c] = "running"]
    BY <1>2 DEF Advance
  <2>2. op[c] + 1 \in DOMAIN Plan[c] /\ op[c] + 1 \in Nat
    BY <1>1, <1>2
  <2> QED
    BY <2>1, <2>2 DEF TypeInv, TypeOK, OpsInPlan
<1>3. CASE ~ (op[c] < Len(Plan[c]))
  <2>1. op' = op /\ pc' = [pc EXCEPT ![c] = "closing"]
    BY <1>3 DEF Advance
  <2> QED
    BY <2>1 DEF TypeInv, TypeOK, OpsInPlan
<1> QED
  BY <1>2, <1>3

LEMMA RaiseType ==
  ASSUME TypeInv, NEW c \in Calls, Raise(c)
  PROVE  /\ op' = op
         /\ pc' \in [Calls -> {"idle", "running", "sending", "collecting", "closing", "done"}]
         /\ failed' \in [Calls -> BOOLEAN]
         /\ \A d \in Calls \ {c} : pc'[d] = pc[d]
         /\ pc'[c] = "closing"
  BY DEF Raise, TypeInv, TypeOK

(* A new queue is empty and has a number of its own.                       *)
LEMMA RegisterType ==
  ASSUME TypeInv, NEW i \in Cids, RegisterQueue(i)
  PROVE  /\ content' \in Seq(Seq(Message))
         /\ DOMAIN content' = DOMAIN content \cup {Len(content) + 1}
         /\ Len(content) + 1 \in Nat /\ Len(content) + 1 \notin DOMAIN content
         /\ content'[Len(content) + 1] = <<>>
         /\ \A q \in DOMAIN content : content'[q] = content[q]
         /\ table' = [table EXCEPT ![i] = Len(content) + 1]
         /\ table' \in [Cids -> DOMAIN content' \cup {NoQueue}]
<1>1. content' = Append(content, <<>>) /\ table' = [table EXCEPT ![i] = Len(content) + 1]
  BY DEF RegisterQueue
<1>2. <<>> \in Seq(Message) /\ content \in Seq(Seq(Message))
  BY EmptySeq DEF TypeInv, TypeOK
<1>3. /\ content' \in Seq(Seq(Message)) /\ Len(content') = Len(content) + 1
      /\ \A q \in 1..Len(content) : content'[q] = content[q]
      /\ content'[Len(content) + 1] = <<>>
  BY <1>1, <1>2, AppendProperties
<1>4. /\ Len(content) \in Nat /\ DOMAIN content = 1..Len(content)
      /\ DOMAIN content' = 1..Len(content')
  BY <1>2, <1>3, LenProperties
<1>5. DOMAIN content' = DOMAIN content \cup {Len(content) + 1}
  BY <1>3, <1>4
<1>6. table' \in [Cids -> DOMAIN content' \cup {NoQueue}]
  BY <1>1, <1>5 DEF TypeInv, TypeOK
<1> QED
  BY <1>1, <1>3, <1>4, <1>5, <1>6

(* Steps of a call that leave the queues alone.                            *)
LEMMA LocalType ==
  ASSUME TypeInv, NEW c \in Calls,
         Advance(c) \/ Raise(c), failed' \in [Calls -> BOOLEAN],
         UNCHANGED <<session, table, content, parts, dispatching, registered, queue, data>>,
         outstanding' \in SUBSET Requests, built' \in [Calls -> SUBSET Ids],
         merged' \in [Calls -> Seq(Normalized)]
  PROVE  TypeInv'
<1>1. /\ op' \in [Calls -> Nat]
      /\ pc' \in [Calls -> {"idle", "running", "sending", "collecting", "closing", "done"}]
      /\ \A d \in Calls : op'[d] \in DOMAIN Plan[d]
      /\ \A d \in Calls \ {c} : pc'[d] = pc[d] /\ op'[d] = op[d]
      /\ pc'[c] \in {"running", "closing"}
  <2>1. CASE Advance(c)
    BY <2>1, AdvanceType
  <2>2. CASE Raise(c)
    BY <2>2, RaiseType DEF TypeInv, TypeOK, OpsInPlan
  <2> QED
    BY <2>1, <2>2
<1>2. TypeOK'
  BY <1>1 DEF TypeInv, TypeOK, session
<1>3. OpsInPlan'
  BY <1>1 DEF TypeInv, OpsInPlan, Current
<1> QED
  BY <1>2, <1>3 DEF TypeInv

LEMMA OpsType ==
  ASSUME TypeInv, NEW c \in Calls,
         \/ StartSessionOp(c) \/ GetServiceOp(c) \/ AppendOp(c) \/ SendUnknown(c)
         \/ SendRequest(c) \/ SendRaises(c) \/ CollectRaises(c)
  PROVE  TypeInv'
<1>1. /\ op[c] \in DOMAIN Plan[c]
      /\ Plan[c][op[c]].op = "create_request" => Plan[c][op[c]].id \in Ids
  BY PlanFacts DEF TypeInv, OpsInPlan
<1>2. failed \in [Calls -> BOOLEAN] /\ outstanding \in SUBSET Requests
      /\ built \in [Calls -> SUBSET Ids] /\ merged \in [Calls -> Seq(Normalized)]
  BY DEF TypeInv, TypeOK
<1>3. CASE StartSessionOp(c)
  <2>1. Advance(c) \/ Raise(c)
    BY <1>3 DEF StartSessionOp
  <2>2. failed' \in [Calls -> BOOLEAN]
    BY <1>2, <1>3, RaiseType DEF StartSessionOp
  <2> QED
    BY <1>2, <1>3, <2>1, <2>2, LocalType DEF StartSessionOp, dispatch
<1>4. CASE GetServiceOp(c)
  <2>1. Advance(c) \/ Raise(c)
    BY <1>4 DEF GetServiceOp
  <2>2. failed' \in [Calls -> BOOLEAN]
    BY <1>2, <1>4, RaiseType DEF GetServiceOp
  <2>3. built' \in [Calls -> SUBSET Ids]
    <3>1. \/ built' = built
          \/ /\ Plan[c][op[c]].op = "create_request"
             /\ built' = [built EXCEPT ![c] = built[c] \cup {Plan[c][op[c]].id}]
      BY <1>4 DEF GetServiceOp, Current
    <3>2. built' = built \/ \E i \in Ids : built' = [built EXCEPT ![c] = built[c] \cup {i}]
      BY <1>1, <3>1
    <3> QED
      BY <1>2, <3>2
  <2> QED
    BY <1>2, <1>4, <2>1, <2>2, <2>3, LocalType DEF GetServiceOp, dispatch
<1>5. CASE AppendOp(c)
  <2>1. Advance(c) \/ Raise(c)
    BY <1>5 DEF AppendOp
  <2>2. failed' \in [Calls -> BOOLEAN]
    BY <1>2, <1>5, RaiseType DEF AppendOp
  <2> QED
    BY <1>2, <1>5, <2>1, <2>2, LocalType DEF AppendOp, dispatch
<1>6. CASE SendUnknown(c) \/ SendRaises(c)
  <2>1. Raise(c)
    BY <1>6 DEF SendUnknown, SendRaises
  <2>2. failed' \in [Calls -> BOOLEAN]
    BY <2>1, RaiseType
  <2> QED
    BY <1>2, <1>6, <2>1, <2>2, LocalType DEF SendUnknown, SendRaises, dispatch
<1>7. CASE SendRequest(c)
  <2>1. <<c, op[c]>> \in Requests
    <3>1. Plan[c][op[c]].op = "send_request"
      BY <1>7 DEF SendRequest, TypeInv, OpsInPlan, Current
    <3> QED
      BY <1>1, <3>1, SendIsRequest
  <2>2. outstanding' \in SUBSET Requests
    BY <1>2, <1>7, <2>1 DEF SendRequest
  <2> QED
    BY <1>2, <1>7, <2>2, LocalType DEF SendRequest, locals
<1>8. CASE CollectRaises(c)
  <2>1. Raise(c)
    BY <1>8 DEF CollectRaises
  <2>2. failed' \in [Calls -> BOOLEAN]
    BY <2>1, RaiseType
  <2>3. merged' \in [Calls -> Seq(Normalized)]
    BY <1>2, <1>8, EmptySeq DEF CollectRaises
  <2> QED
    BY <1>2, <1>8, <2>1, <2>2, <2>3, LocalType DEF CollectRaises, dispatch
<1> QED
  BY <1>3, <1>4, <1>5, <1>6, <1>7, <1>8

LEMMA SendRegisterType ==
  ASSUME TypeInv, NEW c \in Calls, SendRegister(c)
  PROVE  TypeInv'
<1> DEFINE i == Current(c).cid
<1>1. i \in Cids /\ Current(c).op = "send_request"
  BY PlanFacts DEF SendRegister, Running, TypeInv, OpsInPlan, Current
<1>2. RegisterQueue(i)
  BY DEF SendRegister
<1>3. /\ content' \in Seq(Seq(Message))
      /\ DOMAIN content \subseteq DOMAIN content'
      /\ table' \in [Cids -> DOMAIN content' \cup {NoQueue}]
  BY <1>1, <1>2, RegisterType
<1>4. /\ registered' = [registered EXCEPT ![c] = registered[c] \cup {i}]
      /\ pc' = [pc EXCEPT ![c] = "sending"]
      /\ UNCHANGED <<link, losses, outstanding, parts, dispatching, op, built, queue, merged,
                     data, failed>>
  BY DEF SendRegister, session, dispatch
<1> HIDE DEF i
<1>5. /\ registered' \in [Calls -> SUBSET Cids]
      /\ pc' \in [Calls -> {"idle", "running", "sending", "collecting", "closing", "done"}]
  BY <1>1, <1>4 DEF TypeInv, TypeOK
<1>6. TypeOK'
  BY <1>3, <1>4, <1>5 DEF TypeInv, TypeOK
<1>7. OpsInPlan'
  BY <1>1, <1>3, <1>4 DEF TypeInv, TypeOK, OpsInPlan, Current
<1> QED
  BY <1>6, <1>7 DEF TypeInv

LEMMA CollectRegisterType ==
  ASSUME TypeInv, NEW c \in Calls, CollectRegister(c)
  PROVE  TypeInv'
<1> DEFINE i == Current(c).cid
<1>1. i \in Cids /\ Current(c).op = "collect_response"
  BY PlanFacts DEF CollectRegister, Running, TypeInv, OpsInPlan, Current
<1>2. RegisterQueue(i)
  BY DEF CollectRegister, CollectQueue
<1>3. /\ content' \in Seq(Seq(Message))
      /\ DOMAIN content' = DOMAIN content \cup {Len(content) + 1}
      /\ table' \in [Cids -> DOMAIN content' \cup {NoQueue}]
  BY <1>1, <1>2, RegisterType
<1>4. /\ queue' = [queue EXCEPT ![c] = Len(content) + 1]
      /\ merged' = [merged EXCEPT ![c] = <<>>]
      /\ pc' = [pc EXCEPT ![c] = "collecting"]
      /\ UNCHANGED <<link, losses, outstanding, parts, dispatching, op, built, registered,
                     data, failed>>
  BY DEF CollectRegister, session, dispatch
<1> HIDE DEF i
<1>5. /\ queue' \in [Calls -> DOMAIN content' \cup {NoQueue}]
      /\ merged' \in [Calls -> Seq(Normalized)]
      /\ pc' \in [Calls -> {"idle", "running", "sending", "collecting", "closing", "done"}]
  BY <1>3, <1>4, EmptySeq DEF TypeInv, TypeOK
<1>6. TypeOK'
  BY <1>3, <1>4, <1>5 DEF TypeInv, TypeOK
<1>7. OpsInPlan'
  BY <1>1, <1>3, <1>4 DEF TypeInv, TypeOK, OpsInPlan, Current
<1> QED
  BY <1>6, <1>7 DEF TypeInv

(* What a receive does, m being the message as the normaliser leaves it    *)
(* and u what the collect has with it.                                     *)
Takes(c, m, u) ==
  /\ \E body \in Bodies : m = Normalize(Head(content[queue[c]]), body)
  /\ u = Append(merged[c], m)
  /\ \/ /\ m.final
        /\ data' = [data EXCEPT ![c] = data[c] \o u]
        /\ failed' = [failed EXCEPT ![c] = ErrorsMerged(failed[c], u)]
        /\ merged' = [merged EXCEPT ![c] = <<>>]
        /\ Advance(c)
     \/ /\ ~ m.final
        /\ merged' = [merged EXCEPT ![c] = u]
        /\ UNCHANGED <<data, failed, pc, op>>

LEMMA ReceiveTakes ==
  ASSUME NEW c \in Calls, Receive(c)
  PROVE  /\ pc[c] = "collecting" /\ content[queue[c]] # <<>>
         /\ content' = [content EXCEPT ![queue[c]] = Tail(content[queue[c]])]
         /\ UNCHANGED <<link, losses, table, outstanding, parts, dispatching, built, registered,
                        queue>>
         /\ \E m, u : Takes(c, m, u)
<1>1. PICK body \in Bodies :
        LET h == Head(content[queue[c]])
            received == Append(merged[c], Normalize(h, body))
        IN  IF h.final
              THEN /\ data' = [data EXCEPT ![c] = data[c] \o received]
                   /\ failed' = [failed EXCEPT ![c] = ErrorsMerged(failed[c], received)]
                   /\ merged' = [merged EXCEPT ![c] = <<>>]
                   /\ Advance(c)
              ELSE /\ merged' = [merged EXCEPT ![c] = received]
                   /\ UNCHANGED <<data, failed, pc, op>>
  BY DEF Receive
<1>2. PICK h : h = Head(content[queue[c]])
  OBVIOUS
<1>3. PICK m : m = Normalize(h, body)
  OBVIOUS
<1>4. PICK u : u = Append(merged[c], m)
  OBVIOUS
<1>5. m.final = h.final
  BY <1>3 DEF Normalize
<1>6. Takes(c, m, u)
  BY <1>1, <1>2, <1>3, <1>4, <1>5 DEF Takes
<1> QED
  BY <1>6 DEF Receive, session, dispatch

(* Normalising keeps what a message answers and its place in the answer.   *)
Core(x) == [req |-> x.req, n |-> x.n, final |-> x.final]

LEMMA NormalType ==
  ASSUME NEW h \in Message, NEW body \in Bodies, NEW m, m = Normalize(h, body)
  PROVE  /\ m \in Normalized /\ Core(m) = h
         /\ m.req = h.req /\ m.n = h.n /\ m.final = h.final
BY DEF Message, Normalized, Normalize, Core

LEMMA ReceiveType ==
  ASSUME TypeInv, NEW c \in Calls, Receive(c)
  PROVE  TypeInv'
<1>1. PICK q : q = queue[c]
  OBVIOUS
<1>2. PICK m, u : Takes(c, m, u)
  BY ReceiveTakes
<1>3. /\ q \in DOMAIN content /\ content[q] \in Seq(Message) /\ content[q] # <<>>
      /\ merged[c] \in Seq(Normalized) /\ data[c] \in Seq(Normalized)
  BY <1>1, QueueType, ReceiveTakes DEF TypeInv, TypeOK, OpsInPlan
<1>4. Head(content[q]) \in Message /\ Tail(content[q]) \in Seq(Message)
  BY <1>3, HeadTailProperties
<1>5. m \in Normalized
  BY <1>1, <1>2, <1>4, NormalType DEF Takes
<1>6. u \in Seq(Normalized) /\ data[c] \o u \in Seq(Normalized)
  BY <1>2, <1>3, <1>5, AppendProperties, ConcatProperties DEF Takes
<1>7. content' = [content EXCEPT ![q] = Tail(content[q])]
  BY <1>1, ReceiveTakes
<1>8. content' \in Seq(Seq(Message)) /\ DOMAIN content' = DOMAIN content
  BY <1>3, <1>4, <1>7, ExceptSeq DEF TypeInv, TypeOK
<1>9. UNCHANGED <<link, losses, table, outstanding, parts, dispatching, built, registered, queue>>
  BY ReceiveTakes
<1>10. data' \in [Calls -> Seq(Normalized)] /\ merged' \in [Calls -> Seq(Normalized)]
  <2>1. <<>> \in Seq(Normalized)
    BY EmptySeq
  <2>2. data \in [Calls -> Seq(Normalized)] /\ merged \in [Calls -> Seq(Normalized)]
    BY DEF TypeInv, TypeOK
  <2>3. PICK all : all = data[c] \o u
    OBVIOUS
  <2>4. all \in Seq(Normalized)
    BY <1>6, <2>3
  <2>5. \/ data' = [data EXCEPT ![c] = all] /\ merged' = [merged EXCEPT ![c] = <<>>]
        \/ data' = data /\ merged' = [merged EXCEPT ![c] = u]
    BY <1>2, <2>3 DEF Takes
  <2> QED
    BY <1>6, <2>1, <2>2, <2>4, <2>5
<1>11. failed' \in [Calls -> BOOLEAN]
  <2>1. failed \in [Calls -> BOOLEAN]
    BY DEF TypeInv, TypeOK
  <2>2. failed' = failed \/ failed' = [failed EXCEPT ![c] = ErrorsMerged(failed[c], u)]
    BY <1>2 DEF Takes
  <2>3. ErrorsMerged(failed[c], u) \in BOOLEAN
    BY <2>1 DEF ErrorsMerged, CarriesErrors
  <2> QED
    BY <2>1, <2>2, <2>3
<1>12. /\ op' \in [Calls -> Nat]
       /\ pc' \in [Calls -> {"idle", "running", "sending", "collecting", "closing", "done"}]
       /\ \A d \in Calls : op'[d] \in DOMAIN Plan[d]
       /\ \A d \in Calls : \/ pc'[d] = pc[d] /\ op'[d] = op[d]
                           \/ pc'[d] \in {"running", "closing"}
  BY <1>2, AdvanceType DEF Takes, TypeInv, TypeOK, OpsInPlan
<1>13. TypeOK'
  BY <1>8, <1>9, <1>10, <1>11, <1>12 DEF TypeInv, TypeOK
<1>14. OpsInPlan'
  BY <1>8, <1>9, <1>12 DEF TypeInv, OpsInPlan, Current
<1> QED
  BY <1>13, <1>14 DEF TypeInv

LEMMA EndType ==
  ASSUME TypeInv, NEW c \in Calls, Begin(c) \/ Unregister(c) \/ Return(c)
  PROVE  TypeInv'
<1>1. CASE Begin(c)
  <2>1. /\ pc' = [pc EXCEPT ![c] = "running"]
        /\ UNCHANGED <<link, losses, table, content, outstanding, parts, dispatching, op, built,
                       registered, queue, merged, data, failed>>
    BY <1>1 DEF Begin, session, dispatch, locals
  <2> QED
    BY <2>1 DEF TypeInv, TypeOK, OpsInPlan, Current
<1>2. CASE Unregister(c)
  <2>1. PICK i \in registered[c] : /\ UnregisterQueue(i)
                                   /\ registered' = [registered EXCEPT ![c] = registered[c] \ {i}]
    BY <1>2 DEF Unregister
  <2>2. table' = [table EXCEPT ![i] = NoQueue]
    BY <2>1 DEF UnregisterQueue
  <2>3. UNCHANGED <<link, losses, content, outstanding, parts, dispatching, pc, op, built, queue,
                    merged, data, failed>>
    BY <1>2 DEF Unregister, session, dispatch
  <2>4. /\ table' \in [Cids -> DOMAIN content' \cup {NoQueue}]
        /\ registered' \in [Calls -> SUBSET Cids]
    BY <2>1, <2>2, <2>3 DEF TypeInv, TypeOK
  <2> QED
    BY <2>3, <2>4 DEF TypeInv, TypeOK, OpsInPlan, Current
<1>3. CASE Return(c)
  <2>1. /\ pc' = [pc EXCEPT ![c] = "done"]
        /\ UNCHANGED <<link, losses, table, content, outstanding, parts, dispatching, op, built,
                       registered, queue, merged, data, failed>>
    BY <1>3 DEF Return, session, dispatch, locals
  <2> QED
    BY <2>1 DEF TypeInv, TypeOK, OpsInPlan, Current
<1> QED
  BY <1>1, <1>2, <1>3

(* What the callback thread holds.                                         *)
LEMMA ArrivalType ==
  ASSUME TypeInv, NEW r \in Requests, AnswerArrives(r)
  PROVE  TypeInv'
<1>1. PICK final \in BOOLEAN :
        /\ final \/ parts[r] < MaxParts
        /\ outstanding' = IF final THEN outstanding \ {r} ELSE outstanding
        /\ parts' = IF final THEN parts ELSE [parts EXCEPT ![r] = parts[r] + 1]
        /\ dispatching' = IF Unroutable(r) THEN Idle
                          ELSE [msg |-> [req |-> r, n |-> parts[r] + 1, final |-> final],
                                q   |-> table[CidOf(r)]]
  BY DEF AnswerArrives
<1>2. UNCHANGED <<link, losses, table, content, pc, op, built, registered, queue, merged, data,
                  failed>>
  BY DEF AnswerArrives, session, locals
<1>3. parts \in [Requests -> 0..MaxParts] /\ parts[r] \in 0..MaxParts /\ MaxParts \in Nat
  BY BoundsAssumption DEF TypeInv, TypeOK
<1>4. parts' \in [Requests -> 0..MaxParts]
  BY <1>1, <1>3
<1>5. dispatching' = Idle \/ dispatching' \in [msg : Message, q : DOMAIN content]
  <2>1. CASE Unroutable(r)
    BY <1>1, <2>1
  <2>2. CASE ~ Unroutable(r)
    <3>1. table[CidOf(r)] \in DOMAIN content
      BY <2>2, RequestFacts DEF Unroutable, TypeInv, TypeOK
    <3>2. parts[r] + 1 \in 1..MaxParts + 1
      BY <1>3
    <3>3. [req |-> r, n |-> parts[r] + 1, final |-> final] \in Message
      BY <3>2 DEF Message
    <3> QED
      BY <1>1, <2>2, <3>1, <3>3
  <2> QED
    BY <2>1, <2>2
<1>6. outstanding' \in SUBSET Requests
  BY <1>1 DEF TypeInv, TypeOK
<1> QED
  BY <1>2, <1>4, <1>5, <1>6 DEF TypeInv, TypeOK, OpsInPlan, Current

LEMMA PutType ==
  ASSUME TypeInv, Put
  PROVE  TypeInv'
<1> DEFINE d == dispatching
<1>1. d \in [msg : Message, q : DOMAIN content]
  BY DEF Put, TypeInv, TypeOK
<1>2. d.msg \in Message /\ d.q \in DOMAIN content /\ content[d.q] \in Seq(Message)
  BY <1>1, QueueType
<1>3. content' = [content EXCEPT ![d.q] = Append(content[d.q], d.msg)]
  BY DEF Put, InOrder
<1>4. Append(content[d.q], d.msg) \in Seq(Message)
  BY <1>2, AppendProperties
<1>5. content' \in Seq(Seq(Message)) /\ DOMAIN content' = DOMAIN content
  BY <1>2, <1>3, <1>4, ExceptSeq DEF TypeInv, TypeOK
<1>6. /\ dispatching' = Idle
      /\ UNCHANGED <<link, losses, table, outstanding, parts, pc, op, built, registered, queue,
                     merged, data, failed>>
  BY DEF Put, session, locals
<1> QED
  BY <1>5, <1>6 DEF TypeInv, TypeOK, OpsInPlan, Current

LEMMA SessionType ==
  ASSUME TypeInv, SessionLost \/ SessionReplaced \/ ManagerStopped
  PROVE  TypeInv'
<1>1. /\ link' \in {"connected", "broken", "none", "stopped"}
      /\ losses' \in 0..MaxLosses
      /\ outstanding' \in SUBSET Requests
  BY BoundsAssumption DEF SessionLost, SessionReplaced, ManagerStopped, TypeInv, TypeOK, dispatch
<1>2. table' \in [Cids -> DOMAIN content \cup {NoQueue}]
  BY DEF SessionLost, SessionReplaced, ManagerStopped, TypeInv, TypeOK
<1>3. UNCHANGED <<content, parts, dispatching, pc, op, built, registered, queue, merged, data,
                  failed>>
  BY DEF SessionLost, SessionReplaced, ManagerStopped, dispatch, locals
<1> QED
  BY <1>1, <1>2, <1>3 DEF TypeInv, TypeOK, OpsInPlan, Current

LEMMA TypeInit == Init => TypeInv
<1> SUFFICES ASSUME Init PROVE TypeInv
  OBVIOUS
<1>1. <<>> \in Seq(Message) /\ <<>> \in Seq(Seq(Message))
  BY EmptySeq
<1>2. \A c \in Calls : 1 \in DOMAIN Plan[c]
  <2> TAKE c \in Calls
  <2>1. Plan[c] \in Seq(Ops) /\ Plan[c] # <<>>
    BY PlanAssumption
  <2> QED
    BY <2>1, LenProperties, EmptySeq
<1>3. TypeOK
  BY <1>1, BoundsAssumption DEF Init, TypeOK
<1>4. OpsInPlan
  BY <1>2 DEF Init, OpsInPlan
<1> QED
  BY <1>3, <1>4 DEF TypeInv

LEMMA TypeStep == TypeInv /\ [Next]_vars => TypeInv'
<1> SUFFICES ASSUME TypeInv, [Next]_vars PROVE TypeInv'
  OBVIOUS
<1>1. ASSUME NEW c \in Calls, Begin(c) \/ CallStep(c) PROVE TypeInv'
  BY <1>1, OpsType, SendRegisterType, CollectRegisterType, ReceiveType, EndType DEF CallStep
<1>2. ASSUME NEW r \in Requests, AnswerArrives(r) PROVE TypeInv'
  BY <1>2, ArrivalType
<1>3. CASE Put
  BY <1>3, PutType
<1>4. CASE SessionLost \/ SessionReplaced \/ ManagerStopped
  BY <1>4, SessionType
<1>5. CASE UNCHANGED vars
  BY <1>5 DEF vars, session, dispatch, locals, TypeInv, TypeOK, OpsInPlan, Current
<1> QED
  BY <1>1, <1>2, <1>3, <1>4, <1>5 DEF Next
-----------------------------------------------------------------------------
(* The registrations: which queue is in the table, and on whose account    *)

Phases == {"idle", "running", "sending", "collecting", "closing", "done"}

Active(c) == pc[c] \in {"running", "sending", "collecting"}

IdleAtStart == \A c \in Calls : pc[c] = "idle" => op[c] = 1
DoneIsClean == \A c \in Calls : pc[c] = "done" => registered[c] = {}
RegisteredBySend == \A c \in Calls : \A i \in registered[c] : \E j \in SendOps(c) : Plan[c][j].cid = i
SentIsRegistered ==
  \A c \in Calls : Active(c) => \A j \in SendOps(c) :
    j < op[c] \/ (pc[c] = "sending" /\ j = op[c]) => Plan[c][j].cid \in registered[c]
TableIsOwned == \A i \in Cids : table[i] # NoQueue => \E c \in Calls : i \in registered[c]

BookInv == /\ IdleAtStart /\ DoneIsClean /\ RegisteredBySend /\ SentIsRegistered
           /\ TableIsOwned /\ CollectorIsRegistered

LEMMA AdvanceMoves ==
  ASSUME TypeInv, NEW c \in Calls, Advance(c)
  PROVE  \/ op'[c] = op[c] + 1 /\ pc'[c] = "running"
         \/ op'[c] = op[c] /\ pc'[c] = "closing"
BY DEF Advance, TypeInv, TypeOK

(* The end of an op: a send op ends only after its registration.           *)
LEMMA EndOfOpBook ==
  ASSUME TypeInv, BookInv, NEW c \in Calls, Active(c),
         \/ Advance(c) /\ (Current(c).op = "send_request" => pc[c] = "sending")
         \/ Raise(c),
         UNCHANGED <<link, table, registered, queue>>
  PROVE  BookInv'
<1>1. /\ \A d \in Calls \ {c} : pc'[d] = pc[d] /\ op'[d] = op[d]
      /\ \/ Advance(c) /\ op'[c] = op[c] + 1 /\ pc'[c] = "running"
         \/ pc'[c] = "closing"
  BY AdvanceType, AdvanceMoves, RaiseType
<1>2. IdleAtStart' /\ DoneIsClean' /\ RegisteredBySend' /\ TableIsOwned'
  BY <1>1 DEF BookInv, IdleAtStart, DoneIsClean, RegisteredBySend, TableIsOwned
<1>3. CollectorIsRegistered'
  BY <1>1 DEF BookInv, CollectorIsRegistered, Current
<1>4. SentIsRegistered'
  <2> SUFFICES ASSUME NEW d \in Calls, Active(d)', NEW j \in SendOps(d),
                      (j < op[d] \/ (pc[d] = "sending" /\ j = op[d]))'
               PROVE  Plan[d][j].cid \in registered'[d]
    BY DEF SentIsRegistered
  <2>1. CASE d # c
    BY <1>1, <2>1 DEF BookInv, SentIsRegistered, Active
  <2>2. CASE d = c
    <3>1. Advance(c) /\ op'[c] = op[c] + 1 /\ pc'[c] = "running"
      BY <1>1, <2>2 DEF Active
    <3>2. j \in Int /\ op[c] \in Int /\ Plan[c][j].op = "send_request"
      BY <2>2, PlanFacts DEF SendOps, TypeInv, TypeOK
    <3>3. j < op[c] \/ j = op[c]
      BY <2>2, <3>1, <3>2
    <3>4. j = op[c] => pc[c] = "sending"
      BY <3>1, <3>2, RaiseType DEF Current
    <3> QED
      BY <2>2, <3>3, <3>4 DEF BookInv, SentIsRegistered
  <2> QED
    BY <2>1, <2>2
<1> QED
  BY <1>2, <1>3, <1>4 DEF BookInv
LEMMA OpsBook ==
  ASSUME TypeInv, BookInv, NEW c \in Calls,
         \/ StartSessionOp(c) \/ GetServiceOp(c) \/ AppendOp(c) \/ SendUnknown(c)
         \/ SendRequest(c) \/ SendRaises(c) \/ CollectRaises(c) \/ Receive(c)
  PROVE  BookInv'
<1>1. CASE StartSessionOp(c) \/ GetServiceOp(c) \/ AppendOp(c) \/ SendUnknown(c)
  <2>1. Active(c) /\ UNCHANGED <<link, table, registered, queue>>
    BY <1>1 DEF StartSessionOp, GetServiceOp, AppendOp, SendUnknown, Running, Active, session
  <2>2. \/ Advance(c) /\ Current(c).op # "send_request"
        \/ Raise(c)
    BY <1>1 DEF StartSessionOp, GetServiceOp, AppendOp, SendUnknown, Running, Current
  <2> QED
    BY <2>1, <2>2, EndOfOpBook
<1>2. CASE SendRequest(c) \/ SendRaises(c) \/ CollectRaises(c)
  <2>1. Active(c) /\ UNCHANGED <<link, table, registered, queue>>
    BY <1>2 DEF SendRequest, SendRaises, CollectRaises, MayRaise, Active, session, locals
  <2>2. \/ Advance(c) /\ pc[c] = "sending"
        \/ Raise(c)
    BY <1>2 DEF SendRequest, SendRaises, CollectRaises
  <2> QED
    BY <2>1, <2>2, EndOfOpBook
<1>3. CASE Receive(c)
  <2>1. Active(c) /\ UNCHANGED <<link, table, registered, queue>>
    BY <1>3 DEF Receive, Active, session
  <2>2. Current(c).op # "send_request"
    BY <1>3 DEF Receive, TypeInv, OpsInPlan
  <2>3. Advance(c) \/ UNCHANGED <<pc, op>>
    BY <1>3, ReceiveTakes DEF Takes
  <2>4. CASE UNCHANGED <<pc, op>>
    BY <2>1, <2>4 DEF BookInv, IdleAtStart, DoneIsClean, RegisteredBySend, SentIsRegistered,
                      TableIsOwned, CollectorIsRegistered, Current, Active
  <2> QED
    BY <2>1, <2>2, <2>3, <2>4, EndOfOpBook
<1> QED
  BY <1>1, <1>2, <1>3

(* Two calls never name the same cid.                                      *)
LEMMA CidsApart ==
  ASSUME OwnCids, NEW c \in Calls, NEW d \in Calls, NEW i \in DOMAIN Plan[c], NEW j \in DOMAIN Plan[d],
         Plan[c][i].op \in {"send_request", "collect_response"},
         Plan[d][j].op \in {"send_request", "collect_response"},
         Plan[c][i].cid = Plan[d][j].cid
  PROVE  c = d
BY DEF OwnCids, Uses, SendOps, CollectOps

LEMMA SendRegisterBook ==
  ASSUME OwnCids, TypeInv, BookInv, NEW c \in Calls, SendRegister(c)
  PROVE  BookInv'
<1> DEFINE i == Plan[c][op[c]].cid
<1>1. op[c] \in DOMAIN Plan[c] /\ Plan[c][op[c]].op = "send_request" /\ i \in Cids
      /\ op[c] \in SendOps(c) /\ pc[c] = "running"
  BY PlanFacts DEF SendRegister, Running, TypeInv, OpsInPlan, SendOps
<1>2. RegisterQueue(i)
  BY DEF SendRegister, Current
<1>3. table' = [table EXCEPT ![i] = Len(content) + 1] /\ table \in [Cids -> DOMAIN content \cup {NoQueue}]
  BY <1>1, <1>2, RegisterType DEF TypeInv, TypeOK
<1>4. /\ registered' = [registered EXCEPT ![c] = registered[c] \cup {i}]
      /\ pc' = [pc EXCEPT ![c] = "sending"]
      /\ UNCHANGED <<link, op, queue>>
  BY DEF SendRegister, session, Current
<1>5. /\ registered \in [Calls -> SUBSET Cids] /\ pc \in [Calls -> Phases]
  BY DEF TypeInv, TypeOK, Phases
<1>6. IdleAtStart' /\ DoneIsClean'
  BY <1>4, <1>5 DEF BookInv, IdleAtStart, DoneIsClean
<1>7. RegisteredBySend'
  BY <1>1, <1>4, <1>5 DEF BookInv, RegisteredBySend
<1>8. SentIsRegistered'
  <2> SUFFICES ASSUME NEW d \in Calls, Active(d)', NEW j \in SendOps(d),
                      (j < op[d] \/ (pc[d] = "sending" /\ j = op[d]))'
               PROVE  Plan[d][j].cid \in registered'[d]
    BY DEF SentIsRegistered
  <2>1. CASE d # c
    BY <1>4, <1>5, <2>1 DEF BookInv, SentIsRegistered, Active
  <2>2. CASE d = c /\ j = op[c]
    BY <1>4, <1>5, <2>2
  <2>3. CASE d = c /\ j < op[c]
    BY <1>1, <1>4, <1>5, <2>3 DEF BookInv, SentIsRegistered, Active
  <2> QED
    BY <1>4, <2>1, <2>2, <2>3
<1>9. TableIsOwned'
  BY <1>1, <1>3, <1>4, <1>5 DEF BookInv, TableIsOwned
<1>10. CollectorIsRegistered'
  <2> SUFFICES ASSUME NEW d \in Calls, pc'[d] = "collecting", link' # "stopped"
               PROVE  table'[Plan[d][op'[d]].cid] = queue'[d]
    BY DEF CollectorIsRegistered, Current
  <2>1. d # c /\ pc[d] = "collecting" /\ link # "stopped"
    BY <1>4, <1>5
  <2>2. op[d] \in DOMAIN Plan[d] /\ Plan[d][op[d]].op = "collect_response"
        /\ Plan[d][op[d]].cid \in Cids
    BY <2>1, PlanFacts DEF TypeInv, OpsInPlan, Current
  <2>3. Plan[d][op[d]].cid # i
    BY <1>1, <2>1, <2>2, CidsApart
  <2>4. table[Plan[d][op[d]].cid] = queue[d]
    BY <2>1 DEF BookInv, CollectorIsRegistered, Current
  <2> HIDE DEF i
  <2> QED
    BY <1>3, <1>4, <2>2, <2>3, <2>4
<1> QED
  BY <1>6, <1>7, <1>8, <1>9, <1>10 DEF BookInv

(* A collect registers a queue that the finally clause knows of, because   *)
(* its cid has been sent before.                                           *)
LEMMA CollectRegisterBook ==
  ASSUME OwnCids, CollectsSent, TypeInv, BookInv, NEW c \in Calls, CollectRegister(c)
  PROVE  BookInv'
<1> DEFINE i == Plan[c][op[c]].cid
<1>1. op[c] \in DOMAIN Plan[c] /\ Plan[c][op[c]].op = "collect_response" /\ i \in Cids
      /\ op[c] \in CollectOps(c) /\ pc[c] = "running"
  BY PlanFacts DEF CollectRegister, Running, TypeInv, OpsInPlan, CollectOps
<1>2. RegisterQueue(i)
  BY DEF CollectRegister, CollectQueue, Current
<1>3. table' = [table EXCEPT ![i] = Len(content) + 1] /\ table \in [Cids -> DOMAIN content \cup {NoQueue}]
  BY <1>1, <1>2, RegisterType DEF TypeInv, TypeOK
<1>4. /\ queue' = [queue EXCEPT ![c] = Len(content) + 1]
      /\ pc' = [pc EXCEPT ![c] = "collecting"]
      /\ UNCHANGED <<link, op, registered>>
  BY DEF CollectRegister, session
<1>5. /\ pc \in [Calls -> Phases] /\ queue \in [Calls -> DOMAIN content \cup {NoQueue}]
  BY DEF TypeInv, TypeOK, Phases
<1>6. IdleAtStart' /\ DoneIsClean' /\ RegisteredBySend'
  BY <1>4, <1>5 DEF BookInv, IdleAtStart, DoneIsClean, RegisteredBySend
<1>7. SentIsRegistered'
  <2> SUFFICES ASSUME NEW d \in Calls, Active(d)', NEW j \in SendOps(d),
                      (j < op[d] \/ (pc[d] = "sending" /\ j = op[d]))'
               PROVE  Plan[d][j].cid \in registered'[d]
    BY DEF SentIsRegistered
  <2>1. Active(d) /\ (j < op[d] \/ (pc[d] = "sending" /\ j = op[d]))
    BY <1>1, <1>4, <1>5 DEF Active
  <2> QED
    BY <1>4, <2>1 DEF BookInv, SentIsRegistered
<1>8. i \in registered[c]
  <2>1. PICK j \in SendOps(c) : j < op[c] /\ Plan[c][j].cid = i
    BY <1>1 DEF CollectsSent
  <2> QED
    BY <1>1, <2>1 DEF BookInv, SentIsRegistered, Active
<1>9. TableIsOwned'
  <2> HIDE DEF i
  <2> QED
    BY <1>1, <1>3, <1>4, <1>8 DEF BookInv, TableIsOwned
<1>10. CollectorIsRegistered'
  <2> SUFFICES ASSUME NEW d \in Calls, pc'[d] = "collecting", link' # "stopped"
               PROVE  table'[Plan[d][op'[d]].cid] = queue'[d]
    BY DEF CollectorIsRegistered, Current
  <2>1. CASE d = c
    BY <1>1, <1>3, <1>4, <1>5, <2>1
  <2>2. CASE d # c
    <3>1. pc[d] = "collecting" /\ link # "stopped"
      BY <1>4, <1>5, <2>2
    <3>2. op[d] \in DOMAIN Plan[d] /\ Plan[d][op[d]].op = "collect_response"
          /\ Plan[d][op[d]].cid \in Cids
      BY <3>1, PlanFacts DEF TypeInv, OpsInPlan, Current
    <3>3. Plan[d][op[d]].cid # i
      BY <1>1, <2>2, <3>2, CidsApart
    <3>4. table[Plan[d][op[d]].cid] = queue[d]
      BY <3>1 DEF BookInv, CollectorIsRegistered, Current
    <3> HIDE DEF i
    <3> QED
      BY <1>3, <1>4, <1>5, <2>2, <3>2, <3>3, <3>4
  <2> QED
    BY <2>1, <2>2
<1> QED
  BY <1>6, <1>7, <1>9, <1>10 DEF BookInv

LEMMA EndBook ==
  ASSUME OwnCids, TypeInv, BookInv, NEW c \in Calls, Begin(c) \/ Unregister(c) \/ Return(c)
  PROVE  BookInv'
<1>0. /\ pc \in [Calls -> Phases] /\ registered \in [Calls -> SUBSET Cids]
      /\ table \in [Cids -> DOMAIN content \cup {NoQueue}]
  BY DEF TypeInv, TypeOK, Phases
<1>1. CASE Begin(c)
  <2>1. /\ pc[c] = "idle" /\ pc' = [pc EXCEPT ![c] = "running"]
        /\ UNCHANGED <<link, table, op, registered, queue>>
    BY <1>1 DEF Begin, session, locals
  <2>2. IdleAtStart' /\ DoneIsClean' /\ RegisteredBySend' /\ TableIsOwned'
    BY <1>0, <2>1 DEF BookInv, IdleAtStart, DoneIsClean, RegisteredBySend, TableIsOwned
  <2>3. CollectorIsRegistered'
    BY <1>0, <2>1 DEF BookInv, CollectorIsRegistered, Current
  <2>4. SentIsRegistered'
    <3>1. op[c] = 1 /\ \A j \in SendOps(c) : j \in Nat \ {0}
      BY <2>1, PlanFacts DEF BookInv, IdleAtStart, SendOps
    <3> QED
      BY <1>0, <2>1, <3>1 DEF BookInv, SentIsRegistered, Active
  <2> QED
    BY <2>2, <2>3, <2>4 DEF BookInv
<1>2. CASE Unregister(c)
  <2>1. PICK i \in registered[c] : /\ UnregisterQueue(i)
                                   /\ registered' = [registered EXCEPT ![c] = registered[c] \ {i}]
    BY <1>2 DEF Unregister
  <2>2. /\ pc[c] = "closing" /\ table' = [table EXCEPT ![i] = NoQueue]
        /\ UNCHANGED <<link, pc, op, queue>>
    BY <1>2, <2>1 DEF Unregister, UnregisterQueue, session
  <2>3. IdleAtStart' /\ DoneIsClean' /\ RegisteredBySend' /\ SentIsRegistered'
    BY <1>0, <2>1, <2>2 DEF BookInv, IdleAtStart, DoneIsClean, RegisteredBySend,
                            SentIsRegistered, Active
  <2>4. TableIsOwned'
    BY <1>0, <2>1, <2>2 DEF BookInv, TableIsOwned
  <2>5. CollectorIsRegistered'
    <3> SUFFICES ASSUME NEW d \in Calls, pc'[d] = "collecting", link' # "stopped"
                 PROVE  table'[Plan[d][op'[d]].cid] = queue'[d]
      BY DEF CollectorIsRegistered, Current
    <3>1. pc[d] = "collecting" /\ link # "stopped" /\ d # c
      BY <2>2
    <3>2. op[d] \in DOMAIN Plan[d] /\ Plan[d][op[d]].op = "collect_response"
          /\ Plan[d][op[d]].cid \in Cids
      BY <3>1, PlanFacts DEF TypeInv, OpsInPlan, Current
    <3>3. PICK j \in SendOps(c) : Plan[c][j].cid = i
      BY <2>1 DEF BookInv, RegisteredBySend
    <3>4. Plan[d][op[d]].cid # i
      BY <3>1, <3>2, <3>3, CidsApart DEF SendOps
    <3>5. table[Plan[d][op[d]].cid] = queue[d]
      BY <3>1 DEF BookInv, CollectorIsRegistered, Current
    <3> QED
      BY <1>0, <2>2, <3>2, <3>4, <3>5
  <2> QED
    BY <2>3, <2>4, <2>5 DEF BookInv
<1>3. CASE Return(c)
  <2>1. /\ registered[c] = {} /\ pc' = [pc EXCEPT ![c] = "done"]
        /\ UNCHANGED <<link, table, op, registered, queue>>
    BY <1>3 DEF Return, Cleaned, session, locals
  <2> QED
    BY <1>0, <2>1 DEF BookInv, IdleAtStart, DoneIsClean, RegisteredBySend, SentIsRegistered,
                      TableIsOwned, CollectorIsRegistered, Active, Current
<1> QED
  BY <1>1, <1>2, <1>3

LEMMA BookInit == Init => BookInv
BY DEF Init, BookInv, IdleAtStart, DoneIsClean, RegisteredBySend, SentIsRegistered,
       TableIsOwned, CollectorIsRegistered, Active

LEMMA BookStep ==
  ASSUME OwnCids, CollectsSent, TypeInv, BookInv, [Next]_vars
  PROVE  BookInv'
<1>1. ASSUME NEW c \in Calls, Begin(c) \/ CallStep(c) PROVE BookInv'
  BY <1>1, OpsBook, SendRegisterBook, CollectRegisterBook, EndBook DEF CallStep
<1>2. CASE UNCHANGED <<link, table, pc, op, registered, queue>>
  BY <1>2 DEF BookInv, IdleAtStart, DoneIsClean, RegisteredBySend, SentIsRegistered,
              TableIsOwned, CollectorIsRegistered, Active, Current
<1>3. CASE SessionLost \/ SessionReplaced \/ ManagerStopped
  <2>1. UNCHANGED <<pc, op, registered, queue>>
    BY <1>3 DEF SessionLost, SessionReplaced, ManagerStopped, locals
  <2>2. \/ table' = table /\ link # "stopped"
        \/ link' = "stopped" /\ table' = [i \in Cids |-> NoQueue]
    BY <1>3 DEF SessionLost, SessionReplaced, ManagerStopped
  <2> QED
    BY <2>1, <2>2 DEF BookInv, IdleAtStart, DoneIsClean, RegisteredBySend, SentIsRegistered,
                      TableIsOwned, CollectorIsRegistered, Active, Current
<1>4. CASE (\E r \in Requests : AnswerArrives(r)) \/ Put \/ UNCHANGED vars
  <2>1. UNCHANGED <<link, table, pc, op, registered, queue>>
    BY <1>4 DEF AnswerArrives, Put, vars, session, locals
  <2> QED
    BY <2>1, <1>2
<1> QED
  BY <1>1, <1>3, <1>4 DEF Next
-----------------------------------------------------------------------------
(* The requests a call has created: a send op finds only what an op before *)
(* it made                                                                 *)

CreatedBy(c, i, n) == \E k \in DOMAIN Plan[c] :
                        k <= n /\ Plan[c][k].op = "create_request" /\ Plan[c][k].id = i

BuiltInPlan ==
  \A c \in Calls : /\ \A i \in built[c] : CreatedBy(c, i, op[c])
                   /\ pc[c] = "sending" => Current(c).id \in built[c]

(* What a step may do to the requests built and to the op of a call.       *)
BuildsOn(d) ==
  /\ op'[d] = op[d] \/ op'[d] = op[d] + 1
  /\ \A i \in built'[d] : i \in built[d] \/ (Current(d).op = "create_request" /\ i = Current(d).id)
  /\ pc'[d] = "sending" => op'[d] = op[d] /\ Current(d).id \in built'[d]

LEMMA BuildsOnSuffices ==
  ASSUME TypeInv, BuiltInPlan, \A d \in Calls : BuildsOn(d)
  PROVE  BuiltInPlan'
<1> SUFFICES ASSUME NEW d \in Calls
             PROVE  /\ \A i \in built'[d] : CreatedBy(d, i, op'[d])
                    /\ pc'[d] = "sending" => Current(d)'.id \in built'[d]
  BY DEF BuiltInPlan, CreatedBy
<1>1. /\ op[d] \in DOMAIN Plan[d] /\ op[d] \in Int
      /\ \A k \in DOMAIN Plan[d] : k \in Int
  BY PlanFacts DEF TypeInv, TypeOK, OpsInPlan
<1>2. /\ op'[d] = op[d] \/ op'[d] = op[d] + 1
      /\ \A i \in built'[d] : i \in built[d] \/ (Current(d).op = "create_request" /\ i = Current(d).id)
      /\ pc'[d] = "sending" => op'[d] = op[d] /\ Current(d).id \in built'[d]
  BY DEF BuildsOn
<1>3. ASSUME NEW i \in built'[d] PROVE CreatedBy(d, i, op'[d])
  <2>1. CreatedBy(d, i, op[d])
    BY <1>1, <1>2 DEF BuiltInPlan, CreatedBy, Current
  <2> QED
    BY <1>1, <1>2, <2>1 DEF CreatedBy
<1> QED
  BY <1>2, <1>3 DEF Current

LEMMA BuiltStep ==
  ASSUME TypeInv, BuiltInPlan, [Next]_vars
  PROVE  BuiltInPlan'
<1>1. /\ op \in [Calls -> Nat] /\ built \in [Calls -> SUBSET Ids]
      /\ pc \in [Calls -> {"idle", "running", "sending", "collecting", "closing", "done"}]
      /\ \A d \in Calls : pc[d] = "sending" => Current(d).id \in built[d]
  BY DEF TypeInv, TypeOK, BuiltInPlan
<1>2. ASSUME NEW c \in Calls, Advance(c) \/ Raise(c),
             \/ built' = built
             \/ Current(c).op = "create_request" /\ built' = [built EXCEPT ![c] = built[c] \cup {Current(c).id}]
      PROVE  BuiltInPlan'
  <2>1. /\ \A d \in Calls \ {c} : pc'[d] = pc[d] /\ op'[d] = op[d]
        /\ op'[c] = op[c] \/ op'[c] = op[c] + 1
        /\ pc'[c] \in {"running", "closing"}
    BY <1>2, AdvanceType, AdvanceMoves, RaiseType
  <2> QED
    BY <1>1, <1>2, <2>1, BuildsOnSuffices DEF BuildsOn
<1>3. ASSUME UNCHANGED <<op, built>>, \A d \in Calls : pc'[d] = "sending" => Current(d).id \in built[d]
      PROVE  BuiltInPlan'
  BY <1>3, BuildsOnSuffices DEF BuildsOn
<1>4. ASSUME NEW c \in Calls, CallStep(c) PROVE BuiltInPlan'
  <2>1. CASE \/ StartSessionOp(c) \/ AppendOp(c) \/ SendUnknown(c) \/ SendRequest(c)
             \/ SendRaises(c) \/ CollectRaises(c)
    BY <1>2, <2>1 DEF StartSessionOp, AppendOp, SendUnknown, SendRequest, SendRaises, CollectRaises,
                      locals
  <2>2. CASE GetServiceOp(c)
    BY <1>2, <2>2 DEF GetServiceOp
  <2>3. CASE SendRegister(c)
    <3>1. Current(c).id \in built[c] /\ pc' = [pc EXCEPT ![c] = "sending"] /\ UNCHANGED <<op, built>>
      BY <2>3 DEF SendRegister
    <3> QED
      BY <1>1, <1>3, <3>1
  <2>4. CASE Receive(c)
    <3>1. built' = built /\ (Advance(c) \/ UNCHANGED <<pc, op>>)
      BY <2>4 DEF Receive
    <3> QED
      BY <1>1, <1>2, <1>3, <3>1
  <2>5. CASE CollectRegister(c) \/ Unregister(c) \/ Return(c)
    <3>1. /\ UNCHANGED <<op, built>>
          /\ pc' = pc \/ pc' = [pc EXCEPT ![c] = "collecting"] \/ pc' = [pc EXCEPT ![c] = "done"]
      BY <2>5 DEF CollectRegister, Unregister, Return, locals
    <3> QED
      BY <1>1, <1>3, <3>1
  <2> QED
    BY <1>4, <2>1, <2>2, <2>3, <2>4, <2>5 DEF CallStep
<1>5. ASSUME NEW c \in Calls, Begin(c) PROVE BuiltInPlan'
  <2>1. UNCHANGED <<op, built>> /\ pc' = [pc EXCEPT ![c] = "running"]
    BY <1>5 DEF Begin, locals
  <2> QED
    BY <1>1, <1>3, <2>1
<1>6. CASE \/ (\E r \in Requests : AnswerArrives(r)) \/ Put \/ UNCHANGED vars
           \/ SessionLost \/ SessionReplaced \/ ManagerStopped
  <2>1. UNCHANGED <<pc, op, built>>
    BY <1>6 DEF AnswerArrives, Put, SessionLost, SessionReplaced, ManagerStopped, vars, locals
  <2> QED
    BY <1>1, <1>3, <2>1
<1> QED
  BY <1>4, <1>5, <1>6 DEF Next

(* So what is sent was made before.                                        *)
LEMMA SendIsMakeable ==
  ASSUME TypeInv, BuiltInPlan, NEW c \in Calls, SendRequest(c)
  PROVE  Makeable(c, op[c])
<1>1. /\ Plan[c][op[c]].op = "send_request" /\ Plan[c][op[c]].id \in built[c]
      /\ op[c] \in DOMAIN Plan[c] /\ op[c] \in Int
      /\ \A k \in DOMAIN Plan[c] : k \in Int
  BY PlanFacts DEF SendRequest, TypeInv, TypeOK, OpsInPlan, BuiltInPlan, Current
<1>2. PICK k \in DOMAIN Plan[c] : /\ k <= op[c] /\ Plan[c][k].op = "create_request"
                                  /\ Plan[c][k].id = Plan[c][op[c]].id
  BY <1>1 DEF BuiltInPlan, CreatedBy
<1>3. k < op[c]
  BY <1>1, <1>2
<1> QED
  BY <1>2, <1>3 DEF Makeable

-----------------------------------------------------------------------------
(* The routing: every queue has one cid, of which all its messages are     *)

Sent(r) == /\ Makeable(r[1], r[2])
           /\ r[2] < op[r[1]] \/ pc[r[1]] \in {"closing", "done"}

Issued == {r \in Requests : Sent(r)}

Answers(i, R) == {m \in Message : CidOf(m.req) = i /\ m.req \in R}
Normals(i, R) == {m \in Normalized : CidOf(m.req) = i /\ m.req \in R}

(* f[q] is the cid the queue q was registered for.                         *)
Routes(f) ==
  /\ f \in [DOMAIN content -> Cids]
  /\ \A i \in Cids : table[i] # NoQueue => f[table[i]] = i
  /\ \A c \in Calls : pc[c] = "collecting" => f[queue[c]] = Current(c).cid
  /\ dispatching # Idle => dispatching.msg \in Answers(f[dispatching.q], Issued)
  /\ \A q \in DOMAIN content : content[q] \in Seq(Answers(f[q], Issued))

MergedIsOwn == \A c \in Calls : IF pc[c] = "collecting" THEN merged[c] \in Seq(Normals(Current(c).cid, Issued))
                                                        ELSE merged[c] = <<>>

DataIsOwn == \A c \in Calls : data[c] \in Seq({m \in Normalized : m.req[1] = c})

OutstandingIsSent == \A r \in outstanding : Sent(r)

RouteInv == (\E f : Routes(f)) /\ MergedIsOwn /\ DataIsOwn /\ OutstandingIsSent

(* A request that has been sent stays sent.                                *)
LEMMA SentGrows ==
  ASSUME TypeInv, NEW r \in Requests, Sent(r),
         \A d \in Calls : \/ pc'[d] = pc[d] /\ op'[d] = op[d]
                          \/ pc[d] \notin {"closing", "done"} /\ op'[d] \in {op[d], op[d] + 1}
                          \/ pc'[d] \in {"closing", "done"}
  PROVE  Sent(r)'
<1>1. r[1] \in Calls /\ r[2] \in Int
  BY RequestFacts, PlanFacts DEF SendOps
<1>2. op[r[1]] \in Int
  BY <1>1 DEF TypeInv, TypeOK
<1>3. CASE r[2] < op[r[1]] /\ pc[r[1]] \notin {"closing", "done"}
  BY <1>1, <1>2, <1>3 DEF Sent
<1>4. CASE pc[r[1]] \in {"closing", "done"}
  BY <1>1, <1>4 DEF Sent
<1>5. CASE r[2] < op[r[1]] /\ pc'[r[1]] = pc[r[1]] /\ op'[r[1]] = op[r[1]]
  BY <1>5 DEF Sent
<1> QED
  BY <1>3, <1>4, <1>5 DEF Sent

(* Every step keeps what is sent, and only a send makes a new request.     *)
Keeps == /\ \A r \in Requests : Sent(r) => Sent(r)'
         /\ \A r \in outstanding' : r \in outstanding \/ (~ Sent(r) /\ Sent(r)')

LEMMA KeepsWhenIdle ==
  ASSUME UNCHANGED <<pc, op>>, outstanding' \subseteq outstanding
  PROVE  Keeps
BY DEF Keeps, Sent

LEMMA EndOfOpKeeps ==
  ASSUME TypeInv, NEW c \in Calls, Active(c), Advance(c) \/ Raise(c),
         \/ outstanding' \subseteq outstanding
         \/ /\ outstanding' = outstanding \cup {<<c, op[c]>>} /\ <<c, op[c]>> \in Requests
            /\ Advance(c) /\ Makeable(c, op[c])
  PROVE  Keeps
<1>1. /\ \A d \in Calls \ {c} : pc'[d] = pc[d] /\ op'[d] = op[d]
      /\ \/ Advance(c) /\ op'[c] = op[c] + 1 /\ pc'[c] = "running"
         \/ op'[c] = op[c] /\ pc'[c] = "closing"
  BY AdvanceType, AdvanceMoves, RaiseType
<1>2. \A r \in Requests : Sent(r) => Sent(r)'
  <2> TAKE r \in Requests
  <2> HAVE Sent(r)
  <2> QED
    BY <1>1, SentGrows DEF Active
<1>3. ASSUME NEW r \in Requests, r = <<c, op[c]>>, Advance(c), Makeable(c, op[c])
      PROVE  ~ Sent(r) /\ Sent(r)'
  <2>1. op[c] \in Nat /\ r[1] = c /\ r[2] = op[c]
    BY <1>3 DEF TypeInv, TypeOK
  <2> QED
    BY <1>1, <1>3, <2>1, RaiseType DEF Sent, Active
<1> QED
  BY <1>2, <1>3 DEF Keeps

LEMMA KeepsStep ==
  ASSUME TypeInv, BuiltInPlan, [Next]_vars
  PROVE  Keeps
<1>1. ASSUME NEW c \in Calls, CallStep(c) PROVE Keeps
  <2>1. CASE \/ StartSessionOp(c) \/ GetServiceOp(c) \/ AppendOp(c) \/ SendUnknown(c)
             \/ SendRaises(c) \/ CollectRaises(c)
    <3>1. Active(c) /\ (Advance(c) \/ Raise(c)) /\ outstanding' = outstanding
      BY <2>1 DEF StartSessionOp, GetServiceOp, AppendOp, SendUnknown, SendRaises,
                  CollectRaises, MayRaise, Running, Active, dispatch
    <3> QED
      BY <3>1, EndOfOpKeeps
  <2>2. CASE SendRequest(c)
    <3>1. Active(c) /\ Advance(c)
      BY <2>2 DEF SendRequest, Active
    <3>2. op[c] \in DOMAIN Plan[c] /\ Plan[c][op[c]].op = "send_request"
      BY <2>2 DEF SendRequest, TypeInv, OpsInPlan, Current
    <3>3. <<c, op[c]>> \in Requests
      BY <3>2, SendIsRequest
    <3>4. outstanding' = outstanding \/ outstanding' = outstanding \cup {<<c, op[c]>>}
      BY <2>2 DEF SendRequest
    <3> QED
      BY <2>2, <3>1, <3>3, <3>4, SendIsMakeable, EndOfOpKeeps
  <2>3. CASE Receive(c)
    <3>1. Active(c) /\ outstanding' = outstanding /\ (Advance(c) \/ UNCHANGED <<pc, op>>)
      BY <2>3 DEF Receive, Active, dispatch
    <3> QED
      BY <3>1, EndOfOpKeeps, KeepsWhenIdle
  <2>4. CASE SendRegister(c) \/ CollectRegister(c)
    <3>1. /\ pc[c] = "running" /\ op' = op /\ outstanding' = outstanding
          /\ \A d \in Calls \ {c} : pc'[d] = pc[d]
      BY <2>4 DEF SendRegister, CollectRegister, Running, TypeInv, TypeOK, dispatch
    <3>2. \A r \in Requests : Sent(r) => Sent(r)'
      BY <3>1, RequestFacts DEF Sent
    <3> QED
      BY <3>1, <3>2 DEF Keeps
  <2>5. CASE Unregister(c)
    BY <2>5, KeepsWhenIdle DEF Unregister, dispatch
  <2>6. CASE Return(c)
    <3>1. /\ op' = op /\ outstanding' = outstanding /\ pc'[c] = "done"
          /\ \A d \in Calls \ {c} : pc'[d] = pc[d]
      BY <2>6 DEF Return, TypeInv, TypeOK, dispatch
    <3>2. \A r \in Requests : Sent(r) => Sent(r)'
      BY <3>1, RequestFacts DEF Sent
    <3> QED
      BY <3>1, <3>2 DEF Keeps
  <2> QED
    BY <1>1, <2>1, <2>2, <2>3, <2>4, <2>5, <2>6 DEF CallStep
<1>2. ASSUME NEW c \in Calls, Begin(c) PROVE Keeps
  <2>1. /\ pc[c] = "idle" /\ op' = op /\ outstanding' = outstanding
        /\ \A d \in Calls \ {c} : pc'[d] = pc[d]
    BY <1>2 DEF Begin, TypeInv, TypeOK, dispatch
  <2>2. \A r \in Requests : Sent(r) => Sent(r)'
    BY <2>1, RequestFacts DEF Sent
  <2> QED
    BY <2>1, <2>2 DEF Keeps
<1>3. CASE \/ (\E r \in Requests : AnswerArrives(r)) \/ Put \/ UNCHANGED vars
           \/ SessionLost \/ SessionReplaced \/ ManagerStopped
  <2>1. UNCHANGED <<pc, op>>
    BY <1>3 DEF AnswerArrives, Put, SessionLost, SessionReplaced, ManagerStopped, vars
  <2>2. outstanding' \subseteq outstanding
    BY <1>3 DEF AnswerArrives, Put, SessionLost, SessionReplaced, ManagerStopped, vars, dispatch
  <2> QED
    BY <2>1, <2>2, KeepsWhenIdle
<1> QED
  BY <1>1, <1>2, <1>3 DEF Next
LEMMA AnswersGrow ==
  ASSUME Keeps, NEW i
  PROVE  /\ Answers(i, Issued) \subseteq Answers(i, Issued')
         /\ \A s \in Seq(Answers(i, Issued)) : s \in Seq(Answers(i, Issued'))
         /\ \A s \in Seq(Normals(i, Issued)) : s \in Seq(Normals(i, Issued'))
<1>1. Issued \subseteq Issued'
  BY DEF Keeps, Issued
<1>2. Answers(i, Issued) \subseteq Answers(i, Issued')
  BY <1>1 DEF Answers
<1>3. Normals(i, Issued) \subseteq Normals(i, Issued')
  BY <1>1 DEF Normals
<1>4. \A s \in Seq(Normals(i, Issued)) : s \in Seq(Normals(i, Issued'))
  BY <1>3, SeqMonotonic
<1> QED
  BY <1>2, <1>4, SeqMonotonic

LEMMA SentKept ==
  ASSUME Keeps, OutstandingIsSent, outstanding \subseteq Requests
  PROVE  OutstandingIsSent'
BY DEF Keeps, OutstandingIsSent

(* Steps that leave the queues and what is in them alone: a registration   *)
(* may go, a collect may end, nothing else is received.                    *)
Quiet ==
  /\ UNCHANGED <<content, parts, dispatching, queue, data>>
  /\ \A i \in Cids : table'[i] \in {table[i], NoQueue}
  /\ \A d \in Calls : IF pc'[d] = "collecting"
                        THEN pc[d] = "collecting" /\ op'[d] = op[d] /\ merged'[d] = merged[d]
                        ELSE merged'[d] = <<>>

LEMMA QuietRoutes ==
  ASSUME TypeInv, RouteInv, Quiet, Keeps
  PROVE  RouteInv'
<1>1. PICK f : Routes(f)
  BY DEF RouteInv
<1>2. Routes(f)'
  <2>1. f \in [DOMAIN content' -> Cids] /\ (\A i \in Cids : table'[i] # NoQueue => f[table'[i]] = i)
    BY <1>1 DEF Routes, Quiet
  <2>2. \A c \in Calls : pc'[c] = "collecting" => f[queue'[c]] = Current(c)'.cid
    BY <1>1 DEF Routes, Quiet, Current
  <2>3. dispatching' # Idle => dispatching'.msg \in Answers(f[dispatching'.q], Issued')
    BY <1>1, AnswersGrow DEF Routes, Quiet
  <2>4. \A q \in DOMAIN content' : content'[q] \in Seq(Answers(f[q], Issued'))
    BY <1>1, AnswersGrow DEF Routes, Quiet
  <2> QED
    BY <2>1, <2>2, <2>3, <2>4 DEF Routes
<1>3. MergedIsOwn'
  <2> SUFFICES ASSUME NEW d \in Calls, pc'[d] = "collecting"
               PROVE  merged'[d] \in Seq(Normals(Plan[d][op'[d]].cid, Issued'))
    BY DEF MergedIsOwn, Quiet, Current
  <2>1. pc[d] = "collecting" /\ op'[d] = op[d] /\ merged'[d] = merged[d]
    BY DEF Quiet
  <2>2. merged[d] \in Seq(Normals(Plan[d][op[d]].cid, Issued))
    BY <2>1 DEF RouteInv, MergedIsOwn, Current
  <2> QED
    BY <2>1, <2>2, AnswersGrow
<1>4. DataIsOwn'
  BY DEF RouteInv, DataIsOwn, Quiet
<1>5. OutstandingIsSent'
  BY SentKept DEF RouteInv, TypeInv, TypeOK
<1> QED
  BY <1>2, <1>3, <1>4, <1>5 DEF RouteInv
LEMMA QuietSteps ==
  ASSUME TypeInv, MergedIsOwn, NEW c \in Calls,
         \/ Begin(c) \/ StartSessionOp(c) \/ GetServiceOp(c) \/ AppendOp(c) \/ SendUnknown(c)
         \/ SendRequest(c) \/ SendRaises(c) \/ CollectRaises(c) \/ Unregister(c) \/ Return(c)
  PROVE  Quiet
<1>1. /\ pc \in [Calls -> Phases] /\ merged \in [Calls -> Seq(Normalized)]
      /\ table \in [Cids -> DOMAIN content \cup {NoQueue}]
  BY DEF TypeInv, TypeOK, Phases
<1>2. UNCHANGED <<content, parts, dispatching, queue, data>>
  BY DEF Begin, StartSessionOp, GetServiceOp, AppendOp, SendUnknown, SendRequest, SendRaises,
         CollectRaises, Unregister, Return, dispatch, locals
<1>3. \A i \in Cids : table'[i] \in {table[i], NoQueue}
  <2>1. CASE Unregister(c)
    <3>1. PICK i \in registered[c] : table' = [table EXCEPT ![i] = NoQueue]
      BY <2>1 DEF Unregister, UnregisterQueue
    <3> QED
      BY <1>1, <3>1
  <2>2. CASE UNCHANGED table
    BY <2>2
  <2> QED
    BY <2>1, <2>2 DEF Begin, StartSessionOp, GetServiceOp, AppendOp, SendUnknown, SendRequest,
                      SendRaises, CollectRaises, Return
<1>4. /\ \A d \in Calls \ {c} : pc'[d] = pc[d] /\ op'[d] = op[d] /\ merged'[d] = merged[d]
      /\ pc'[c] # "collecting" /\ merged'[c] = <<>>
  <2>1. CASE Begin(c) \/ Unregister(c) \/ Return(c)
    BY <1>1, <2>1 DEF Begin, Unregister, Return, Cleaned, locals, MergedIsOwn
  <2>2. CASE \/ StartSessionOp(c) \/ GetServiceOp(c) \/ AppendOp(c) \/ SendUnknown(c)
             \/ SendRequest(c) \/ SendRaises(c)
    <3>1. /\ Advance(c) \/ Raise(c)
          /\ pc[c] # "collecting" /\ merged' = merged
      BY <2>2 DEF StartSessionOp, GetServiceOp, AppendOp, SendUnknown, SendRequest, SendRaises,
                  Running, locals
    <3>2. merged[c] = <<>>
      BY <3>1 DEF MergedIsOwn
    <3> QED
      BY <3>1, <3>2, AdvanceType, RaiseType
  <2>3. CASE CollectRaises(c)
    <3>1. Raise(c) /\ merged' = [merged EXCEPT ![c] = <<>>]
      BY <2>3 DEF CollectRaises
    <3> QED
      BY <1>1, <3>1, RaiseType
  <2> QED
    BY <2>1, <2>2, <2>3
<1>5. \A d \in Calls : pc[d] # "collecting" => merged[d] = <<>>
  BY DEF MergedIsOwn
<1> QED
  BY <1>2, <1>3, <1>4, <1>5 DEF Quiet

LEMMA QuietSession ==
  ASSUME TypeInv, MergedIsOwn, SessionLost \/ SessionReplaced \/ ManagerStopped \/ UNCHANGED vars
  PROVE  Quiet
<1>1. UNCHANGED <<content, parts, dispatching, queue, data, pc, op, merged>>
  BY DEF SessionLost, SessionReplaced, ManagerStopped, vars, dispatch, locals
<1>2. \A i \in Cids : table'[i] \in {table[i], NoQueue}
  BY DEF SessionLost, SessionReplaced, ManagerStopped, vars
<1>3. \A d \in Calls : pc[d] # "collecting" => merged[d] = <<>>
  BY DEF MergedIsOwn
<1> QED
  BY <1>1, <1>2, <1>3 DEF Quiet

(* A new queue is routed to the cid it is registered for.                  *)
LEMMA RegisterRoutes ==
  ASSUME TypeInv, RouteInv, Keeps, NEW c \in Calls, NEW i \in Cids, RegisterQueue(i),
         UNCHANGED <<dispatching, op, data>>, i = Current(c).cid, pc[c] # "collecting",
         \A d \in Calls \ {c} : /\ pc'[d] = pc[d] /\ queue'[d] = queue[d]
                                /\ merged'[d] = merged[d],
         merged'[c] = <<>>, pc'[c] = "collecting" => queue'[c] = Len(content) + 1
  PROVE  RouteInv'
<1>1. PICK f : Routes(f)
  BY DEF RouteInv
<1>2. /\ DOMAIN content' = DOMAIN content \cup {Len(content) + 1}
      /\ Len(content) + 1 \notin DOMAIN content
      /\ content'[Len(content) + 1] = <<>>
      /\ \A q \in DOMAIN content : content'[q] = content[q]
      /\ table' = [table EXCEPT ![i] = Len(content) + 1]
  BY RegisterType
<1>3. /\ table \in [Cids -> DOMAIN content \cup {NoQueue}]
      /\ dispatching # Idle => dispatching.q \in DOMAIN content
      /\ \A d \in Calls : pc[d] = "collecting" => queue[d] \in DOMAIN content
  BY DEF TypeInv, TypeOK, OpsInPlan
<1>4. PICK n : n = Len(content) + 1
  OBVIOUS
<1>5. PICK g : g = [q \in DOMAIN content \cup {n} |-> IF q = n THEN i ELSE f[q]]
  OBVIOUS
<1>6. g \in [DOMAIN content' -> Cids]
  BY <1>1, <1>2, <1>4, <1>5 DEF Routes
<1>7. \A j \in Cids : table'[j] # NoQueue => g[table'[j]] = j
  BY <1>1, <1>2, <1>3, <1>4, <1>5 DEF Routes
<1>8. \A d \in Calls : pc'[d] = "collecting" => g[queue'[d]] = Current(d)'.cid
  BY <1>1, <1>2, <1>3, <1>4, <1>5 DEF Routes, Current
<1>9. dispatching' # Idle => dispatching'.msg \in Answers(g[dispatching'.q], Issued')
  BY <1>1, <1>2, <1>3, <1>4, <1>5, AnswersGrow DEF Routes
<1>10. \A q \in DOMAIN content' : content'[q] \in Seq(Answers(g[q], Issued'))
  <2> TAKE q \in DOMAIN content'
  <2>1. CASE q = n
    <3>1. content'[q] = <<>>
      BY <1>2, <1>4, <2>1
    <3> QED
      BY <3>1, EmptySeq
  <2>2. CASE q \in DOMAIN content
    <3>1. content'[q] \in Seq(Answers(f[q], Issued)) /\ g[q] = f[q]
      BY <1>1, <1>2, <1>4, <1>5, <2>2 DEF Routes
    <3> QED
      BY <3>1, AnswersGrow
  <2> QED
    BY <1>2, <1>4, <2>1, <2>2
<1>11. Routes(g)'
  BY <1>6, <1>7, <1>8, <1>9, <1>10 DEF Routes
<1>12. MergedIsOwn'
  <2> SUFFICES ASSUME NEW d \in Calls
               PROVE  IF pc'[d] = "collecting"
                        THEN merged'[d] \in Seq(Normals(Plan[d][op'[d]].cid, Issued'))
                        ELSE merged'[d] = <<>>
    BY DEF MergedIsOwn, Current
  <2>1. CASE d = c
    BY <2>1, EmptySeq
  <2>2. CASE d # c
    BY <2>2, AnswersGrow DEF RouteInv, MergedIsOwn, Current
  <2> QED
    BY <2>1, <2>2
<1>13. DataIsOwn'
  BY DEF RouteInv, DataIsOwn
<1>14. OutstandingIsSent'
  BY SentKept DEF RouteInv, TypeInv, TypeOK
<1> QED
  BY <1>11, <1>12, <1>13, <1>14 DEF RouteInv

LEMMA RegisterStepsRoute ==
  ASSUME TypeInv, RouteInv, Keeps, NEW c \in Calls, SendRegister(c) \/ CollectRegister(c)
  PROVE  RouteInv'
<1>1. Current(c).cid \in Cids /\ pc[c] = "running" /\ merged[c] = <<>>
  BY PlanFacts DEF SendRegister, CollectRegister, Running, TypeInv, OpsInPlan, Current,
                   RouteInv, MergedIsOwn
<1>2. RegisterQueue(Current(c).cid) /\ UNCHANGED <<dispatching, op, data>>
  BY DEF SendRegister, CollectRegister, CollectQueue, dispatch
<1>3. /\ pc \in [Calls -> Phases] /\ queue \in [Calls -> DOMAIN content \cup {NoQueue}]
      /\ merged \in [Calls -> Seq(Normalized)]
  BY DEF TypeInv, TypeOK, Phases
<1>4. /\ \A d \in Calls \ {c} : pc'[d] = pc[d] /\ queue'[d] = queue[d] /\ merged'[d] = merged[d]
      /\ merged'[c] = <<>>
      /\ pc'[c] = "collecting" => queue'[c] = Len(content) + 1
  BY <1>1, <1>3 DEF SendRegister, CollectRegister
<1> QED
  BY <1>1, <1>2, <1>4, RegisterRoutes
LEMMA AnswersAreOwn ==
  ASSUME OwnCids, TypeInv, NEW c \in Calls, pc[c] = "collecting", NEW R,
         NEW m \in Answers(Current(c).cid, R) \cup Normals(Current(c).cid, R)
  PROVE  m.req \in Requests /\ m.req[1] = c
<1>1. m.req \in Requests /\ CidOf(m.req) = Plan[c][op[c]].cid
  BY DEF Answers, Normals, Message, Normalized, Current
<1>2. op[c] \in DOMAIN Plan[c] /\ Plan[c][op[c]].op = "collect_response"
  BY DEF TypeInv, OpsInPlan, Current
<1>3. m.req[1] \in Calls /\ m.req[2] \in SendOps(m.req[1])
  BY <1>1, RequestFacts
<1>4. Plan[m.req[1]][m.req[2]].cid = Plan[c][op[c]].cid
  BY <1>1 DEF CidOf
<1> QED
  BY <1>1, <1>2, <1>3, <1>4, CidsApart DEF SendOps

(* What a receive takes answers the request the collect is about.          *)
LEMMA TakesOwn ==
  ASSUME TypeInv, RouteInv, NEW c \in Calls, Receive(c), NEW m, NEW u, Takes(c, m, u)
  PROVE  /\ content[queue[c]] \in Seq(Answers(Current(c).cid, Issued))
         /\ content[queue[c]] # <<>>
         /\ Head(content[queue[c]]) \in Answers(Current(c).cid, Issued)
         /\ Tail(content[queue[c]]) \in Seq(Answers(Current(c).cid, Issued))
         /\ m \in Normals(Current(c).cid, Issued) /\ Core(m) = Head(content[queue[c]])
         /\ merged[c] \in Seq(Normals(Current(c).cid, Issued))
         /\ u \in Seq(Normals(Current(c).cid, Issued))
<1>1. PICK f : Routes(f)
  BY DEF RouteInv
<1>2. PICK i, h : i = Current(c).cid /\ h = Head(content[queue[c]])
  OBVIOUS
<1>3. /\ pc[c] = "collecting" /\ content[queue[c]] # <<>> /\ queue[c] \in DOMAIN content
      /\ f[queue[c]] = i
  BY <1>1, <1>2, ReceiveTakes DEF TypeInv, OpsInPlan, Routes
<1>4. content[queue[c]] \in Seq(Answers(i, Issued)) /\ merged[c] \in Seq(Normals(i, Issued))
  BY <1>1, <1>2, <1>3 DEF Routes, RouteInv, MergedIsOwn
<1>5. h \in Answers(i, Issued) /\ Tail(content[queue[c]]) \in Seq(Answers(i, Issued))
  BY <1>2, <1>3, <1>4, HeadTailProperties
<1>6. PICK body \in Bodies : m = Normalize(h, body)
  BY <1>2 DEF Takes
<1>7. m \in Normals(i, Issued) /\ Core(m) = h
  BY <1>5, <1>6, NormalType DEF Answers, Normals
<1>8. u \in Seq(Normals(i, Issued))
  BY <1>4, <1>7, AppendProperties DEF Takes
<1> QED
  BY <1>2, <1>3, <1>4, <1>5, <1>7, <1>8

LEMMA ReceiveRoutes ==
  ASSUME OwnCids, TypeInv, RouteInv, Keeps, NEW c \in Calls, Receive(c)
  PROVE  RouteInv'
<1> DEFINE Own == {x \in Normalized : x.req[1] = c}
<1>1. PICK f : Routes(f)
  BY DEF RouteInv
<1>2. PICK m, u : Takes(c, m, u)
  BY ReceiveTakes
<1>3. PICK q, i : q = queue[c] /\ i = Current(c).cid
  OBVIOUS
<1>4. /\ pc[c] = "collecting" /\ q \in DOMAIN content /\ f[q] = i
      /\ content' = [content EXCEPT ![q] = Tail(content[q])]
      /\ UNCHANGED <<table, dispatching, queue, outstanding>>
  BY <1>1, <1>3, ReceiveTakes DEF TypeInv, OpsInPlan, Routes
<1>5. Tail(content[q]) \in Seq(Answers(i, Issued)) /\ u \in Seq(Normals(i, Issued))
  BY <1>2, <1>3, TakesOwn
<1>6. Normals(i, Issued) \subseteq Own
  BY <1>3, <1>4, AnswersAreOwn DEF Normals
<1>7. u \in Seq(Own) /\ data[c] \in Seq(Own)
  BY <1>5, <1>6, SeqMonotonic DEF RouteInv, DataIsOwn
<1>8. data[c] \o u \in Seq(Own)
  BY <1>7, ConcatProperties
<1>9. DOMAIN content' = DOMAIN content
  BY <1>4
<1>10. /\ data \in [Calls -> Seq(Normalized)] /\ merged \in [Calls -> Seq(Normalized)]
  BY DEF TypeInv, TypeOK
<1>11. \A d \in Calls \ {c} : /\ pc'[d] = pc[d] /\ op'[d] = op[d] /\ merged'[d] = merged[d]
                              /\ data'[d] = data[d]
  BY <1>2, <1>10, AdvanceType DEF Takes
<1>12. \/ /\ pc'[c] # "collecting" /\ merged'[c] = <<>> /\ data'[c] = data[c] \o u
       \/ /\ pc'[c] = "collecting" /\ op'[c] = op[c] /\ merged'[c] = u
          /\ data'[c] = data[c]
  BY <1>2, <1>4, <1>10, AdvanceType DEF Takes
<1>13. Routes(f)'
  <2>1. f \in [DOMAIN content' -> Cids] /\ (\A j \in Cids : table'[j] # NoQueue => f[table'[j]] = j)
    BY <1>1, <1>4, <1>9 DEF Routes
  <2>2. \A d \in Calls : pc'[d] = "collecting" => f[queue'[d]] = Current(d)'.cid
    BY <1>1, <1>4, <1>11, <1>12 DEF Routes, Current
  <2>3. dispatching' # Idle => dispatching'.msg \in Answers(f[dispatching'.q], Issued')
    BY <1>1, <1>4, AnswersGrow DEF Routes
  <2>4. \A p \in DOMAIN content' : content'[p] \in Seq(Answers(f[p], Issued))
    BY <1>1, <1>4, <1>5, <1>9 DEF Routes
  <2>5. \A p \in DOMAIN content' : content'[p] \in Seq(Answers(f[p], Issued'))
    BY <2>4, AnswersGrow
  <2> QED
    BY <2>1, <2>2, <2>3, <2>5 DEF Routes
<1>14. MergedIsOwn'
  <2> SUFFICES ASSUME NEW d \in Calls
               PROVE  IF pc'[d] = "collecting"
                        THEN merged'[d] \in Seq(Normals(Plan[d][op'[d]].cid, Issued'))
                        ELSE merged'[d] = <<>>
    BY DEF MergedIsOwn, Current
  <2>1. CASE d # c
    BY <1>11, <2>1, AnswersGrow DEF RouteInv, MergedIsOwn, Current
  <2>2. CASE d = c
    BY <1>3, <1>5, <1>12, <2>2, AnswersGrow DEF Current
  <2> QED
    BY <2>1, <2>2
<1>15. DataIsOwn'
  BY <1>7, <1>8, <1>11, <1>12 DEF RouteInv, DataIsOwn
<1>16. OutstandingIsSent'
  BY <1>4, SentKept DEF RouteInv, TypeInv, TypeOK
<1> QED
  BY <1>13, <1>14, <1>15, <1>16 DEF RouteInv
(* An arrival or a put changes nothing a call knows.                       *)
LEMMA CallbackRoutes ==
  ASSUME RouteInv, Keeps, outstanding \subseteq Requests, UNCHANGED <<pc, op, merged, data>>,
         \E f : Routes(f)'
  PROVE  RouteInv'
<1>1. MergedIsOwn'
  <2> SUFFICES ASSUME NEW d \in Calls
               PROVE  IF pc'[d] = "collecting"
                        THEN merged'[d] \in Seq(Normals(Plan[d][op'[d]].cid, Issued'))
                        ELSE merged'[d] = <<>>
    BY DEF MergedIsOwn, Current
  <2> QED
    BY AnswersGrow DEF RouteInv, MergedIsOwn, Current
<1>2. DataIsOwn' /\ OutstandingIsSent'
  BY SentKept DEF RouteInv, DataIsOwn
<1>3. (\E f : Routes(f))'
  OBVIOUS
<1> QED
  BY <1>1, <1>2, <1>3 DEF RouteInv

LEMMA ArrivalRoutes ==
  ASSUME TypeInv, RouteInv, Keeps, NEW r \in Requests, AnswerArrives(r)
  PROVE  RouteInv'
<1>1. PICK f : Routes(f)
  BY DEF RouteInv
<1>2. PICK final \in BOOLEAN :
        dispatching' = IF Unroutable(r) THEN Idle
                       ELSE [msg |-> [req |-> r, n |-> parts[r] + 1, final |-> final],
                             q   |-> table[CidOf(r)]]
  BY DEF AnswerArrives
<1>3. UNCHANGED <<table, content, queue, pc, op, merged, data>> /\ r \in outstanding
  BY DEF AnswerArrives, locals
<1>4. dispatching' # Idle => dispatching'.msg \in Answers(f[dispatching'.q], Issued')
  <2> SUFFICES ASSUME dispatching' # Idle
               PROVE  dispatching'.msg \in Answers(f[dispatching'.q], Issued')
    OBVIOUS
  <2>1. ~ Unroutable(r) /\ dispatching'.msg = [req |-> r, n |-> parts[r] + 1, final |-> final]
        /\ dispatching'.q = table[CidOf(r)]
    BY <1>2
  <2>2. f[table[CidOf(r)]] = CidOf(r)
    BY <1>1, <2>1, RequestFacts DEF Routes, Unroutable
  <2>3. r \in Issued'
    BY <1>3 DEF RouteInv, OutstandingIsSent, Keeps, Issued
  <2>4. dispatching'.msg \in Message
    <3>1. parts[r] \in 0..MaxParts /\ MaxParts \in Nat
      BY BoundsAssumption DEF TypeInv, TypeOK
    <3>2. parts[r] + 1 \in 1..MaxParts + 1
      BY <3>1
    <3> QED
      BY <2>1, <3>2 DEF Message
  <2> QED
    BY <2>1, <2>2, <2>3, <2>4 DEF Answers
<1>5. /\ f \in [DOMAIN content' -> Cids] /\ (\A i \in Cids : table'[i] # NoQueue => f[table'[i]] = i)
      /\ \A c \in Calls : pc'[c] = "collecting" => f[queue'[c]] = Current(c)'.cid
      /\ \A q \in DOMAIN content' : content'[q] \in Seq(Answers(f[q], Issued'))
  BY <1>1, <1>3, AnswersGrow DEF Routes, Current
<1>6. Routes(f)'
  BY <1>4, <1>5 DEF Routes
<1> QED
  BY <1>3, <1>6, CallbackRoutes DEF TypeInv, TypeOK

LEMMA PutRoutes ==
  ASSUME TypeInv, RouteInv, Keeps, Put
  PROVE  RouteInv'
<1>1. PICK f : Routes(f)
  BY DEF RouteInv
<1> DEFINE q == dispatching.q
           m == dispatching.msg
<1>2. /\ q \in DOMAIN content /\ m \in Answers(f[q], Issued)
      /\ content[q] \in Seq(Answers(f[q], Issued))
  BY <1>1 DEF Put, TypeInv, TypeOK, Routes
<1>3. Append(content[q], m) \in Seq(Answers(f[q], Issued))
  BY <1>2, AppendProperties
<1>4. /\ content' = [content EXCEPT ![q] = Append(content[q], m)] /\ dispatching' = Idle
      /\ UNCHANGED <<table, queue, pc, op, merged, data>>
  BY DEF Put, InOrder, locals
<1>5. \A p \in DOMAIN content' : content'[p] \in Seq(Answers(f[p], Issued))
  BY <1>1, <1>2, <1>3, <1>4 DEF Routes
<1>6. /\ f \in [DOMAIN content' -> Cids] /\ (\A i \in Cids : table'[i] # NoQueue => f[table'[i]] = i)
      /\ \A c \in Calls : pc'[c] = "collecting" => f[queue'[c]] = Current(c)'.cid
      /\ \A p \in DOMAIN content' : content'[p] \in Seq(Answers(f[p], Issued'))
  BY <1>1, <1>4, <1>5, AnswersGrow DEF Routes, Current
<1>7. Routes(f)'
  BY <1>4, <1>6 DEF Routes
<1> QED
  BY <1>4, <1>7, CallbackRoutes DEF TypeInv, TypeOK

LEMMA RouteInit == Init => RouteInv
<1> SUFFICES ASSUME Init PROVE RouteInv
  OBVIOUS
<1>1. content = <<>> /\ DOMAIN content = {}
  <2>1. content \in Seq(Message) /\ Len(content) = 0
    BY EmptySeq DEF Init
  <2>2. DOMAIN content = 1..0
    BY <2>1, LenProperties
  <2> QED
    BY <2>2 DEF Init
<1>2. PICK f : f = [q \in {} |-> q]
  OBVIOUS
<1>3. Routes(f)
  BY <1>1, <1>2 DEF Init, Routes
<1>4. MergedIsOwn /\ DataIsOwn /\ OutstandingIsSent
  BY EmptySeq DEF Init, MergedIsOwn, DataIsOwn, OutstandingIsSent
<1> QED
  BY <1>3, <1>4 DEF RouteInv

LEMMA RouteStep ==
  ASSUME OwnCids, TypeInv, BuiltInPlan, RouteInv, [Next]_vars
  PROVE  RouteInv'
<1>0. Keeps /\ MergedIsOwn
  BY KeepsStep DEF RouteInv
<1>1. ASSUME NEW c \in Calls, Begin(c) \/ CallStep(c) PROVE RouteInv'
  BY <1>0, <1>1, QuietSteps, QuietRoutes, RegisterStepsRoute, ReceiveRoutes DEF CallStep
<1>2. ASSUME NEW r \in Requests, AnswerArrives(r) PROVE RouteInv'
  BY <1>0, <1>2, ArrivalRoutes
<1>3. CASE Put
  BY <1>0, <1>3, PutRoutes
<1>4. CASE SessionLost \/ SessionReplaced \/ ManagerStopped \/ UNCHANGED vars
  BY <1>0, <1>4, QuietSession, QuietRoutes
<1> QED
  BY <1>1, <1>2, <1>3, <1>4 DEF Next
-----------------------------------------------------------------------------
(* The order: what a collect has received, then what waits in its queue,   *)
(* then what the callback thread is about to put there, is one chain of    *)
(* parts, and the next answer continues it                                 *)

After(x, y) == ~ x.final /\ y.req = x.req /\ y.n = x.n + 1

Chain(s) == \A k \in 1 .. Len(s) - 1 : After(s[k], s[k + 1])

Joined(s) == \A k \in 1 .. Len(s) - 1 :
               \/ s[k].final
               \/ s[k + 1].req = s[k].req /\ s[k + 1].n = s[k].n + 1

EndsFinal(s) == s # <<>> => s[Len(s)].final

LEMMA ChainAppend ==
  ASSUME NEW S, NEW s \in Seq(S), NEW m \in S, Chain(s), s # <<>> => After(s[Len(s)], m)
  PROVE  Chain(Append(s, m))
<1> DEFINE z == Append(s, m)
<1>1. /\ Len(s) \in Nat /\ Len(z) = Len(s) + 1 /\ z[Len(s) + 1] = m
      /\ \A k \in 1..Len(s) : z[k] = s[k]
  BY AppendProperties, LenProperties
<1> HIDE DEF z
<1>2. ASSUME NEW k \in 1..Len(z) - 1 PROVE After(z[k], z[k + 1])
  <2>1. k \in 1..Len(s) /\ s # <<>>
    <3>1. k \in 1..Len(s)
      BY <1>1
    <3>2. Len(s) # 0
      BY <1>1, <3>1
    <3> QED
      BY <3>1, <3>2, EmptySeq
  <2>2. CASE k = Len(s)
    BY <1>1, <2>1, <2>2
  <2>3. CASE k < Len(s)
    <3>1. k \in 1..Len(s) - 1 /\ k + 1 \in 1..Len(s)
      BY <1>1, <2>1, <2>3
    <3> QED
      BY <1>1, <2>1, <3>1 DEF Chain
  <2> QED
    BY <1>1, <2>1, <2>2, <2>3
<1> QED
  BY <1>2 DEF Chain, z

LEMMA ChainPrefix ==
  ASSUME NEW S, NEW s \in Seq(S), NEW t \in Seq(S), Chain(s \o t)
  PROVE  Chain(s)
<1>1. /\ Len(s) \in Nat /\ Len(t) \in Nat /\ Len(s \o t) = Len(s) + Len(t)
      /\ \A k \in 1..Len(s) + Len(t) : k <= Len(s) => (s \o t)[k] = s[k]
  BY ConcatProperties, LenProperties
<1>2. ASSUME NEW k \in 1..Len(s) - 1 PROVE After(s[k], s[k + 1])
  <2>1. /\ k \in 1..Len(s \o t) - 1 /\ k \in 1..Len(s) + Len(t) /\ k <= Len(s)
        /\ k + 1 \in 1..Len(s) + Len(t) /\ k + 1 <= Len(s)
    BY <1>1
  <2>2. After((s \o t)[k], (s \o t)[k + 1])
    BY <2>1 DEF Chain
  <2> QED
    BY <1>1, <2>1, <2>2
<1> QED
  BY <1>2 DEF Chain

LEMMA ChainIsJoined ==
  ASSUME NEW s, Chain(s)
  PROVE  Joined(s)
BY DEF Chain, Joined, After

LEMMA JoinConcat ==
  ASSUME NEW S, NEW s \in Seq(S), NEW t \in Seq(S), Joined(s), Joined(t), EndsFinal(s)
  PROVE  Joined(s \o t)
<1> DEFINE z == s \o t
<1>1. /\ Len(s) \in Nat /\ Len(t) \in Nat /\ Len(z) = Len(s) + Len(t)
      /\ \A k \in 1..Len(s) + Len(t) : z[k] = IF k <= Len(s) THEN s[k] ELSE t[k - Len(s)]
  BY ConcatProperties, LenProperties
<1> HIDE DEF z
<1>2. ASSUME NEW k \in 1..Len(z) - 1
      PROVE  z[k].final \/ (z[k + 1].req = z[k].req /\ z[k + 1].n = z[k].n + 1)
  <2>1. k \in 1..Len(s) + Len(t) /\ k + 1 \in 1..Len(s) + Len(t)
    BY <1>1
  <2>2. CASE k < Len(s)
    <3>1. k \in 1..Len(s) - 1 /\ z[k] = s[k] /\ z[k + 1] = s[k + 1]
      BY <1>1, <2>1, <2>2
    <3> QED
      BY <3>1 DEF Joined
  <2>3. CASE k = Len(s)
    <3>1. z[k] = s[Len(s)] /\ Len(s) # 0
      BY <1>1, <2>1, <2>3
    <3>2. s # <<>>
      BY <3>1, EmptySeq
    <3> QED
      BY <3>1, <3>2 DEF EndsFinal
  <2>4. CASE k > Len(s)
    <3>1. PICK j \in Int : j = k - Len(s)
      BY <1>1
    <3>2. j \in 1..Len(t) - 1 /\ k - Len(s) = j /\ (k + 1) - Len(s) = j + 1
      BY <1>1, <2>1, <2>4, <3>1
    <3>3. z[k] = t[j] /\ z[k + 1] = t[j + 1]
      BY <1>1, <2>1, <2>4, <3>2
    <3> QED
      BY <3>2, <3>3 DEF Joined
  <2> QED
    BY <1>1, <2>2, <2>3, <2>4
<1> QED
  BY <1>2 DEF Joined, z

LEMMA ConcatAppend ==
  ASSUME NEW S, NEW s \in Seq(S), NEW t \in Seq(S), NEW m \in S
  PROVE  s \o Append(t, m) = Append(s \o t, m)
<1>1. <<m>> \in Seq(S) /\ s \o t \in Seq(S)
  BY ConcatProperties
<1>2. Append(t, m) = t \o <<m>> /\ Append(s \o t, m) = (s \o t) \o <<m>>
  BY <1>1, AppendIsConcat
<1> QED
  BY <1>1, <1>2, ConcatAssociative

LEMMA MoveHead ==
  ASSUME NEW S, NEW s \in Seq(S), NEW t \in Seq(S), t # <<>>
  PROVE  Append(s, Head(t)) \o Tail(t) = s \o t
<1>1. Head(t) \in S /\ Tail(t) \in Seq(S) /\ <<Head(t)>> \in Seq(S) /\ Len(t) \in Nat \ {0}
  BY HeadTailProperties, EmptySeq
<1>2. <<Head(t)>> \o Tail(t) = t
  <2>1. SubSeq(t, 1, Len(t)) = <<t[1]>> \o SubSeq(t, 2, Len(t))
    <3>1. 1 \in 1..Len(t) /\ Len(t) \in 1..Len(t)
      BY <1>1
    <3>2. SubSeq(t, 1, Len(t)) = <<t[1]>> \o SubSeq(t, 1 + 1, Len(t))
      BY <3>1, SubSeqRecursiveFirst
    <3> QED
      BY <3>2
  <2>2. SubSeq(t, 1, Len(t)) = t /\ Tail(t) = SubSeq(t, 2, Len(t))
    BY SubSeqFull, TailIsSubSeq
  <2>3. Head(t) = t[1]
    BY <1>1
  <2> QED
    BY <2>1, <2>2, <2>3
<1>3. Append(s, Head(t)) = s \o <<Head(t)>>
  BY <1>1, AppendIsConcat
<1> QED
  BY <1>1, <1>2, <1>3, ConcatAssociative
Stream(q) == IF dispatching # Idle /\ dispatching.q = q THEN Append(content[q], dispatching.msg)
                                                       ELSE content[q]

(* The messages the normaliser has been through, as they came.             *)
Cores(s) == [k \in 1..Len(s) |-> Core(s[k])]

Line(c) == Cores(merged[c]) \o Stream(queue[c])

(* The next answer for the line, if one comes, is the next part.           *)
Continues(c) ==
  Line(c) # <<>> =>
    LET m == Line(c)[Len(Line(c))]
    IN  table[CidOf(m.req)] = queue[c] /\ m.req \in outstanding => ~ m.final /\ parts[m.req] = m.n

LineInv == \A c \in Calls : pc[c] = "collecting" => Chain(Line(c)) /\ Continues(c)

DataJoined == \A c \in Calls : Joined(data[c]) /\ EndsFinal(data[c])

LEMMA CoresType ==
  ASSUME NEW i, NEW R, NEW s \in Seq(Normals(i, R))
  PROVE  /\ Cores(s) \in Seq(Answers(i, R)) /\ Len(Cores(s)) = Len(s) /\ Len(s) \in Nat
         /\ \A k \in 1..Len(s) : Cores(s)[k] = Core(s[k]) /\ s[k] \in Normals(i, R)
<1>1. Len(s) \in Nat /\ \A k \in 1..Len(s) : s[k] \in Normals(i, R)
  BY LenProperties, ElementOfSeq
<1>2. \A x \in Normals(i, R) : Core(x) \in Answers(i, R)
  BY DEF Normals, Answers, Normalized, Message, Core
<1>3. Cores(s) \in [1..Len(s) -> Answers(i, R)]
  BY <1>1, <1>2 DEF Cores
<1> QED
  BY <1>1, <1>3, SeqDef, LenProperties DEF Cores

LEMMA CoresAppend ==
  ASSUME NEW i, NEW R, NEW s \in Seq(Normals(i, R)), NEW m \in Normals(i, R)
  PROVE  Cores(Append(s, m)) = Append(Cores(s), Core(m))
<1>1. PICK z, c, u : z = Append(s, m) /\ c = Cores(s) /\ u = Append(c, Core(m))
  OBVIOUS
<1>2. /\ z \in Seq(Normals(i, R)) /\ Len(s) \in Nat /\ Len(z) = Len(s) + 1 /\ z[Len(s) + 1] = m
      /\ \A k \in 1..Len(s) : z[k] = s[k]
  BY <1>1, AppendProperties, LenProperties
<1>3. Core(m) \in Answers(i, R)
  BY DEF Normals, Answers, Normalized, Message, Core
<1>4. c \in Seq(Answers(i, R)) /\ Len(c) = Len(s) /\ \A k \in 1..Len(s) : c[k] = Core(s[k])
  BY <1>1, CoresType
<1>5. /\ u \in Seq(Answers(i, R)) /\ Len(u) = Len(s) + 1 /\ u[Len(s) + 1] = Core(m)
      /\ \A k \in 1..Len(s) : u[k] = c[k]
  BY <1>1, <1>3, <1>4, AppendProperties
<1>6. Cores(z) \in Seq(Answers(i, R)) /\ Len(Cores(z)) = Len(z)
      /\ \A k \in 1..Len(z) : Cores(z)[k] = Core(z[k])
  BY <1>2, CoresType
<1>7. \A k \in 1..Len(s) + 1 : Cores(z)[k] = u[k]
  BY <1>2, <1>4, <1>5, <1>6
<1>8. Cores(z) = u
  BY <1>2, <1>5, <1>6, <1>7, SeqEqual
<1> QED
  BY <1>1, <1>8

LEMMA CoresJoined ==
  ASSUME NEW i, NEW R, NEW s \in Seq(Normals(i, R)), Chain(Cores(s))
  PROVE  Joined(s)
<1>1. PICK c : c = Cores(s)
  OBVIOUS
<1>2. /\ Len(c) = Len(s) /\ Len(s) \in Nat
      /\ \A k \in 1..Len(s) : c[k] = Core(s[k])
  BY <1>1, CoresType
<1>3. Joined(c)
  BY <1>1, ChainIsJoined
<1>0. \A x : Core(x).req = x.req /\ Core(x).n = x.n /\ Core(x).final = x.final
  BY DEF Core
<1>4. \A k \in 1..Len(s) : c[k].req = s[k].req /\ c[k].n = s[k].n /\ c[k].final = s[k].final
  BY <1>0, <1>2
<1> SUFFICES ASSUME NEW k \in 1 .. Len(s) - 1
             PROVE  s[k].final \/ (s[k + 1].req = s[k].req /\ s[k + 1].n = s[k].n + 1)
  BY DEF Joined
<1>5. k \in 1..Len(s) /\ k + 1 \in 1..Len(s)
  BY <1>2
<1>6. c[k].final \/ (c[k + 1].req = c[k].req /\ c[k + 1].n = c[k].n + 1)
  BY <1>2, <1>3 DEF Joined
<1> QED
  BY <1>4, <1>5, <1>6

LEMMA NoCores == Cores(<<>>) = <<>>
<1>1. Len(<<>>) = 0
  BY EmptySeq
<1>2. <<>> \in Seq(Normals({}, {})) /\ Cores(<<>>) \in Seq(Answers({}, {}))
  BY EmptySeq, CoresType
<1>3. Len(Cores(<<>>)) = 0
  BY <1>1, <1>2, CoresType
<1> QED
  BY <1>2, <1>3, EmptySeq

LEMMA LineType ==
  ASSUME TypeInv, RouteInv, NEW c \in Calls, pc[c] = "collecting"
  PROVE  /\ queue[c] \in DOMAIN content
         /\ content[queue[c]] \in Seq(Answers(Current(c).cid, Issued))
         /\ Stream(queue[c]) \in Seq(Answers(Current(c).cid, Issued))
         /\ merged[c] \in Seq(Normals(Current(c).cid, Issued))
         /\ Cores(merged[c]) \in Seq(Answers(Current(c).cid, Issued))
         /\ Line(c) \in Seq(Answers(Current(c).cid, Issued))
<1>1. PICK f : Routes(f)
  BY DEF RouteInv
<1>2. /\ queue[c] \in DOMAIN content /\ f[queue[c]] = Current(c).cid
      /\ merged[c] \in Seq(Normals(Current(c).cid, Issued))
  BY <1>1 DEF TypeInv, OpsInPlan, Routes, RouteInv, MergedIsOwn
<1>3. content[queue[c]] \in Seq(Answers(Current(c).cid, Issued))
  BY <1>1, <1>2 DEF Routes
<1>4. dispatching # Idle /\ dispatching.q = queue[c]
        => dispatching.msg \in Answers(Current(c).cid, Issued)
  BY <1>1, <1>2 DEF Routes
<1>5. Stream(queue[c]) \in Seq(Answers(Current(c).cid, Issued))
  BY <1>3, <1>4, AppendProperties DEF Stream
<1>6. Cores(merged[c]) \in Seq(Answers(Current(c).cid, Issued))
  BY <1>2, CoresType
<1> QED
  BY <1>2, <1>3, <1>5, <1>6, ConcatProperties DEF Line

LEMMA LastOfLine ==
  ASSUME TypeInv, RouteInv, NEW c \in Calls, pc[c] = "collecting", Line(c) # <<>>
  PROVE  Line(c)[Len(Line(c))] \in Answers(Current(c).cid, Issued)
<1>1. Line(c) \in Seq(Answers(Current(c).cid, Issued))
  BY LineType
<1>2. Len(Line(c)) \in 1..Len(Line(c))
  BY <1>1, EmptySeq
<1> QED
  BY <1>1, <1>2, ElementOfSeq

LEMMA QueuesApart ==
  ASSUME OwnCids, TypeInv, RouteInv, NEW c \in Calls, NEW d \in Calls,
         pc[c] = "collecting", pc[d] = "collecting", queue[c] = queue[d]
  PROVE  c = d
<1>1. PICK f : Routes(f)
  BY DEF RouteInv
<1>2. Plan[c][op[c]].cid = Plan[d][op[d]].cid
  BY <1>1 DEF Routes, Current
<1>3. /\ op[c] \in DOMAIN Plan[c] /\ Plan[c][op[c]].op = "collect_response"
      /\ op[d] \in DOMAIN Plan[d] /\ Plan[d][op[d]].op = "collect_response"
  BY DEF TypeInv, OpsInPlan, Current
<1> QED
  BY <1>2, <1>3, CidsApart

(* How a line changes: a collect begins, or an answer comes.               *)
Grows(c) ==
  \/ Line(c)' = <<>>
  \/ /\ pc[c] = "collecting"
     /\ \/ Line(c)' = Line(c)
        \/ \E m : m.req \in outstanding /\ Line(c)' = Append(Line(c), m)

LinesGrow == \A c \in Calls : pc'[c] = "collecting" => Grows(c)

(* The line of a collect that a step does not touch.                       *)
LEMMA LineKept ==
  ASSUME TypeInv, RouteInv, LineInv, Keeps, NEW c \in Calls, pc[c] = "collecting",
         merged'[c] = merged[c], queue'[c] = queue[c],
         NEW q, q = queue[c], Stream(q)' = Stream(q),
         \A i \in Cids : table'[i] = q => table[i] = q,
         \A r \in Requests : table'[CidOf(r)] = q => parts'[r] = parts[r]
  PROVE  Chain(Line(c))' /\ Continues(c)' /\ Grows(c)
<1>1. PICK s : s = Line(c)
  OBVIOUS
<1>2. Line(c)' = s /\ queue'[c] = q
  BY <1>1 DEF Line, Stream
<1>3. Chain(s) /\ Continues(c)
  BY <1>1 DEF LineInv
<1>4. s # <<>> => s[Len(s)] \in Answers(Current(c).cid, Issued)
  BY <1>1, LastOfLine
<1>5. PICK m : m = s[Len(s)]
  OBVIOUS
<1>6. ASSUME s # <<>>, table'[CidOf(m.req)] = q, m.req \in outstanding'
      PROVE  ~ m.final /\ parts'[m.req] = m.n
  <2>1. m.req \in Requests /\ m.req \in Issued
    BY <1>4, <1>5, <1>6 DEF Answers, Message
  <2>2. m.req \in outstanding
    BY <1>6, <2>1 DEF Keeps, Issued
  <2>3. table[CidOf(m.req)] = q /\ parts'[m.req] = parts[m.req]
    BY <1>6, <2>1, RequestFacts
  <2> QED
    BY <1>1, <1>3, <1>5, <1>6, <2>2, <2>3 DEF Continues
<1>7. Continues(c)'
  BY <1>2, <1>5, <1>6 DEF Continues
<1>8. Chain(Line(c))'
  BY <1>2, <1>3 DEF Chain
<1>9. Grows(c)
  BY <1>1, <1>2 DEF Grows
<1> QED
  BY <1>7, <1>8, <1>9
LEMMA QuietLines ==
  ASSUME TypeInv, RouteInv, LineInv, Quiet, Keeps
  PROVE  LineInv' /\ LinesGrow
<1> SUFFICES ASSUME NEW c \in Calls, pc'[c] = "collecting"
             PROVE  Chain(Line(c))' /\ Continues(c)' /\ Grows(c)
  BY DEF LineInv, LinesGrow
<1>1. pc[c] = "collecting" /\ merged'[c] = merged[c] /\ queue'[c] = queue[c] /\ parts' = parts
  BY DEF Quiet
<1>2. PICK q : q = queue[c]
  OBVIOUS
<1>3. q \in DOMAIN content /\ q # NoQueue
  BY <1>1, <1>2, LineType, QueueType
<1>4. Stream(q)' = Stream(q)
  BY DEF Stream, Quiet
<1>5. \A i \in Cids : table'[i] = q => table[i] = q
  BY <1>3 DEF Quiet
<1> QED
  BY <1>1, <1>2, <1>4, <1>5, LineKept

(* The line of a collect that begins is empty.                             *)
LEMMA RegisterLines ==
  ASSUME TypeInv, RouteInv, LineInv, Keeps, NEW c \in Calls, SendRegister(c) \/ CollectRegister(c)
  PROVE  LineInv' /\ LinesGrow
<1> DEFINE i == Current(c).cid
<1>1. i \in Cids /\ pc[c] = "running" /\ RegisterQueue(i)
  BY PlanFacts DEF SendRegister, CollectRegister, CollectQueue, Running, TypeInv, OpsInPlan, Current
<1>2. /\ Len(content) + 1 \notin DOMAIN content /\ content'[Len(content) + 1] = <<>>
      /\ \A q \in DOMAIN content : content'[q] = content[q]
      /\ table' = [table EXCEPT ![i] = Len(content) + 1]
  BY <1>1, RegisterType
<1>3. /\ pc \in [Calls -> Phases] /\ queue \in [Calls -> DOMAIN content \cup {NoQueue}]
      /\ merged \in [Calls -> Seq(Normalized)] /\ table \in [Cids -> DOMAIN content \cup {NoQueue}]
      /\ dispatching # Idle => dispatching.q \in DOMAIN content
  BY DEF TypeInv, TypeOK, Phases
<1>4. /\ UNCHANGED <<parts, dispatching>>
      /\ \A d \in Calls \ {c} : pc'[d] = pc[d] /\ queue'[d] = queue[d] /\ merged'[d] = merged[d]
      /\ pc'[c] = "collecting" => queue'[c] = Len(content) + 1 /\ merged'[c] = <<>>
  BY <1>1, <1>3 DEF SendRegister, CollectRegister, dispatch
<1> HIDE DEF i
<1> SUFFICES ASSUME NEW d \in Calls, pc'[d] = "collecting"
             PROVE  Chain(Line(d))' /\ Continues(d)' /\ Grows(d)
  BY DEF LineInv, LinesGrow
<1>5. CASE d = c
  <2>1. PICK n : n = Len(content) + 1
    OBVIOUS
  <2>2. Stream(n)' = <<>>
    BY <1>2, <1>3, <1>4, <2>1 DEF Stream
  <2>3. Line(c)' = <<>> \o <<>>
    BY <1>4, <1>5, <2>1, <2>2, NoCores DEF Line, Stream
  <2>4. Line(c)' = <<>> /\ Len(<<>>) = 0
    BY <2>3, EmptySeq, ConcatEmptySeq
  <2>5. Chain(Line(c))'
    BY <2>4 DEF Chain
  <2>6. Continues(c)' /\ Grows(c)
    BY <2>4 DEF Continues, Grows
  <2> QED
    BY <1>5, <2>5, <2>6
<1>6. CASE d # c
  <2>1. PICK q : q = queue[d]
    OBVIOUS
  <2>2. pc[d] = "collecting" /\ queue'[d] = queue[d] /\ merged'[d] = merged[d] /\ q \in DOMAIN content
    BY <1>4, <1>6, <2>1, LineType
  <2>3. Stream(q)' = Stream(q)
    BY <1>2, <1>4, <2>2 DEF Stream
  <2>4. \A j \in Cids : table'[j] = q => table[j] = q
    BY <1>2, <1>3, <2>2
  <2> QED
    BY <1>4, <2>1, <2>2, <2>3, <2>4, LineKept
<1> QED
  BY <1>5, <1>6

(* Receiving moves a message along the line of the one collect of its      *)
(* queue, and no further than its final message.                           *)
LEMMA TakesFromLine ==
  ASSUME OwnCids, TypeInv, RouteInv, NEW c \in Calls, Receive(c), NEW m, NEW u, Takes(c, m, u),
         NEW q, q = queue[c]
  PROVE  /\ Stream(q) # <<>> /\ Head(Stream(q)) = Core(m) /\ Stream(q)' = Tail(Stream(q))
         /\ Tail(Stream(q)) \in Seq(Answers(Current(c).cid, Issued))
         /\ Cores(u) = Append(Cores(merged[c]), Core(m))
         /\ Cores(u) \in Seq(Answers(Current(c).cid, Issued))
         /\ Cores(u) \o Tail(Stream(q)) = Line(c)
<1> DEFINE A == Answers(Current(c).cid, Issued)
<1>1. PICK h : h = Head(content[q])
  OBVIOUS
<1>2. /\ pc[c] = "collecting" /\ content[q] # <<>>
      /\ content' = [content EXCEPT ![q] = Tail(content[q])]
      /\ UNCHANGED dispatching
  BY ReceiveTakes
<1>3. Core(m) = h
  BY <1>1, TakesOwn
<1>4. /\ q \in DOMAIN content /\ content[q] \in Seq(A) /\ Stream(q) \in Seq(A)
      /\ Cores(merged[c]) \in Seq(A) /\ Line(c) = Cores(merged[c]) \o Stream(q)
  BY <1>2, LineType DEF Line
<1>5. Stream(q) # <<>> /\ Head(Stream(q)) = h /\ Stream(q)' = Tail(Stream(q))
  <2>1. CASE dispatching # Idle /\ dispatching.q = q
    <3>1. Stream(q) = Append(content[q], dispatching.msg)
          /\ Stream(q)' = Append(Tail(content[q]), dispatching.msg)
      BY <1>2, <1>4, <2>1 DEF Stream
    <3>2. Stream(q) # <<>>
      <4>1. dispatching.msg \in Message /\ content[q] \in Seq(Message)
        BY <1>4, <2>1, QueueType DEF TypeInv, TypeOK
      <4> QED
        BY <3>1, <4>1, AppendProperties
    <3> QED
      BY <1>1, <1>2, <1>4, <3>1, <3>2, HeadTailAppend
  <2>2. CASE ~ (dispatching # Idle /\ dispatching.q = q)
    BY <1>1, <1>2, <1>4, <2>2 DEF Stream
  <2> QED
    BY <2>1, <2>2
<1>6. Cores(u) = Append(Cores(merged[c]), h)
  <2>1. /\ merged[c] \in Seq(Normals(Current(c).cid, Issued))
        /\ m \in Normals(Current(c).cid, Issued) /\ u = Append(merged[c], m)
    BY TakesOwn DEF Takes
  <2> QED
    BY <1>3, <2>1, CoresAppend
<1>7. Cores(u) \o Tail(Stream(q)) = Line(c)
  BY <1>4, <1>5, <1>6, MoveHead
<1>8. h \in A /\ Tail(Stream(q)) \in Seq(A)
  BY <1>4, <1>5, HeadTailProperties
<1>9. Cores(u) \in Seq(A)
  BY <1>4, <1>6, <1>8, AppendProperties
<1> QED
  BY <1>3, <1>5, <1>6, <1>7, <1>8, <1>9

LEMMA ReceiveLines ==
  ASSUME OwnCids, TypeInv, RouteInv, LineInv, DataJoined, Keeps, NEW c \in Calls, Receive(c)
  PROVE  LineInv' /\ DataJoined' /\ LinesGrow
<1>1. PICK q : q = queue[c]
  OBVIOUS
<1>2. PICK m, u : Takes(c, m, u)
  BY ReceiveTakes
<1>3. /\ Stream(q)' = Tail(Stream(q))
      /\ Tail(Stream(q)) \in Seq(Answers(Current(c).cid, Issued))
      /\ Cores(u) \in Seq(Answers(Current(c).cid, Issued))
      /\ Cores(u) \o Tail(Stream(q)) = Line(c)
  BY <1>1, <1>2, TakesFromLine
<1>4. /\ pc[c] = "collecting" /\ q \in DOMAIN content
      /\ content' = [content EXCEPT ![q] = Tail(content[q])]
      /\ UNCHANGED <<table, parts, dispatching, queue, outstanding>>
  BY <1>1, ReceiveTakes, LineType
<1>5. /\ merged[c] \in Seq(Normals(Current(c).cid, Issued)) /\ m \in Normals(Current(c).cid, Issued)
      /\ u \in Seq(Normals(Current(c).cid, Issued)) /\ u = Append(merged[c], m)
  BY <1>2, TakesOwn DEF Takes
<1>6. \/ /\ m.final
         /\ data' = [data EXCEPT ![c] = data[c] \o u]
         /\ Advance(c) /\ merged' = [merged EXCEPT ![c] = <<>>]
      \/ /\ merged' = [merged EXCEPT ![c] = u]
         /\ UNCHANGED <<data, pc, op>>
  BY <1>2 DEF Takes
<1>7. /\ merged \in [Calls -> Seq(Normalized)] /\ data \in [Calls -> Seq(Normalized)]
  BY DEF TypeInv, TypeOK
<1>8. Chain(Line(c)) /\ Continues(c)
  BY <1>4 DEF LineInv
<1>9. Chain(Cores(u))
  BY <1>3, <1>8, ChainPrefix
<1>10. LineInv' /\ LinesGrow
  <2> SUFFICES ASSUME NEW d \in Calls, pc'[d] = "collecting"
               PROVE  Chain(Line(d))' /\ Continues(d)' /\ Grows(d)
    BY DEF LineInv, LinesGrow
  <2>1. CASE d # c
    <3>1. pc[d] = "collecting" /\ merged'[d] = merged[d]
      BY <1>6, <1>7, <2>1, AdvanceType
    <3>2. PICK p : p = queue[d]
      OBVIOUS
    <3>3. p # q /\ p \in DOMAIN content
      BY <1>1, <1>4, <2>1, <3>1, <3>2, QueuesApart, LineType
    <3>4. Stream(p)' = Stream(p)
      BY <1>4, <3>3 DEF Stream
    <3> QED
      BY <1>4, <3>1, <3>2, <3>4, LineKept
  <2>2. CASE d = c
    <3>1. merged'[c] = u /\ UNCHANGED <<pc, op>>
      BY <1>6, <1>7, <2>2, AdvanceType
    <3>2. PICK s : s = Line(c)
      OBVIOUS
    <3>3. Line(c)' = s
      <4>1. Line(c)' = Cores(u) \o Stream(q)'
        BY <1>1, <1>4, <3>1 DEF Line, Stream
      <4> QED
        BY <1>3, <3>2, <4>1
    <3>4. Continues(c)'
      BY <1>4, <1>8, <3>2, <3>3 DEF Continues
    <3>5. Chain(Line(c))'
      BY <1>8, <3>2, <3>3 DEF Chain
    <3>6. Grows(c)
      BY <1>4, <3>2, <3>3 DEF Grows
    <3> QED
      BY <2>2, <3>4, <3>5, <3>6
  <2> QED
    BY <2>1, <2>2
<1>11. DataJoined'
  <2>1. CASE UNCHANGED data
    BY <2>1 DEF DataJoined
  <2>2. CASE m.final /\ data' = [data EXCEPT ![c] = data[c] \o u]
    <3>1. u \in Seq(Normalized) /\ data[c] \in Seq(Normalized) /\ m \in Normalized
          /\ merged[c] \in Seq(Normalized)
      <4>1. Normals(Current(c).cid, Issued) \subseteq Normalized
        BY DEF Normals
      <4> QED
        BY <1>5, <1>7, <4>1, SeqMonotonic
    <3>2. Joined(data[c] \o u)
      <4>1. Joined(u)
        BY <1>5, <1>9, CoresJoined
      <4> QED
        BY <3>1, <4>1, JoinConcat DEF DataJoined
    <3>3. EndsFinal(data[c] \o u)
      <4>1. Len(u) = Len(merged[c]) + 1 /\ u[Len(merged[c]) + 1] = m
            /\ Len(merged[c]) \in Nat /\ Len(data[c]) \in Nat
        BY <1>5, <3>1, AppendProperties, LenProperties
      <4>2. Len(data[c] \o u) = Len(data[c]) + Len(u)
        BY <3>1, ConcatProperties
      <4>3. PICK k, n : k = Len(data[c]) /\ n = Len(u) /\ k \in Nat /\ n \in Nat \ {0}
        BY <4>1
      <4>4. k + n \in 1..k + n /\ ~ (k + n <= k) /\ (k + n) - k = n
        BY <4>3
      <4>5. (data[c] \o u)[k + n] = u[n]
        BY <3>1, <4>3, <4>4, ConcatProperties
      <4> QED
        BY <2>2, <4>1, <4>2, <4>3, <4>5 DEF EndsFinal
    <3>4. data'[c] = data[c] \o u /\ \A d \in Calls \ {c} : data'[d] = data[d]
      BY <1>7, <2>2
    <3> QED
      BY <3>2, <3>3, <3>4 DEF DataJoined
  <2> QED
    BY <1>6, <2>1, <2>2
<1> QED
  BY <1>10, <1>11
(* An arrival adds the next part to the line of the one collect that waits *)
(* for it, if there is one.                                                *)
LEMMA ArrivalLines ==
  ASSUME OwnCids, SentOnce, TypeInv, RouteInv, LineInv, Keeps, NEW r \in Requests, AnswerArrives(r)
  PROVE  LineInv' /\ LinesGrow
<1> SUFFICES ASSUME NEW c \in Calls, pc'[c] = "collecting"
             PROVE  Chain(Line(c))' /\ Continues(c)' /\ Grows(c)
  BY DEF LineInv, LinesGrow
<1>1. PICK final \in BOOLEAN :
        /\ outstanding' = IF final THEN outstanding \ {r} ELSE outstanding
        /\ parts' = IF final THEN parts ELSE [parts EXCEPT ![r] = parts[r] + 1]
        /\ dispatching' = IF Unroutable(r) THEN Idle
                          ELSE [msg |-> [req |-> r, n |-> parts[r] + 1, final |-> final],
                                q   |-> table[CidOf(r)]]
  BY DEF AnswerArrives
<1>2. /\ UNCHANGED <<table, content, queue, pc, op, merged>> /\ r \in outstanding
      /\ dispatching = Idle /\ pc[c] = "collecting"
  BY DEF AnswerArrives, locals
<1>3. parts \in [Requests -> 0..MaxParts] /\ parts[r] \in Nat
  BY BoundsAssumption DEF TypeInv, TypeOK
<1>4. PICK q : q = queue[c]
  OBVIOUS
<1>5. q \in DOMAIN content /\ q # NoQueue
  BY <1>2, <1>4, LineType, QueueType
<1>6. CASE table[CidOf(r)] # q
  <2>1. Stream(q)' = Stream(q)
    BY <1>1, <1>2, <1>6 DEF Stream
  <2>2. \A s \in Requests : table'[CidOf(s)] = q => parts'[s] = parts[s]
    BY <1>1, <1>2, <1>3, <1>6
  <2> QED
    BY <1>2, <1>4, <2>1, <2>2, LineKept
<1>7. CASE table[CidOf(r)] = q
  <2> DEFINE A == Answers(Current(c).cid, Issued)
  <2>1. PICK s : s = Line(c)
    OBVIOUS
  <2>2. PICK m : m = [req |-> r, n |-> parts[r] + 1, final |-> final]
    OBVIOUS
  <2>3. dispatching' # Idle /\ dispatching'.msg = m /\ dispatching'.q = q
    BY <1>1, <1>5, <1>7, <2>2 DEF Unroutable, Idle
  <2>4. Stream(q) = content[q] /\ Stream(q)' = Append(content[q], m)
    BY <1>2, <2>3 DEF Stream
  <2>5. content[q] \in Seq(A) /\ Cores(merged[c]) \in Seq(A) /\ s \in Seq(A)
    BY <1>2, <1>4, <2>1, LineType
  <2>6. m \in A
    <3>1. PICK f : Routes(f)
      BY DEF RouteInv
    <3>2. CidOf(r) = Current(c).cid
      BY <1>2, <1>4, <1>5, <1>7, <3>1, RequestFacts DEF Routes
    <3>3. r \in Issued
      BY <1>2 DEF RouteInv, OutstandingIsSent, Issued
    <3>4. parts[r] \in 0..MaxParts /\ MaxParts \in Nat
      BY BoundsAssumption DEF TypeInv, TypeOK
    <3>5. parts[r] + 1 \in 1..MaxParts + 1
      BY <3>4
    <3>6. m \in Message
      BY <2>2, <3>5 DEF Message
    <3> QED
      BY <2>2, <3>2, <3>3, <3>6 DEF Answers
  <2>7. Line(c)' = Append(s, m)
    <3>1. Line(c)' = Cores(merged[c]) \o Append(content[q], m)
      BY <1>2, <1>4, <2>4 DEF Line, Stream
    <3>2. s = Cores(merged[c]) \o content[q]
      BY <1>4, <2>1, <2>4 DEF Line
    <3>3. Cores(merged[c]) \o Append(content[q], m) = Append(Cores(merged[c]) \o content[q], m)
      <4>1. \A u, v \in Seq(A) : u \o Append(v, m) = Append(u \o v, m)
        BY <2>6, ConcatAppend
      <4> QED
        BY <2>5, <4>1
    <3> QED
      BY <3>1, <3>2, <3>3
  <2>8. s # <<>> => After(s[Len(s)], m)
    <3> SUFFICES ASSUME s # <<>> PROVE After(s[Len(s)], m)
      OBVIOUS
    <3>1. s[Len(s)] \in A
      BY <1>2, <2>1, LastOfLine
    <3>2. s[Len(s)].req = r
      <4>1. s[Len(s)].req \in Issued /\ r \in Issued /\ CidOf(s[Len(s)].req) = CidOf(r)
        BY <2>2, <2>6, <3>1 DEF Answers, Message
      <4>2. \A t \in Issued : t \in Requests /\ Makeable(t[1], t[2])
        BY DEF Issued, Sent
      <4> QED
        BY <4>1, <4>2, OneRequestPerCid
    <3>3. Continues(c)
      BY <1>2 DEF LineInv
    <3>4. ~ s[Len(s)].final /\ parts[r] = s[Len(s)].n
      BY <1>2, <1>4, <1>7, <2>1, <3>2, <3>3 DEF Continues
    <3> QED
      BY <2>2, <3>2, <3>4 DEF After
  <2>9. Chain(s)
    BY <1>2, <2>1 DEF LineInv
  <2>10. Chain(Line(c))'
    BY <2>5, <2>6, <2>7, <2>8, <2>9, ChainAppend
  <2>11. Append(s, m) # <<>> /\ Append(s, m)[Len(Append(s, m))] = m
    BY <2>5, <2>6, AppendProperties
  <2>12. r \in outstanding' => ~ m.final /\ parts'[r] = m.n
    BY <1>1, <1>3, <2>2
  <2>13. m.req = r
    BY <2>2
  <2>14. Continues(c)'
    BY <2>7, <2>11, <2>12, <2>13 DEF Continues
  <2>15. Grows(c)
    BY <1>2, <2>1, <2>7, <2>13 DEF Grows
  <2> QED
    BY <2>10, <2>14, <2>15
<1> QED
  BY <1>6, <1>7

LEMMA PutLines ==
  ASSUME TypeInv, RouteInv, LineInv, Keeps, Put
  PROVE  LineInv' /\ LinesGrow
<1> SUFFICES ASSUME NEW c \in Calls, pc'[c] = "collecting"
             PROVE  Chain(Line(c))' /\ Continues(c)' /\ Grows(c)
  BY DEF LineInv, LinesGrow
<1>1. /\ content' = [content EXCEPT ![dispatching.q] = Append(content[dispatching.q], dispatching.msg)]
      /\ dispatching # Idle /\ dispatching' = Idle /\ dispatching.q \in DOMAIN content
      /\ UNCHANGED <<table, parts, queue, pc, merged>>
  BY DEF Put, InOrder, locals, TypeInv, TypeOK
<1>2. PICK q : q = queue[c]
  OBVIOUS
<1>3. q \in DOMAIN content
  BY <1>1, <1>2, LineType
<1>4. Stream(q)' = Stream(q)
  BY <1>1, <1>3 DEF Stream
<1> QED
  BY <1>1, <1>2, <1>4, LineKept

(* Only a receive adds to the data.                                        *)
LEMMA DataKept ==
  ASSUME DataJoined, UNCHANGED data
  PROVE  DataJoined'
BY DEF DataJoined

LEMMA LineInit == Init => LineInv /\ DataJoined
<1> SUFFICES ASSUME Init PROVE LineInv /\ DataJoined
  OBVIOUS
<1>1. Len(<<>>) = 0
  BY EmptySeq
<1>2. LineInv
  BY DEF Init, LineInv
<1>3. Joined(<<>>) /\ EndsFinal(<<>>)
  BY <1>1 DEF Joined, EndsFinal
<1> QED
  BY <1>2, <1>3 DEF Init, DataJoined

LEMMA LineStep ==
  ASSUME OwnCids, SentOnce, TypeInv, BuiltInPlan, RouteInv, LineInv, DataJoined, [Next]_vars
  PROVE  LineInv' /\ DataJoined' /\ LinesGrow
<1>0. Keeps /\ MergedIsOwn
  BY KeepsStep DEF RouteInv
<1>1. ASSUME Quiet PROVE LineInv' /\ DataJoined' /\ LinesGrow
  <2>1. UNCHANGED data
    BY <1>1 DEF Quiet
  <2> QED
    BY <1>0, <1>1, <2>1, QuietLines, DataKept
<1>2. ASSUME NEW c \in Calls, Begin(c) \/ CallStep(c) PROVE LineInv' /\ DataJoined' /\ LinesGrow
  <2>1. CASE SendRegister(c) \/ CollectRegister(c)
    <3>1. UNCHANGED data
      BY <2>1 DEF SendRegister, CollectRegister
    <3> QED
      BY <1>0, <2>1, <3>1, RegisterLines, DataKept
  <2>2. CASE Receive(c)
    BY <1>0, <2>2, ReceiveLines
  <2> QED
    BY <1>0, <1>1, <1>2, <2>1, <2>2, QuietSteps DEF CallStep
<1>3. ASSUME NEW r \in Requests, AnswerArrives(r) PROVE LineInv' /\ DataJoined' /\ LinesGrow
  <2>1. UNCHANGED data
    BY <1>3 DEF AnswerArrives, locals
  <2> QED
    BY <1>0, <1>3, <2>1, ArrivalLines, DataKept
<1>4. CASE Put
  <2>1. UNCHANGED data
    BY <1>4 DEF Put, locals
  <2> QED
    BY <1>0, <1>4, <2>1, PutLines, DataKept
<1>5. CASE SessionLost \/ SessionReplaced \/ ManagerStopped \/ UNCHANGED vars
  BY <1>0, <1>1, <1>5, QuietSession
<1> QED
  BY <1>2, <1>3, <1>4, <1>5 DEF Next

-----------------------------------------------------------------------------
(* The theorems                                                            *)

Inv == TypeInv /\ BuiltInPlan /\ BookInv /\ RouteInv /\ LineInv /\ DataJoined

LEMMA InvInit == Init => Inv
<1>1. Init => BuiltInPlan
  BY DEF Init, BuiltInPlan
<1> QED
  BY <1>1, TypeInit, BookInit, RouteInit, LineInit DEF Inv

LEMMA InvStep ==
  ASSUME OwnCids, SentOnce, CollectsSent
  PROVE  Inv /\ [Next]_vars => Inv'
<1> SUFFICES ASSUME Inv, [Next]_vars PROVE Inv'
  OBVIOUS
<1>1. TypeInv' /\ BuiltInPlan'
  BY TypeStep, BuiltStep DEF Inv
<1>2. BookInv'
  BY BookStep DEF Inv
<1>3. RouteInv'
  BY RouteStep DEF Inv
<1>4. LineInv' /\ DataJoined'
  BY LineStep DEF Inv
<1> QED
  BY <1>1, <1>2, <1>3, <1>4 DEF Inv

LEMMA InvIsolation ==
  ASSUME OwnCids
  PROVE  Inv => Isolation
<1> SUFFICES ASSUME Inv PROVE Isolation
  OBVIOUS
<1>1. ASSUME NEW c \in Calls
      PROVE  /\ data[c] \in Seq({m \in Normalized : m.req[1] = c})
             /\ merged[c] \in Seq({m \in Normalized : m.req[1] = c})
             /\ \A k \in DOMAIN merged[c] : CidOf(merged[c][k].req) = Current(c).cid
             /\ Joined(merged[c])
  <2> DEFINE Own == {m \in Normalized : m.req[1] = c}
  <2>1. data[c] \in Seq(Own)
    BY DEF Inv, RouteInv, DataIsOwn
  <2>2. CASE pc[c] = "collecting"
    <3>1. /\ merged[c] \in Seq(Normals(Current(c).cid, Issued))
          /\ Cores(merged[c]) \in Seq(Answers(Current(c).cid, Issued))
          /\ Stream(queue[c]) \in Seq(Answers(Current(c).cid, Issued))
      BY <2>2, LineType DEF Inv
    <3>2. Normals(Current(c).cid, Issued) \subseteq Own
      BY <2>2, AnswersAreOwn DEF Inv, Normals
    <3>3. merged[c] \in Seq(Own)
      BY <3>1, <3>2, SeqMonotonic
    <3>4. \A k \in DOMAIN merged[c] : CidOf(merged[c][k].req) = Current(c).cid
      <4> TAKE k \in DOMAIN merged[c]
      <4>1. merged[c][k] \in Normals(Current(c).cid, Issued)
        BY <3>1, LenProperties, ElementOfSeq
      <4> QED
        BY <4>1 DEF Normals
    <3>5. Chain(Cores(merged[c]))
      BY <2>2, <3>1, ChainPrefix DEF Inv, LineInv, Line
    <3>6. Joined(merged[c])
      BY <3>1, <3>5, CoresJoined
    <3> QED
      BY <2>1, <3>3, <3>4, <3>6
  <2>3. CASE pc[c] # "collecting"
    <3>1. merged[c] = <<>>
      BY <2>3 DEF Inv, RouteInv, MergedIsOwn
    <3>2. <<>> \in Seq(Own) /\ Len(<<>>) = 0 /\ DOMAIN <<>> = 1..0
      BY EmptySeq, LenProperties
    <3> QED
      BY <2>1, <3>1, <3>2 DEF Joined
  <2> QED
    BY <2>2, <2>3
<1>2. OwnAnswersOnly
  <2> SUFFICES ASSUME NEW c \in Calls
               PROVE  /\ \A k \in DOMAIN data[c] : data[c][k].req[1] = c
                      /\ \A k \in DOMAIN merged[c] : /\ merged[c][k].req[1] = c
                                                     /\ CidOf(merged[c][k].req) = Current(c).cid
    BY DEF OwnAnswersOnly
  <2>1. ASSUME NEW s \in Seq({m \in Normalized : m.req[1] = c}), NEW k \in DOMAIN s
        PROVE  s[k].req[1] = c
    <3>1. s[k] \in {m \in Normalized : m.req[1] = c}
      BY <2>1, LenProperties, ElementOfSeq
    <3> QED
      BY <3>1
  <2> QED
    BY <1>1, <2>1
<1>3. PartsInSequence
  <2> SUFFICES ASSUME NEW c \in Calls PROVE Joined(data[c] \o merged[c])
    BY DEF PartsInSequence, Joined
  <2> QED
    BY <1>1, JoinConcat DEF Inv, DataJoined
<1> QED
  BY <1>2, <1>3 DEF Isolation, Inv, TypeInv, BookInv

(* "The session is shared across concurrent requests; per-cid queues       *)
(* isolate them" (blp_exec.py:13-14). It is true of calls whose cids are   *)
(* their own and name one request each that can be sent, however the       *)
(* calls, the callback thread and the losses of the session interleave: a  *)
(* call receives only answers to its own requests, each collect only those *)
(* of its cid, whole and in order, and the queue it waits on is the one    *)
(* the callback thread finds.                                              *)
THEOREM CallsAreIsolated ==
  ASSUME OwnCids, SentOnce, CollectsSent
  PROVE  Spec => []Isolation
<1>1. Inv /\ [Next]_vars => Inv'
  BY InvStep
<1>2. Inv => Isolation
  BY InvIsolation
<1> QED
  BY <1>1, <1>2, InvInit, PTL DEF Spec

(* The finally clause of execute() (blp_exec.py:132-134) unregisters what  *)
(* the call has registered: when calls collect only what they have sent,   *)
(* no queue of theirs stays in the table behind them, whichever op raised. *)
THEOREM NoCallLeavesAQueue ==
  ASSUME OwnCids, SentOnce, CollectsSent
  PROVE  Spec => []NoQueueLeft
<1>1. Inv /\ [Next]_vars => Inv'
  BY InvStep
<1>2. Inv => NoQueueLeft
  BY DEF Inv, BookInv, TableIsOwned, DoneIsClean, NoQueueLeft
<1> QED
  BY <1>1, <1>2, InvInit, PTL DEF Spec
-----------------------------------------------------------------------------
(* The contract: every final part is heard once, one for each collect that *)
(* has ended                                                               *)

Heard(c)     == {data[c][k] : k \in DOMAIN data[c]}
LastParts(c) == {m \in Heard(c) : m.final}
Passed(c)    == {i \in CollectOps(c) : i < op[c] \/ pc[c] \in {"closing", "done"}}

OnlyLinkOwes == link # "connected" => outstanding = {}

HeardIsIssued == \A c \in Calls : \A m \in Heard(c) : m.req \in Issued

FinalOnce == \A c \in Calls : \A m \in LastParts(c) :
               /\ m.req \notin outstanding
               /\ pc[c] = "collecting" => \A k \in DOMAIN Line(c) : Line(c)[k] # Core(m)

Counted == \A c \in Calls :
             /\ IsFiniteSet(LastParts(c))
             /\ ~ failed[c] => Cardinality(LastParts(c)) = Cardinality(Passed(c))

(* No error of an answer that was heard is lost.                           *)
ErrorsTold == \A c \in Calls : CarriesErrors(data[c]) => failed[c]

ContractInv == /\ Inv /\ OnlyLinkOwes /\ HeardIsIssued /\ FinalOnce /\ Counted
               /\ ErrorsTold

Combines(z, s, t) == \A x : (\E k \in DOMAIN z : z[k] = x)
                             <=> (\E k \in DOMAIN s : s[k] = x) \/ (\E k \in DOMAIN t : t[k] = x)

LEMMA RangeConcat ==
  ASSUME NEW S, NEW s \in Seq(S), NEW t \in Seq(S)
  PROVE  Combines(s \o t, s, t)
<1> DEFINE z == s \o t
<1>1. /\ Len(s) \in Nat /\ Len(t) \in Nat /\ DOMAIN s = 1..Len(s) /\ DOMAIN t = 1..Len(t)
      /\ DOMAIN z = 1..Len(s) + Len(t)
      /\ \A k \in 1..Len(s) + Len(t) : z[k] = IF k <= Len(s) THEN s[k] ELSE t[k - Len(s)]
  <2>1. z \in Seq(S) /\ Len(z) = Len(s) + Len(t)
    BY ConcatProperties
  <2>2. DOMAIN z = 1..Len(z)
    BY <2>1, LenProperties
  <2> QED
    BY <2>1, <2>2, LenProperties, ConcatProperties
<1> HIDE DEF z
<1>2. ASSUME NEW k \in DOMAIN z
      PROVE  (\E j \in DOMAIN s : s[j] = z[k]) \/ (\E j \in DOMAIN t : t[j] = z[k])
  <2>1. CASE k <= Len(s)
    BY <1>1, <2>1
  <2>2. CASE k > Len(s)
    <3>1. PICK j \in Int : j = k - Len(s)
      BY <1>1
    <3>2. j \in DOMAIN t /\ z[k] = t[j]
      BY <1>1, <2>2, <3>1
    <3> QED
      BY <3>2
  <2> QED
    BY <1>1, <2>1, <2>2
<1>3. ASSUME NEW k \in DOMAIN s PROVE \E j \in DOMAIN z : z[j] = s[k]
  <2>1. k \in DOMAIN z /\ z[k] = s[k]
    BY <1>1
  <2> QED
    BY <2>1
<1>4. ASSUME NEW k \in DOMAIN t PROVE \E j \in DOMAIN z : z[j] = t[k]
  <2>1. PICK j \in Int : j = k + Len(s)
    BY <1>1
  <2>2. j \in 1..Len(s) + Len(t) /\ ~ (j <= Len(s)) /\ j - Len(s) = k
    BY <1>1, <2>1
  <2>3. j \in DOMAIN z /\ z[j] = t[k]
    BY <1>1, <2>2
  <2> QED
    BY <2>3
<1> QED
  BY <1>2, <1>3, <1>4 DEF z, Combines

LEMMA OwesStep ==
  ASSUME OnlyLinkOwes, [Next]_vars
  PROVE  OnlyLinkOwes'
<1>1. CASE link' = link /\ outstanding' \subseteq outstanding
  BY <1>1 DEF OnlyLinkOwes
<1>2. ASSUME NEW c \in Calls, Begin(c) \/ CallStep(c) PROVE OnlyLinkOwes'
  <2>1. link' = link /\ (outstanding' = outstanding \/ link = "connected")
    BY <1>2 DEF CallStep, Begin, StartSessionOp, GetServiceOp, AppendOp, SendRegister, SendUnknown,
                SendRequest, SendRaises, CollectRegister, Receive, CollectRaises, Unregister, Return,
                session, dispatch
  <2> QED
    BY <2>1 DEF OnlyLinkOwes
<1>3. CASE (\E r \in Requests : AnswerArrives(r)) \/ Put \/ UNCHANGED vars
  BY <1>1, <1>3 DEF AnswerArrives, Put, vars, session, dispatch
<1>4. CASE SessionLost \/ SessionReplaced \/ ManagerStopped
  BY <1>4 DEF OnlyLinkOwes, SessionLost, SessionReplaced, ManagerStopped, dispatch
<1> QED
  BY <1>2, <1>3, <1>4 DEF Next

(* What a receive that ends a collect adds to the data.                    *)
EndsCollect(c, m, u) == Receive(c) /\ Takes(c, m, u) /\ m.final

LEMMA FinalReceive ==
  ASSUME OwnCids, ContractInv, NEW c \in Calls, NEW m, NEW u, EndsCollect(c, m, u)
  PROVE  /\ u \in Seq(Normalized) /\ data[c] \in Seq(Normalized)
         /\ \A k \in DOMAIN u : u[k].req \in Issued /\ u[k].req[1] = c
         /\ \A k \in DOMAIN u : u[k].final => u[k] = m
         /\ (\E k \in DOMAIN u : u[k] = m)
         /\ m.req \notin outstanding /\ m \notin LastParts(c)
<1> DEFINE A == Answers(Current(c).cid, Issued)
           N == Normals(Current(c).cid, Issued)
<1>0. Receive(c) /\ Takes(c, m, u) /\ m.final /\ TypeInv /\ RouteInv
  BY DEF EndsCollect, ContractInv, Inv
<1>1. PICK q : q = queue[c]
  OBVIOUS
<1>2. pc[c] = "collecting"
  BY <1>0, ReceiveTakes
<1>3. Core(m).final /\ Core(m).req = m.req
  BY <1>0 DEF Core
<1>4. /\ m \in N /\ merged[c] \in Seq(N) /\ u \in Seq(N) /\ u = Append(merged[c], m)
      /\ Cores(merged[c]) \in Seq(A) /\ Core(m) \in A
  <2>1. m \in N /\ merged[c] \in Seq(N) /\ u \in Seq(N) /\ u = Append(merged[c], m)
    BY <1>0, TakesOwn DEF Takes
  <2>2. Core(m) = Head(content[queue[c]]) /\ Head(content[queue[c]]) \in A
    BY <1>0, TakesOwn
  <2> QED
    BY <2>1, <2>2, CoresType
<1>5. PICK v, w : v = Cores(u) /\ w = Tail(Stream(q))
  OBVIOUS
<1>6. /\ w \in Seq(A) /\ v \in Seq(A) /\ Line(c) = v \o w /\ v = Append(Cores(merged[c]), Core(m))
  BY <1>0, <1>1, <1>5, TakesFromLine
<1>7. /\ v # <<>> /\ Len(v) \in Nat \ {0} /\ v[Len(v)] = Core(m) /\ DOMAIN v = 1..Len(v)
  <2>1. v # <<>> /\ Len(v) = Len(Cores(merged[c])) + 1 /\ v[Len(Cores(merged[c])) + 1] = Core(m)
    <3>1. \A S : \A x \in Seq(S), e \in S :
            /\ Append(x, e) # <<>> /\ Len(Append(x, e)) = Len(x) + 1
            /\ Append(x, e)[Len(x) + 1] = e
      BY AppendProperties
    <3> HIDE DEF A, N
    <3> QED
      BY <1>4, <1>6, <3>1
  <2> QED
    BY <1>6, <2>1, EmptySeq, LenProperties
<1>8. /\ Len(u) = Len(v) /\ DOMAIN u = 1..Len(v) /\ u[Len(v)] = m
      /\ \A k \in DOMAIN u : u[k] \in N /\ v[k] = Core(u[k])
  <2>1. /\ Len(v) = Len(u) /\ \A k \in 1..Len(u) : v[k] = Core(u[k]) /\ u[k] \in N
    <3>1. u \in Seq(Normals(Current(c).cid, Issued))
      BY <1>4
    <3> HIDE DEF A, N
    <3>2. \A k \in 1..Len(u) : v[k] = Core(u[k])
      BY <1>5, <3>1, CoresType
    <3>3. Len(v) = Len(u)
      BY <1>5, <3>1, CoresType
    <3> QED
      BY <1>4, <3>2, <3>3, ElementOfSeq
  <2>2. DOMAIN u = 1..Len(u)
    BY <1>4, LenProperties
  <2>3. u[Len(u)] = m
    <3>1. Len(u) = Len(merged[c]) + 1 /\ u[Len(merged[c]) + 1] = m
      <4> HIDE DEF A, N
      <4> QED
        BY <1>4, AppendProperties
    <3> QED
      BY <3>1
  <2> QED
    BY <2>1, <2>2, <2>3
<1>9. Chain(Line(c)) /\ Continues(c) /\ CollectorIsRegistered
  BY <1>2 DEF ContractInv, Inv, LineInv, BookInv
<1>10. Chain(v)
  BY <1>6, <1>9, ChainPrefix
<1>11. \A k \in DOMAIN u : u[k].final => u[k] = m
  <2> SUFFICES ASSUME NEW k \in DOMAIN u, u[k].final PROVE k = Len(v)
    BY <1>8
  <2>1. v[k].final
    <3>1. v[k] = Core(u[k])
      BY <1>8
    <3> QED
      BY <3>1 DEF Core
  <2>2. k \notin 1..Len(v) - 1
    BY <1>10, <2>1 DEF Chain, After
  <2> QED
    BY <1>7, <1>8, <2>2
<1>12. /\ Len(w) \in Nat /\ Len(Line(c)) = Len(v) + Len(w) /\ Line(c)[Len(v)] = Core(m)
       /\ Len(v) \in DOMAIN Line(c)
  <2>1. Len(w) \in Nat /\ Len(Line(c)) = Len(v) + Len(w) /\ Line(c) \in Seq(A)
    BY <1>6, ConcatProperties, LenProperties
  <2>2. Len(v) \in 1..Len(v) + Len(w) /\ Len(v) <= Len(v)
    BY <1>7, <2>1
  <2>3. Line(c)[Len(v)] = Core(m)
    BY <1>6, <1>7, <2>2, ConcatProperties
  <2> QED
    BY <2>1, <2>2, <2>3, LenProperties
<1>13. Len(w) = 0
  <2> SUFFICES ASSUME Len(w) # 0 PROVE FALSE
    OBVIOUS
  <2>1. Len(v) \in 1..Len(Line(c)) - 1
    BY <1>7, <1>12
  <2> QED
    BY <1>3, <1>9, <1>12, <2>1 DEF Chain, After
<1>14. Line(c) # <<>> /\ Line(c)[Len(Line(c))] = Core(m)
  <2>1. Len(Line(c)) = Len(v)
    BY <1>7, <1>12, <1>13
  <2> QED
    BY <1>7, <1>12, <2>1, EmptySeq
<1>15. m.req \notin outstanding
  <2>1. CASE link = "stopped"
    BY <2>1 DEF ContractInv, OnlyLinkOwes
  <2>2. CASE link # "stopped"
    <3>1. table[Current(c).cid] = queue[c]
      BY <1>2, <1>9, <2>2 DEF CollectorIsRegistered
    <3>2. CidOf(Core(m).req) = Current(c).cid
      BY <1>4 DEF Answers
    <3> QED
      BY <1>3, <1>9, <1>14, <3>1, <3>2 DEF Continues
  <2> QED
    BY <2>1, <2>2
<1>16. m \notin LastParts(c)
  BY <1>2, <1>12 DEF ContractInv, FinalOnce
<1>17. \A k \in DOMAIN u : u[k].req \in Issued /\ u[k].req[1] = c
  <2> TAKE k \in DOMAIN u
  <2>1. u[k] \in N
    BY <1>8
  <2>2. u[k].req[1] = c
    BY <1>0, <1>2, <2>1, AnswersAreOwn
  <2> QED
    BY <2>1, <2>2 DEF Normals
<1>18. u \in Seq(Normalized) /\ data[c] \in Seq(Normalized)
  <2>1. N \subseteq Normalized
    BY DEF Normals
  <2> QED
    BY <1>0, <1>4, <2>1, SeqMonotonic DEF TypeInv, TypeOK
<1>19. \E k \in DOMAIN u : u[k] = m
  BY <1>7, <1>8
<1> QED
  BY <1>11, <1>15, <1>16, <1>17, <1>18, <1>19
LEMMA DataStep ==
  ASSUME [Next]_vars
  PROVE  UNCHANGED data \/ \E c \in Calls : \E m, u : EndsCollect(c, m, u)
<1>1. ASSUME NEW c \in Calls, Begin(c) \/ CallStep(c), ~ Receive(c) PROVE UNCHANGED data
  BY <1>1 DEF CallStep, Begin, StartSessionOp, GetServiceOp, AppendOp, SendRegister, SendUnknown,
              SendRequest, SendRaises, CollectRegister, CollectRaises, Unregister, Return, locals
<1>2. ASSUME NEW c \in Calls, Receive(c)
      PROVE  UNCHANGED data \/ \E m, u : EndsCollect(c, m, u)
  <2>1. PICK m, u : Takes(c, m, u)
    BY <1>2, ReceiveTakes
  <2> QED
    BY <1>2, <2>1 DEF Takes, EndsCollect
<1>3. ASSUME \/ \E r \in Requests : AnswerArrives(r)
             \/ Put \/ SessionLost \/ SessionReplaced \/ ManagerStopped \/ UNCHANGED vars
      PROVE  UNCHANGED data
  BY <1>3 DEF AnswerArrives, Put, SessionLost, SessionReplaced, ManagerStopped, vars, locals
<1> QED
  BY <1>1, <1>2, <1>3 DEF Next

LEMMA HeardGrows ==
  ASSUME OwnCids, ContractInv, NEW c \in Calls, NEW m, NEW u, EndsCollect(c, m, u)
  PROVE  /\ \A x : x \in Heard(c)' <=> x \in Heard(c) \/ \E k \in DOMAIN u : u[k] = x
         /\ LastParts(c)' = LastParts(c) \cup {m} /\ m \notin LastParts(c)
         /\ \A d \in Calls \ {c} : Heard(d)' = Heard(d) /\ LastParts(d)' = LastParts(d)
<1>1. m.final /\ data' = [data EXCEPT ![c] = data[c] \o u]
  BY DEF EndsCollect, Takes
<1>2. /\ u \in Seq(Normalized) /\ data[c] \in Seq(Normalized)
      /\ \A k \in DOMAIN u : u[k].final => u[k] = m
      /\ (\E k \in DOMAIN u : u[k] = m) /\ m \notin LastParts(c)
  BY FinalReceive
<1>3. data \in [Calls -> Seq(Normalized)]
  BY DEF ContractInv, Inv, TypeInv, TypeOK
<1>4. data'[c] = data[c] \o u /\ \A d \in Calls \ {c} : data'[d] = data[d]
  BY <1>1, <1>3
<1>5. \A x : x \in Heard(c)' <=> x \in Heard(c) \/ \E k \in DOMAIN u : u[k] = x
  <2> DEFINE z == data[c] \o u
  <2>1. Combines(z, data[c], u)
    BY <1>2, RangeConcat
  <2>2. data'[c] = z
    BY <1>4
  <2> HIDE DEF z
  <2>3. \A x : x \in Heard(c)' <=> \E k \in DOMAIN z : z[k] = x
    BY <2>2 DEF Heard
  <2>4. \A x : x \in Heard(c) <=> \E k \in DOMAIN data[c] : data[c][k] = x
    BY DEF Heard
  <2> QED
    BY <2>1, <2>3, <2>4 DEF Combines
<1>6. LastParts(c)' = LastParts(c) \cup {m}
  BY <1>1, <1>2, <1>5 DEF LastParts
<1>7. \A d \in Calls \ {c} : Heard(d)' = Heard(d)
  BY <1>4 DEF Heard
<1> QED
  BY <1>2, <1>5, <1>6, <1>7 DEF LastParts

LEMMA HeardStep ==
  ASSUME OwnCids, ContractInv, Keeps, [Next]_vars
  PROVE  HeardIsIssued'
<1>1. Issued \subseteq Issued'
  BY DEF Keeps, Issued
<1>2. CASE UNCHANGED data
  BY <1>1, <1>2 DEF ContractInv, HeardIsIssued, Heard
<1>3. ASSUME NEW c \in Calls, NEW m, NEW u, EndsCollect(c, m, u) PROVE HeardIsIssued'
  <2>1. \A k \in DOMAIN u : u[k].req \in Issued
    BY <1>3, FinalReceive
  <2> QED
    BY <1>1, <1>3, <2>1, HeardGrows DEF ContractInv, HeardIsIssued
<1> QED
  BY <1>2, <1>3, DataStep

LEMMA FinalStep ==
  ASSUME OwnCids, ContractInv, Keeps, LinesGrow, TypeInv', RouteInv', [Next]_vars
  PROVE  FinalOnce'
<1>1. ASSUME NEW c \in Calls, NEW m, m \in LastParts(c), m \in LastParts(c)'
      PROVE  /\ m.req \notin outstanding'
             /\ pc'[c] = "collecting" => \A k \in DOMAIN Line(c)' : Line(c)'[k] # Core(m)
  <2>1. m.req \in Issued /\ m.req \notin outstanding
    BY <1>1 DEF ContractInv, HeardIsIssued, FinalOnce, LastParts
  <2>2. m.req \notin outstanding'
    BY <2>1 DEF Keeps, Issued
  <2>3. ASSUME pc'[c] = "collecting", NEW k \in DOMAIN Line(c)' PROVE Line(c)'[k] # Core(m)
    <3>1. CASE Line(c)' = <<>>
      <4>1. DOMAIN <<>> = {}
        BY EmptySeq, LenProperties
      <4> QED
        BY <2>3, <3>1, <4>1
    <3>2. CASE pc[c] = "collecting" /\ Line(c)' = Line(c)
      BY <1>1, <2>3, <3>2 DEF ContractInv, FinalOnce
    <3>3. CASE pc[c] = "collecting" /\ \E x : x.req \in outstanding /\ Line(c)' = Append(Line(c), x)
      <4>1. PICK x : x.req \in outstanding /\ Line(c)' = Append(Line(c), x)
        BY <3>3
      <4>2. PICK s : s = Line(c)
        OBVIOUS
      <4>3. PICK S : s \in Seq(S) /\ x \in S
        <5>1. s \in Seq(Answers(Current(c).cid, Issued))
          BY <3>3, <4>2, LineType DEF ContractInv, Inv
        <5>2. Answers(Current(c).cid, Issued) \subseteq Answers(Current(c).cid, Issued) \cup {x}
          OBVIOUS
        <5>3. s \in Seq(Answers(Current(c).cid, Issued) \cup {x})
          BY <5>1, <5>2, SeqMonotonic
        <5> QED
          BY <5>3
      <4>4. /\ Append(s, x) \in Seq(S) /\ Len(Append(s, x)) = Len(s) + 1 /\ Len(s) \in Nat
            /\ \A j \in 1..Len(s) : Append(s, x)[j] = s[j]
            /\ Append(s, x)[Len(s) + 1] = x /\ DOMAIN s = 1..Len(s)
        BY <4>3, AppendProperties, LenProperties
      <4>5. k \in 1..Len(s) + 1
        BY <2>3, <4>1, <4>2, <4>4, LenProperties
      <4>6. CASE k = Len(s) + 1
        BY <2>1, <4>1, <4>2, <4>4, <4>6 DEF Core
      <4>7. CASE k \in 1..Len(s)
        BY <1>1, <3>3, <4>1, <4>2, <4>4, <4>7 DEF ContractInv, FinalOnce
      <4> QED
        BY <4>4, <4>5, <4>6, <4>7
    <3> QED
      BY <2>3, <3>1, <3>2, <3>3 DEF LinesGrow, Grows
  <2> QED
    BY <2>2, <2>3
<1>2. CASE UNCHANGED data
  BY <1>1, <1>2 DEF FinalOnce, LastParts, Heard
<1>3. ASSUME NEW c \in Calls, NEW m, NEW u, EndsCollect(c, m, u) PROVE FinalOnce'
  <2>1. /\ LastParts(c)' = LastParts(c) \cup {m}
        /\ \A d \in Calls \ {c} : LastParts(d)' = LastParts(d)
    BY <1>3, HeardGrows
  <2>2. m.req \notin outstanding'
    <3>1. m.req \notin outstanding
      BY <1>3, FinalReceive
    <3>2. outstanding' = outstanding
      BY <1>3, ReceiveTakes DEF EndsCollect
    <3> QED
      BY <3>1, <3>2
  <2>3. pc'[c] # "collecting"
    BY <1>3, AdvanceType DEF EndsCollect, Takes, ContractInv, Inv
  <2> QED
    BY <1>1, <2>1, <2>2, <2>3 DEF FinalOnce
<1> QED
  BY <1>2, <1>3, DataStep
(* The collects a call has behind it.                                      *)
LEMMA AdvancePasses ==
  ASSUME TypeInv, NEW c \in Calls, Active(c), Advance(c)
  PROVE  /\ op[c] \notin CollectOps(c) => Passed(c)' = Passed(c)
         /\ op[c] \in CollectOps(c) => op[c] \notin Passed(c) /\ Passed(c)' = Passed(c) \cup {op[c]}
<1>1. /\ op[c] \in Nat /\ Len(Plan[c]) \in Nat /\ DOMAIN Plan[c] = 1..Len(Plan[c])
      /\ op[c] \in 1..Len(Plan[c])
  BY PlanFacts DEF TypeInv, TypeOK, OpsInPlan
<1>2. pc[c] \notin {"closing", "done"}
  BY DEF Active
<1>3. ASSUME NEW i \in CollectOps(c)
      PROVE  i \in Passed(c)' <=> i \in Passed(c) \/ i = op[c]
  <2>1. i \in 1..Len(Plan[c])
    BY <1>1 DEF CollectOps
  <2>2. CASE op[c] < Len(Plan[c])
    <3>1. op'[c] = op[c] + 1 /\ pc'[c] = "running"
      BY <2>2 DEF Advance, TypeInv, TypeOK
    <3>2. i < op[c] + 1 <=> i < op[c] \/ i = op[c]
      BY <1>1, <2>1
    <3> QED
      BY <1>2, <3>1, <3>2 DEF Passed
  <2>3. CASE ~ (op[c] < Len(Plan[c]))
    <3>1. pc'[c] = "closing"
      BY <2>3 DEF Advance, TypeInv, TypeOK
    <3>2. i < op[c] \/ i = op[c]
      BY <1>1, <2>1, <2>3
    <3> QED
      BY <1>2, <3>1, <3>2 DEF Passed
  <2> QED
    BY <2>2, <2>3
<1>4. op[c] \notin Passed(c)
  BY <1>1, <1>2 DEF Passed
<1>5. Passed(c) \subseteq CollectOps(c) /\ Passed(c)' \subseteq CollectOps(c)
  BY DEF Passed
<1> QED
  BY <1>3, <1>4, <1>5

LEMMA PassedFinite ==
  ASSUME NEW c \in Calls
  PROVE  IsFiniteSet(CollectOps(c)) /\ IsFiniteSet(Passed(c))
<1>1. CollectOps(c) \subseteq 1..Len(Plan[c]) /\ Len(Plan[c]) \in Nat
  BY PlanAssumption, LenProperties DEF CollectOps
<1>2. IsFiniteSet(1..Len(Plan[c]))
  BY <1>1, FS_Interval
<1>3. IsFiniteSet(CollectOps(c))
  BY <1>1, <1>2, FS_Subset
<1>4. Passed(c) \subseteq CollectOps(c)
  BY DEF Passed
<1> QED
  BY <1>3, <1>4, FS_Subset

(* A call that has not failed passes a collect only by hearing its end.    *)
LEMMA PassedStep ==
  ASSUME TypeInv, [Next]_vars, NEW d \in Calls, ~ failed'[d]
  PROVE  /\ ~ failed[d]
         /\ Passed(d)' = Passed(d) \/ \E m, u : EndsCollect(d, m, u)
<1>1. ASSUME failed'[d] = failed[d], pc'[d] = pc[d], op'[d] = op[d]
      PROVE  ~ failed[d] /\ Passed(d)' = Passed(d)
  BY <1>1 DEF Passed
<1>2. failed \in [Calls -> BOOLEAN] /\ pc \in [Calls -> Phases]
  BY DEF TypeInv, TypeOK, Phases
<1>3. ASSUME NEW c \in Calls, Raise(c), d # c
      PROVE  failed'[d] = failed[d] /\ pc'[d] = pc[d] /\ op'[d] = op[d]
  BY <1>2, <1>3 DEF Raise
<1>4. ASSUME NEW c \in Calls, Raise(c)
      PROVE  ~ failed[d] /\ Passed(d)' = Passed(d)
  <2>1. d # c
    BY <1>2, <1>4 DEF Raise
  <2> QED
    BY <1>1, <1>3, <1>4, <2>1
<1>5. ASSUME NEW c \in Calls, Active(c), Advance(c), failed' = failed, op[c] \notin CollectOps(c)
      PROVE  ~ failed[d] /\ Passed(d)' = Passed(d)
  <2>1. CASE d = c
    BY <1>5, <2>1, AdvancePasses
  <2>2. CASE d # c
    BY <1>1, <1>5, <2>2, AdvanceType
  <2> QED
    BY <2>1, <2>2
<1>6. ASSUME NEW c \in Calls,
             \/ StartSessionOp(c) \/ GetServiceOp(c) \/ AppendOp(c) \/ SendUnknown(c)
             \/ SendRequest(c) \/ SendRaises(c) \/ CollectRaises(c)
      PROVE  ~ failed[d] /\ Passed(d)' = Passed(d)
  <2>1. \/ Raise(c)
        \/ Active(c) /\ Advance(c) /\ failed' = failed /\ Plan[c][op[c]].op # "collect_response"
    BY <1>6 DEF StartSessionOp, GetServiceOp, AppendOp, SendUnknown, SendRequest, SendRaises,
                CollectRaises, Running, Active, Current, TypeInv, OpsInPlan, locals
  <2> QED
    BY <1>4, <1>5, <2>1 DEF CollectOps
<1>7. ASSUME NEW c \in Calls, Begin(c) \/ SendRegister(c) \/ CollectRegister(c) \/ Unregister(c) \/ Return(c)
      PROVE  ~ failed[d] /\ Passed(d)' = Passed(d)
  <2>1. failed' = failed /\ op' = op
    BY <1>7 DEF Begin, SendRegister, CollectRegister, Unregister, Return, locals
  <2>2. pc'[d] \in {"closing", "done"} <=> pc[d] \in {"closing", "done"}
    BY <1>2, <1>7 DEF Begin, SendRegister, CollectRegister, Unregister, Return, Running, Cleaned
  <2> QED
    BY <2>1, <2>2 DEF Passed
<1>8. ASSUME NEW c \in Calls, Receive(c)
      PROVE  ~ failed[d] /\ (Passed(d)' = Passed(d) \/ \E m, u : EndsCollect(d, m, u))
  <2>1. PICK m, u : Takes(c, m, u)
    BY <1>8, ReceiveTakes
  <2>2. CASE ~ m.final
    BY <1>1, <2>1, <2>2 DEF Takes
  <2>3. CASE m.final
    <3>1. /\ Advance(c) /\ EndsCollect(c, m, u)
          /\ failed' = [failed EXCEPT ![c] = ErrorsMerged(failed[c], u)]
      BY <1>8, <2>1, <2>3 DEF Takes, EndsCollect
    <3>2. CASE d # c
      BY <1>1, <1>2, <3>1, <3>2, AdvanceType
    <3>3. CASE d = c
      BY <1>2, <3>1, <3>3 DEF ErrorsMerged
    <3> QED
      BY <3>2, <3>3
  <2> QED
    BY <2>2, <2>3
<1>9. CASE \/ (\E r \in Requests : AnswerArrives(r)) \/ Put
           \/ SessionLost \/ SessionReplaced \/ ManagerStopped \/ UNCHANGED vars
  <2>1. UNCHANGED <<failed, pc, op>>
    BY <1>9 DEF AnswerArrives, Put, SessionLost, SessionReplaced, ManagerStopped, vars, locals
  <2> QED
    BY <1>1, <2>1
<1> QED
  BY <1>6, <1>7, <1>8, <1>9 DEF Next, CallStep

LEMMA CountedStep ==
  ASSUME OwnCids, ContractInv, [Next]_vars
  PROVE  Counted'
<1>1. TypeInv /\ Counted
  BY DEF ContractInv, Inv
<1> SUFFICES ASSUME NEW d \in Calls
             PROVE  /\ IsFiniteSet(LastParts(d)')
                    /\ ~ failed'[d] => Cardinality(LastParts(d)') = Cardinality(Passed(d)')
  BY DEF Counted
<1>2. CASE \E m, u : EndsCollect(d, m, u)
  <2>1. PICK m, u : EndsCollect(d, m, u)
    BY <1>2
  <2>2. LastParts(d)' = LastParts(d) \cup {m} /\ m \notin LastParts(d)
    BY <2>1, HeardGrows
  <2>3. /\ IsFiniteSet(LastParts(d)')
        /\ Cardinality(LastParts(d)') = Cardinality(LastParts(d)) + 1
    BY <1>1, <2>2, FS_AddElement DEF Counted
  <2>4. op[d] \notin Passed(d) /\ Passed(d)' = Passed(d) \cup {op[d]}
    <3>1. Active(d) /\ Advance(d) /\ op[d] \in CollectOps(d)
      BY <1>1, <2>1, ReceiveTakes
         DEF EndsCollect, Takes, Active, TypeInv, OpsInPlan, CollectOps, Current
    <3> QED
      BY <1>1, <3>1, AdvancePasses
  <2>5. Cardinality(Passed(d)') = Cardinality(Passed(d)) + 1
    BY <2>4, PassedFinite, FS_AddElement
  <2>6. ~ failed'[d] => ~ failed[d]
    BY <1>1, PassedStep
  <2> QED
    BY <1>1, <2>3, <2>5, <2>6 DEF Counted
<1>3. CASE ~ \E m, u : EndsCollect(d, m, u)
  <2>1. LastParts(d)' = LastParts(d)
    <3>1. CASE UNCHANGED data
      BY <3>1 DEF LastParts, Heard
    <3>2. ASSUME NEW c \in Calls, NEW m, NEW u, EndsCollect(c, m, u) PROVE LastParts(d)' = LastParts(d)
      BY <1>3, <3>2, HeardGrows
    <3> QED
      BY <3>1, <3>2, DataStep
  <2>2. ~ failed'[d] => ~ failed[d] /\ Passed(d)' = Passed(d)
    BY <1>1, <1>3, PassedStep
  <2> QED
    BY <1>1, <2>1, <2>2 DEF Counted
<1> QED
  BY <1>2, <1>3
(* The errors of the messages are merged when the collect ends.            *)
LEMMA ToldStep ==
  ASSUME OwnCids, ContractInv, [Next]_vars
  PROVE  ErrorsTold'
<1>1. TypeInv /\ ErrorsTold /\ failed \in [Calls -> BOOLEAN]
  BY DEF ContractInv, Inv, TypeInv, TypeOK
<1>2. \A d \in Calls : failed[d] => failed'[d]
  BY <1>1, PassedStep
<1>3. CASE UNCHANGED data
  BY <1>1, <1>2, <1>3 DEF ErrorsTold
<1>4. ASSUME NEW c \in Calls, NEW m, NEW u, EndsCollect(c, m, u) PROVE ErrorsTold'
  <2>1. u \in Seq(Normalized) /\ data[c] \in Seq(Normalized)
    BY <1>4, FinalReceive
  <2>2. PICK z : z = data[c] \o u
    OBVIOUS
  <2>3. Combines(z, data[c], u)
    BY <2>1, <2>2, RangeConcat
  <2>4. /\ data' = [data EXCEPT ![c] = z] /\ data \in [Calls -> Seq(Normalized)]
        /\ failed' = [failed EXCEPT ![c] = ErrorsMerged(failed[c], u)]
    BY <1>1, <1>4, <2>2 DEF EndsCollect, Takes, TypeInv, TypeOK
  <2>5. CarriesErrors(z) => CarriesErrors(data[c]) \/ CarriesErrors(u)
    BY <2>3 DEF CarriesErrors, Combines
  <2>6. CarriesErrors(z) => failed'[c]
    BY <1>1, <2>4, <2>5 DEF ErrorsTold, ErrorsMerged
  <2>7. data'[c] = z /\ \A d \in Calls \ {c} : data'[d] = data[d]
    BY <2>4
  <2> QED
    BY <1>1, <1>2, <2>6, <2>7 DEF ErrorsTold
<1> QED
  BY <1>3, <1>4, DataStep

LEMMA ContractInvInit == Init => ContractInv
<1> SUFFICES ASSUME Init PROVE ContractInv
  OBVIOUS
<1>1. Inv /\ OnlyLinkOwes
  BY InvInit DEF Init, OnlyLinkOwes
<1>2. DOMAIN <<>> = {}
  BY EmptySeq, LenProperties
<1>3. \A c \in Calls : Heard(c) = {} /\ LastParts(c) = {}
  BY <1>2 DEF Init, Heard, LastParts
<1>4. \A c \in Calls : Passed(c) = {}
  <2> TAKE c \in Calls
  <2>1. \A i \in CollectOps(c) : i \in Nat \ {0}
    BY PlanAssumption, LenProperties DEF CollectOps
  <2> QED
    BY <2>1 DEF Init, Passed
<1>5. HeardIsIssued /\ FinalOnce /\ Counted
  BY <1>3, <1>4, FS_EmptySet DEF HeardIsIssued, FinalOnce, Counted
<1>6. ErrorsTold
  BY <1>2 DEF Init, ErrorsTold, CarriesErrors
<1> QED
  BY <1>1, <1>5, <1>6 DEF ContractInv

LEMMA ContractInvStep ==
  ASSUME OwnCids, SentOnce, CollectsSent, ContractInv, [Next]_vars
  PROVE  ContractInv'
<1>1. Inv'
  BY InvStep DEF ContractInv
<1>2. Keeps
  BY KeepsStep DEF ContractInv, Inv
<1>3. LinesGrow
  BY LineStep DEF ContractInv, Inv
<1>4. OnlyLinkOwes'
  BY OwesStep DEF ContractInv
<1>5. HeardIsIssued'
  BY <1>2, HeardStep
<1>6. FinalOnce'
  BY <1>1, <1>2, <1>3, FinalStep DEF Inv
<1>7. Counted'
  BY CountedStep
<1>8. ErrorsTold'
  BY ToldStep
<1> QED
  BY <1>1, <1>4, <1>5, <1>6, <1>7, <1>8 DEF ContractInv

-----------------------------------------------------------------------------
(* The simulation                                                          *)

Phase  == [c \in Calls |-> IF pc[c] \in {"idle", "done"} THEN pc[c] ELSE "open"]
Result == [c \in Calls |-> IF pc[c] = "done" THEN Status(c) ELSE "none"]
AllHeard == [c \in Calls |-> Heard(c)]

(* The steps of the contract, in the terms of the executor.                *)
Stutters == UNCHANGED <<Phase, AllHeard, Result>>

LEMMA SameCardinality ==
  ASSUME NEW S
  PROVE  Contract!Cardinality(S) = Cardinality(S)
BY DEF Contract!Cardinality, Cardinality

LEMMA BeginSimulates ==
  ASSUME TypeInv, NEW c \in Calls, Begin(c)
  PROVE  Contract!Begin(c)
<1>1. /\ pc[c] = "idle" /\ pc' = [pc EXCEPT ![c] = "running"]
      /\ UNCHANGED <<data, failed>> /\ pc \in [Calls -> Phases]
  BY DEF Begin, locals, TypeInv, TypeOK, Phases
<1>2. /\ Phase[c] = "idle" /\ Phase' = [Phase EXCEPT ![c] = "open"]
      /\ AllHeard' = AllHeard /\ Result' = Result
  BY <1>1 DEF Phase, AllHeard, Heard, Result, Status
<1> QED
  BY <1>2 DEF Contract!Begin, Phase, AllHeard, Heard, Result

LEMMA HearSimulates ==
  ASSUME OwnCids, ContractInv, NEW c \in Calls, NEW m, NEW u, EndsCollect(c, m, u)
  PROVE  Contract!Hear(c)
<1>1. /\ u \in Seq(Normalized)
      /\ \A k \in DOMAIN u : u[k].req[1] = c
      /\ \A k \in DOMAIN u : u[k].final => u[k] = m
      /\ \E k \in DOMAIN u : u[k] = m
  BY FinalReceive
<1>2. /\ \A x : x \in Heard(c)' <=> x \in Heard(c) \/ \E k \in DOMAIN u : u[k] = x
      /\ m \notin LastParts(c)
      /\ \A d \in Calls \ {c} : Heard(d)' = Heard(d)
  BY HeardGrows
<1>3. /\ pc[c] = "collecting" /\ Advance(c) /\ m.final
      /\ TypeInv /\ pc \in [Calls -> Phases] /\ failed \in [Calls -> BOOLEAN]
      /\ \A d \in Calls \ {c} : failed'[d] = failed[d]
  BY ReceiveTakes DEF EndsCollect, Takes, ContractInv, Inv, TypeInv, TypeOK, Phases
<1>4. Phase[c] = "open" /\ Phase' = Phase
  BY <1>3, AdvanceType DEF Phase
<1>5. Result' = Result
  <2>1. \A d \in Calls : pc'[d] = "done" <=> pc[d] = "done"
    BY <1>3, AdvanceType
  <2>2. \A d \in Calls : pc[d] = "done" => data'[d] = data[d]
    BY <1>3 DEF EndsCollect, Takes, TypeInv, TypeOK
  <2> QED
    BY <1>3, <2>1, <2>2 DEF Result, Status
<1>6. AllHeard' = [AllHeard EXCEPT ![c] = AllHeard'[c]]
  BY <1>2 DEF AllHeard
<1>7. AllHeard[c] \subseteq AllHeard'[c]
  BY <1>2 DEF AllHeard
<1>8. AllHeard'[c] \subseteq {x \in Normalized : x.req[1] = c}
  <2>1. \A x \in Heard(c) : x \in Normalized /\ x.req[1] = c
    <3>1. data[c] \in Seq({x \in Normalized : x.req[1] = c})
      BY DEF ContractInv, Inv, RouteInv, DataIsOwn
    <3>2. \A k \in DOMAIN data[c] : data[c][k] \in {x \in Normalized : x.req[1] = c}
      BY <3>1, LenProperties, ElementOfSeq
    <3> QED
      BY <3>2 DEF Heard
  <2>2. \A k \in DOMAIN u : u[k] \in Normalized
    BY <1>1, LenProperties, ElementOfSeq
  <2> QED
    BY <1>1, <1>2, <2>1, <2>2 DEF AllHeard
<1>9. {x \in AllHeard'[c] \ AllHeard[c] : x.final} = {m}
  BY <1>1, <1>2, <1>3 DEF AllHeard, LastParts
<1>10. Cardinality({x \in AllHeard'[c] \ AllHeard[c] : x.final}) = 1
  BY <1>9, FS_Singleton
<1>11. Contract!Cardinality(Contract!Finals(AllHeard'[c] \ AllHeard[c])) = 1
  BY <1>10, SameCardinality DEF Contract!Finals
<1>12. AllHeard'[c] \subseteq [d \in Calls |-> {x \in Normalized : x.req[1] = d}][c]
  BY <1>8
<1> QED
  BY <1>4, <1>5, <1>6, <1>7, <1>11, <1>12, Zenon
     DEF Contract!Hear, Phase, AllHeard, Heard, Result

LEMMA ReturnSimulates ==
  ASSUME ContractInv, NEW c \in Calls, Return(c)
  PROVE  Contract!Return(c)
<1>1. /\ pc[c] = "closing" /\ pc' = [pc EXCEPT ![c] = "done"]
      /\ UNCHANGED <<data, failed>> /\ pc \in [Calls -> Phases] /\ failed \in [Calls -> BOOLEAN]
      /\ data[c] \in Seq(Normalized)
  BY DEF Return, Cleaned, locals, ContractInv, Inv, TypeInv, TypeOK, Phases
<1>2. /\ Phase[c] = "open" /\ Phase' = [Phase EXCEPT ![c] = "done"]
      /\ AllHeard' = AllHeard
  BY <1>1 DEF Phase, AllHeard, Heard
<1>3. Result' = [Result EXCEPT ![c] = Status(c)]
  BY <1>1 DEF Result, Status
<1>4. /\ CarriesData(data[c]) <=> \E m \in AllHeard[c] : "data" \in m.body
      /\ CarriesErrors(data[c]) <=> \E m \in AllHeard[c] : "error" \in m.body
  BY DEF AllHeard, Heard, CarriesData, CarriesErrors
<1>8. ~ failed[c] => ~ \E m \in AllHeard[c] : "error" \in m.body
  BY <1>4 DEF ContractInv, ErrorsTold
<1>5. ~ failed[c] => Cardinality({m \in AllHeard[c] : m.final}) = Cardinality(CollectOps(c))
  <2>1. Passed(c) = CollectOps(c)
    BY <1>1 DEF Passed
  <2>2. {m \in AllHeard[c] : m.final} = LastParts(c)
    BY DEF AllHeard, LastParts
  <2> QED
    BY <2>1, <2>2 DEF ContractInv, Counted
<1>6. \/ /\ Cardinality({m \in AllHeard[c] : m.final}) = Cardinality(CollectOps(c))
         /\ ~ \E m \in AllHeard[c] : "error" \in m.body
         /\ Result' = [Result EXCEPT ![c] = "ok"]
      \/ /\ \E m \in AllHeard[c] : "data" \in m.body
         /\ Result' = [Result EXCEPT ![c] = "partial"]
      \/ /\ ~ \E m \in AllHeard[c] : "data" \in m.body
         /\ Result' = [Result EXCEPT ![c] = "error"]
  BY <1>3, <1>4, <1>5, <1>8 DEF Status
<1>7. Contract!Answered(c) <=> Cardinality({m \in AllHeard[c] : m.final}) = Cardinality(CollectOps(c))
  <2>1. Contract!Finals(AllHeard[c]) = {m \in AllHeard[c] : m.final}
    BY DEF Contract!Finals
  <2>2. Contract!Answered(c) <=> Contract!Cardinality(Contract!Finals(AllHeard[c])) = Cardinality(CollectOps(c))
    BY DEF Contract!Answered, AllHeard, Heard
  <2> QED
    BY <2>1, <2>2, SameCardinality
<1>9. /\ Contract!HeardData(c) <=> \E m \in AllHeard[c] : "data" \in m.body
      /\ Contract!HeardErrors(c) <=> \E m \in AllHeard[c] : "error" \in m.body
  BY DEF Contract!HeardData, Contract!HeardErrors, AllHeard, Heard
<1> QED
  BY <1>2, <1>6, <1>7, <1>9, Zenon DEF Contract!Return, Phase, AllHeard, Heard, Result
(* Every other step is invisible to the caller.                            *)
LEMMA OthersStutter ==
  ASSUME TypeInv, [Next]_vars, UNCHANGED data,
         \A c \in Calls : ~ Begin(c) /\ ~ Return(c)
  PROVE  Stutters
<1>1. pc \in [Calls -> Phases] /\ failed \in [Calls -> BOOLEAN]
  BY DEF TypeInv, TypeOK, Phases
<1>2. AllHeard' = AllHeard
  BY DEF AllHeard, Heard
<1>3. ASSUME \A d \in Calls : \/ pc'[d] = pc[d] /\ failed'[d] = failed[d]
                              \/ /\ pc[d] \notin {"idle", "done"}
                                 /\ pc'[d] \notin {"idle", "done"}
      PROVE  Stutters
  <2>1. Phase' = Phase
    BY <1>3 DEF Phase
  <2>2. Result' = Result
    BY <1>3 DEF Result, Status
  <2> QED
    BY <1>2, <2>1, <2>2 DEF Stutters
<1>4. ASSUME NEW c \in Calls, Active(c), Advance(c),
             \A d \in Calls \ {c} : failed'[d] = failed[d]
      PROVE  Stutters
  <2>1. pc'[c] \notin {"idle", "done"} /\ \A d \in Calls \ {c} : pc'[d] = pc[d]
    BY <1>4, AdvanceType
  <2> QED
    BY <1>3, <1>4, <2>1 DEF Active
<1>5. ASSUME NEW c \in Calls, Active(c), Raise(c) PROVE Stutters
  <2>1. /\ pc'[c] \notin {"idle", "done"}
        /\ \A d \in Calls \ {c} : pc'[d] = pc[d] /\ failed'[d] = failed[d]
    BY <1>1, <1>5 DEF Raise
  <2> QED
    BY <1>3, <1>5, <2>1 DEF Active
<1>6. ASSUME NEW c \in Calls,
             \/ StartSessionOp(c) \/ GetServiceOp(c) \/ AppendOp(c) \/ SendUnknown(c)
             \/ SendRequest(c) \/ SendRaises(c) \/ CollectRaises(c) \/ Receive(c)
      PROVE  Stutters
  <2>1. CASE Receive(c)
    <3>1. PICK m, u : Takes(c, m, u)
      BY <2>1, ReceiveTakes
    <3>2. /\ Active(c)
          /\ \/ Advance(c) /\ \A d \in Calls \ {c} : failed'[d] = failed[d]
             \/ UNCHANGED <<pc, failed>>
      BY <1>1, <2>1, <3>1, ReceiveTakes DEF Takes, Active
    <3> QED
      BY <1>3, <1>4, <3>2
  <2>2. CASE ~ Receive(c)
    <3>1. Active(c) /\ (Raise(c) \/ (Advance(c) /\ failed' = failed))
      BY <1>6, <2>2 DEF StartSessionOp, GetServiceOp, AppendOp, SendUnknown, SendRequest,
                  SendRaises, CollectRaises, MayRaise, Running, Active, locals
    <3> QED
      BY <1>4, <1>5, <3>1
  <2> QED
    BY <2>1, <2>2
<1>7. ASSUME NEW c \in Calls, SendRegister(c) \/ CollectRegister(c) \/ Unregister(c)
      PROVE  Stutters
  <2>1. /\ failed' = failed
        /\ \A d \in Calls : pc'[d] = pc[d] \/ (pc[d] = "running" /\ pc'[d] \in {"sending", "collecting"})
    BY <1>1, <1>7 DEF SendRegister, CollectRegister, Unregister, Running
  <2> QED
    BY <1>3, <2>1
<1>8. CASE \/ (\E r \in Requests : AnswerArrives(r)) \/ Put
           \/ SessionLost \/ SessionReplaced \/ ManagerStopped \/ UNCHANGED vars
  <2>1. UNCHANGED <<failed, pc>>
    BY <1>8 DEF AnswerArrives, Put, SessionLost, SessionReplaced, ManagerStopped, vars, locals
  <2> QED
    BY <1>3, <2>1
<1> QED
  BY <1>6, <1>7, <1>8 DEF Next, CallStep

LEMMA StepSimulates ==
  ASSUME OwnCids, ContractInv, [Next]_vars
  PROVE  Contract!Next \/ UNCHANGED Contract!vars
<1>1. TypeInv
  BY DEF ContractInv, Inv
<1>2. ASSUME NEW c \in Calls, Begin(c) \/ Return(c) PROVE Contract!Next
  BY <1>1, <1>2, BeginSimulates, ReturnSimulates DEF Contract!Next
<1>3. ASSUME NEW c \in Calls, NEW m, NEW u, EndsCollect(c, m, u) PROVE Contract!Next
  BY <1>3, HearSimulates DEF Contract!Next
<1>4. ASSUME Stutters PROVE UNCHANGED Contract!vars
  BY <1>4 DEF Stutters, Contract!vars, Phase, AllHeard, Heard, Result
<1> QED
  BY <1>1, <1>2, <1>3, <1>4, DataStep, OthersStutter

LEMMA InitSimulates == Init => Contract!Init
<1> SUFFICES ASSUME Init PROVE Contract!Init
  OBVIOUS
<1>1. DOMAIN <<>> = {}
  BY EmptySeq, LenProperties
<1>2. \A c \in Calls : Heard(c) = {}
  BY <1>1 DEF Init, Heard
<1>3. /\ Phase = [c \in Calls |-> "idle"] /\ AllHeard = [c \in Calls |-> {}]
      /\ Result = [c \in Calls |-> "none"]
  BY <1>2 DEF Init, Phase, AllHeard, Result
<1> QED
  BY <1>3 DEF Contract!Init, Phase, AllHeard, Heard, Result

(* What execute() promises its caller (blp_exec.py:74-137, the status of   *)
(* the result): the executor, with its queues, the callback thread and a   *)
(* session that comes and goes, implements ExecuteContract. Each collect   *)
(* that ends adds one whole answer no one has heard before. "ok" means     *)
(* that every collect of the plan was answered and that the normaliser     *)
(* found no error in any message of an answer; "partial" comes with data   *)
(* and "error" without; and a call returns once.                           *)
THEOREM ExecuteKeepsContract ==
  ASSUME OwnCids, SentOnce, CollectsSent
  PROVE  Spec => KeepsContract
<1>1. ContractInv /\ [Next]_vars => ContractInv'
  BY ContractInvStep
<1>2. ContractInv /\ [Next]_vars => [Contract!Next]_(Contract!vars)
  BY StepSimulates
<1>3. Init => ContractInv /\ Contract!Init
  BY ContractInvInit, InitSimulates
<1> QED
  BY <1>1, <1>2, <1>3, PTL DEF Spec, KeepsContract, Contract!Spec

=============================================================================
