--------------------------- MODULE PlanExecution ---------------------------
(***************************************************************************)
(* What the server makes of one plan, as operators: validate_plan          *)
(* (executor/validate.py) and a run of the executor in which Bloomberg     *)
(* answers every request at once (executor/blp_exec.py; RequestDispatch    *)
(* has the same loop with all its interleavings).                          *)
(*                                                                         *)
(* A plan is a sequence of operations.  A request is known by its service, *)
(* its type and the element paths it was given, in order; the values are   *)
(* left out.  Bloomberg takes `append` for array elements and `set` for    *)
(* the others (llm.py says so), and raises otherwise.                      *)
(***************************************************************************)
EXTENDS Integers, Sequences, SequencesExt

CONSTANTS Services, Types, Paths,
          Required,        \* REQUIRED_ELEMENTS: Type -> set of paths
          Arrays,          \* the paths of array elements
          AllowedServices, AllowedTypes,
          MaxSecurities, MaxFields, MaxTimeout   \* of the plan and the settings, the smaller

ASSUME PlanExecutionAssumption ==
  /\ Required \in [Types -> SUBSET Paths]
  /\ AllowedServices \subseteq Services /\ AllowedTypes \subseteq Types
  /\ Arrays \subseteq Paths
  /\ {MaxSecurities, MaxFields, MaxTimeout} \subseteq Nat

StartOp == [op |-> "start_session"]
OpenOp(s) == [op |-> "open_service", service |-> s]
CreateOp(s, t, i) == [op |-> "create_request", service |-> s, type |-> t, id |-> i]
AppendOp(i, p) == [op |-> "append", id |-> i, path |-> p]
SetOp(i, p) == [op |-> "set", id |-> i, path |-> p]
PutOp(i, p) == IF p \in Arrays THEN AppendOp(i, p) ELSE SetOp(i, p)
SendOp(i, c) == [op |-> "send_request", id |-> i, cid |-> c]
CollectOp(c, t) == [op |-> "collect_response", cid |-> c, timeout |-> t]

OpsOf(plan, kind) == {plan[n] : n \in {m \in DOMAIN plan : plan[m].op = kind}}
Positions(plan, kind) == {n \in DOMAIN plan : plan[n].op = kind}

----------------------------------------------------------------------------
(* validate_plan.  The elements of an id are gathered over the whole plan: *)
(* where they stand, and who created the id how often, does not count.     *)

ServiceAllowed(plan) ==
  \A o \in OpsOf(plan, "open_service") \cup OpsOf(plan, "create_request") :
    o.service \in AllowedServices

TypeAllowed(plan) == \A o \in OpsOf(plan, "create_request") : o.type \in AllowedTypes

PathsSeen(plan, id) ==
  {o.path : o \in {p \in OpsOf(plan, "append") \cup OpsOf(plan, "set") : p.id = id}}

\* request_types[op.id] = op.request: the last creation of an id decides.
LastType(plan, id) ==
  LET ns == {n \in Positions(plan, "create_request") : plan[n].id = id}
  IN  plan[CHOOSE n \in ns : \A m \in ns : m <= n].type

ElementsPresent(plan) ==
  \A o \in OpsOf(plan, "create_request") :
    Required[LastType(plan, o.id)] \subseteq PathsSeen(plan, o.id)

Appends(plan, path) == Cardinality({n \in Positions(plan, "append") : plan[n].path = path})

TimeoutsAllowed(plan) == \A o \in OpsOf(plan, "collect_response") : o.timeout <= MaxTimeout

Valid(plan) ==
  /\ ServiceAllowed(plan) /\ TypeAllowed(plan)
  /\ ElementsPresent(plan)
  /\ TimeoutsAllowed(plan)
  /\ Appends(plan, "securities") <= MaxSecurities
  /\ Appends(plan, "fields") <= MaxFields

----------------------------------------------------------------------------
(* The executor's loop.  Its state: the requests by id, what was sent by   *)
(* cid, what is still in the queues, what was collected, and the error     *)
(* that ended it.                                                          *)

Fresh == [requests |-> <<>>, sent |-> <<>>, queued |-> {}, registered |-> {},
          got |-> <<>>, error |-> "none"]

Bind(f, k, v) == [x \in DOMAIN f \cup {k} |-> IF x = k THEN v ELSE f[x]]

Failed(run, e) == [run EXCEPT !.error = e]

CreateRequest(run, o) ==
  [run EXCEPT !.requests = Bind(@, o.id, [service |-> o.service, type |-> o.type, paths |-> <<>>])]

\* _append and _set.
PutElement(run, o) ==
  IF o.id \notin DOMAIN run.requests THEN Failed(run, "request not found")
  ELSE IF (o.op = "append") # (o.path \in Arrays) THEN Failed(run, "array element")
  ELSE [run EXCEPT !.requests[o.id].paths = Append(@, o.path)]

\* faulty: the finally clause does not learn of the queue
Unrecorded(run, o) ==
  IF o.id \in DOMAIN run.requests
  THEN [run EXCEPT !.queued = @ \cup {o.cid}, !.sent = Bind(@, o.cid, run.requests[o.id])]
  ELSE Failed(run, "request not found")

\* The queue is registered, the request goes out as it is now, the answer
\* comes in.
SendRequest(run, o) ==
  IF o.id \in DOMAIN run.requests
  THEN [run EXCEPT !.registered = @ \cup {o.cid}, !.queued = @ \cup {o.cid},
                   !.sent = Bind(@, o.cid, run.requests[o.id])]
  ELSE Failed(run, "request not found")

\* A collect takes the answer, or waits for one until its deadline.
CollectResponse(run, o) ==
  IF o.cid \in run.queued
  THEN [run EXCEPT !.queued = @ \ {o.cid},
                   !.got = Append(@, [cid |-> o.cid, request |-> run.sent[o.cid]])]
  ELSE Failed(run, "timeout")

RunOp(run, o) ==
  IF run.error # "none" THEN run
  ELSE CASE o.op = "create_request" -> CreateRequest(run, o)
         [] o.op \in {"append", "set"} -> PutElement(run, o)
         [] o.op = "send_request" -> SendRequest(run, o)
         [] o.op = "collect_response" -> CollectResponse(run, o)
         [] OTHER -> run

Execute(plan) == FoldLeft(RunOp, Fresh, plan)

Status(run) ==
  IF run.error = "none" THEN "ok" ELSE IF run.got # <<>> THEN "partial" ELSE "error"

\* The cids whose queue stays in the table: registered by a collect, and not
\* by a send, which alone the finally clause undoes.
LeftRegistered(plan, run) ==
  LET reached == {n \in Positions(plan, "collect_response") :
                    Execute(SubSeq(plan, 1, n - 1)).error = "none"}
  IN  {plan[n].cid : n \in reached} \ run.registered
============================================================================
