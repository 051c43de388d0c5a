------------------------- MODULE MCRequestDispatch -------------------------
(* Instances of RequestDispatch for TLC.                                   *)
EXTENDS RequestDispatch, TLC

CONSTANTS a, b

TwoCalls == {a, b}

Create(id)    == <<[op |-> "create_request", id |-> id]>>
Build(id)     == Create(id) \o <<[op |-> "append", id |-> id]>>
Send(id, cid) == [op |-> "send_request", id |-> id, cid |-> cid]
Collect(cid)  == [op |-> "collect_response", cid |-> cid]

Opening == <<[op |-> "start_session"], [op |-> "open_service"]>>

(* The plan of RemoteHost's data helpers                                   *)
Fetch(cid) == Opening \o Build("req1") \o <<Send("req1", cid), Collect(cid)>>

(* Beside it, on a cid of its own, a request and then a send of one never  *)
(* created, which validate_plan lets through                               *)
FetchThenFail(cid) ==
  Create("req1") \o <<Send("req1", cid), Collect(cid), Send("req2", cid)>>

MixedPlans == a :> Fetch("cid1") @@ b :> FetchThenFail("cid2")
SamePlans  == [c \in TwoCalls |-> Fetch("cid1")]

OneCall    == {a}
OnePlan    == a :> Fetch("cid1")

=============================================================================
