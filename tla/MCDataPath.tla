----------------------------- MODULE MCDataPath -----------------------------
(***************************************************************************)
(* Instances for TLC of what happens to data on its way through the client *)
(* library: the plans of its functions (ClientPlans), what the answers     *)
(* become (Responses), the frames of a subscription (SseClient), and the   *)
(* two strategies that trade on it (Momentum, Topology).  They share no    *)
(* state, so a behaviour is of one of them and the others stay as they are.*)
(***************************************************************************)
EXTENDS TLC, ClientPlans, Responses, SseClient, Momentum, Topology

VARIABLE about    \* which of the five the behaviour is of

MCInit == /\ about \in {"plans", "responses", "frames", "momentum", "topology"}
          /\ ResponsesInit /\ PlansInit /\ SseInit /\ MomentumInit /\ TopologyInit

MCNext ==
  /\ UNCHANGED about
  /\ \/ about = "responses" /\ ResponsesNext /\ UNCHANGED <<call, streamVars, strategyVars, topoVars>>
     \/ about = "plans" /\ PlansNext /\ UNCHANGED <<responseVars, streamVars, strategyVars, topoVars>>
     \/ about = "frames" /\ SseNext /\ UNCHANGED <<responseVars, call, strategyVars, topoVars>>
     \/ about = "momentum" /\ StrategyNext /\ UNCHANGED <<responseVars, call, streamVars, topoVars>>
     \/ about = "topology" /\ TopologyNext /\ UNCHANGED <<responseVars, call, streamVars, strategyVars>>

MCSpec == MCInit /\ [][MCNext]_<<about, responseVars, call, streamVars, strategyVars, topoVars>>

\* The securities of the answers are alike.
AlikeSecurities == Permutations(Securities)

ThreeTickers    == <<"a", "b", "c">>
TickerSectors   == [a |-> "x", b |-> "x", c |-> "y"]
SomeComposites  == {-1, 1, 2}
StockSectors    == <<"x", "x", "y">>
SomeResiduals   == {-20, -3, 0, 12}
=============================================================================
