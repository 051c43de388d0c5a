------------------------------ MODULE Topology ------------------------------
(***************************************************************************)
(* The algebraic topology strategy (strategies/algebraic_topology.py): one *)
(* strategy object, run() on it again and again, and compute_positions on  *)
(* the signals. Market data, Laplacian and topological features are fields *)
(* of the object; the last two carry here the number of the market data    *)
(* they were computed from (0 for None).                                   *)
(*                                                                         *)
(* Persistent homology is the fallback that needs no ripser: components of *)
(* the graph of pairs at most a threshold apart, for rising thresholds.    *)
(* Distances are ranks. A signal is in tenths, times the number of         *)
(* securities, so that their mean is an integer.                           *)
(***************************************************************************)
EXTENDS Integers, FiniteSets, FiniteSetsExt, Sequences, SequencesExt

CONSTANTS Stocks, TopoSectorOf,       \* 1..n, and their sectors
          Thresholds, Residuals,          \* the ranks 0..m; residual z-scores, in tenths
          MinSecurities, Unit, MinStake, MaxStake, MaxNet,    \* StrategyConfig
          MaxTopologyRuns

ASSUME TopologyAssumption ==
  /\ IsFiniteSet(Stocks) /\ Stocks \subseteq Int /\ Residuals \subseteq Int
  /\ {Unit, MinStake, MaxStake, MaxNet} \subseteq Nat

VARIABLES market, laplacian, features,    \* numbers of the market data
          topoVix,
          traded, distance,               \* market_data.securities, and how far apart they are
          thresh, visited, stack, components, betti,    \* _simplified_persistence
          zeroed, signal, stakes,         \* blackout, generate_signals, compute_positions
          step
topoVars == <<market, laplacian, features, topoVix, traded, distance, thresh, visited, stack,
              components, betti, zeroed, signal, stakes, step>>
homology == <<thresh, visited, stack, components, betti>>
outcome  == <<zeroed, signal, stakes>>

Pairs == {p \in Stocks \X Stocks : p[1] < p[2]}
Near(i, j) == i = j \/ distance[<<IF i < j THEN i ELSE j, IF i < j THEN j ELSE i>>] <= thresh

TopologyInit == /\ market = 0 /\ laplacian = 0 /\ features = 0 /\ topoVix = 20 /\ traded = {}
                /\ distance = [p \in Pairs |-> 0] /\ step = "idle"
                /\ thresh = 0 /\ visited = {} /\ stack = <<>> /\ components = 0 /\ betti = <<>>
                /\ zeroed = {} /\ signal = <<>> /\ stakes = <<>>

\* fetch_data: the filters, failed batches and short histories leave some of the members;
\* the VIX, 20 when it cannot be fetched; the correlations. run gives up below MinSecurities.
FetchData ==
  /\ step \in {"idle", "done"} /\ market < MaxTopologyRuns /\ market' = market + 1
  /\ topoVix' \in {20, 25, 30, 35}
  /\ traded' \in SUBSET Stocks
  /\ distance' \in [Pairs -> Thresholds]
  /\ step' = IF Cardinality(traded') < MinSecurities THEN "idle" ELSE "laplacian"
  /\ zeroed' = {} /\ signal' = <<>> /\ stakes' = <<>>
  /\ thresh' = 0 /\ visited' = {} /\ stack' = <<>> /\ components' = 0 /\ betti' = <<>>
  /\ UNCHANGED <<laplacian, features>>

\* build_graph_laplacian: run always rebuilds it from the rolling correlation.
\* faulty: only when there is none yet
KeptLaplacian == IF laplacian = 0 THEN market ELSE laplacian
Rebuilt       == market
BuildLaplacian == /\ step = "laplacian" /\ laplacian' = Rebuilt /\ step' = "search"
                  /\ UNCHANGED <<market, features, topoVix, traded, distance, homology, outcome>>

\* _simplified_persistence: a depth-first search from every node not visited; the stack may
\* hold a node more than once.
\* faulty: an edge is followed only to a later node
Later(node)     == {j \in traded : j >= node /\ Near(node, j)}
Neighbors(node) == {j \in traded : Near(node, j)}
Pop == /\ stack # <<>>
       /\ LET node == Last(stack) IN
          IF node \in visited THEN stack' = Front(stack) /\ UNCHANGED visited
          ELSE /\ visited' = visited \cup {node}
               /\ \E next \in SetToSeqs(Neighbors(node)) :
                    /\ \A i, j \in DOMAIN next : i < j => next[i] < next[j]
                    /\ stack' = Front(stack) \o next
       /\ components' = IF stack' = <<>> THEN components + 1 ELSE components
       /\ UNCHANGED <<thresh, betti, features, step>>
FromNext == /\ stack = <<>> /\ traded \ visited # {}
            /\ stack' = <<Min(traded \ visited)>>
            /\ UNCHANGED <<thresh, visited, components, betti, features, step>>
NextThreshold ==
  /\ stack = <<>> /\ traded \subseteq visited
  /\ betti' = Append(betti, components) /\ components' = 0 /\ visited' = {}
  /\ IF thresh + 1 \in Thresholds THEN thresh' = thresh + 1 /\ UNCHANGED <<features, step>>
     ELSE features' = market /\ step' = "signals" /\ UNCHANGED thresh
  /\ UNCHANGED stack
Search == /\ step = "search" /\ (Pop \/ FromNext \/ NextThreshold)
          /\ UNCHANGED <<market, laplacian, topoVix, traded, distance, outcome>>

\* generate_signals: 0 for all when the VIX stops trading, 0 in an earnings blackout, else
\* the reverted residual after the VIX and entropy adjustments (percent), clipped to one;
\* then the mean is taken from every signal that is not 0.
VixAdjustment == IF topoVix >= 30 THEN 50 ELSE IF topoVix >= 25 THEN 75 ELSE 100
Reverted(z, entropy) == LET raw == (-z * VixAdjustment * entropy) \div 10000
                        IN IF raw > 10 THEN 10 ELSE IF raw < -10 THEN -10 ELSE raw
Neutral(raw) == [i \in DOMAIN raw |->
  IF raw[i] = 0 THEN 0
  ELSE Cardinality(traded) * raw[i] - MapThenSumSet(LAMBDA j : raw[j], DOMAIN raw)]
GenerateTopologySignals ==
  /\ step = "signals" /\ step' = "positions"
  /\ \E z \in [traded -> Residuals], entropy \in {50, 100} :
       /\ zeroed' \in SUBSET traded
       /\ signal' = IF topoVix >= 35 THEN [i \in traded |-> 0]
                    ELSE Neutral([i \in traded |-> IF i \in zeroed' THEN 0
                                                   ELSE Reverted(z[i], entropy)])
  /\ UNCHANGED <<market, laplacian, features, topoVix, traded, distance, homology, stakes>>

\* compute_positions: from the strongest signal to the weakest of at least a tenth, the risk
\* budget clipped to the limits, in the direction of the signal, cut to what the net of the
\* sector leaves.
Abs(x)  == IF x < 0 THEN -x ELSE x
Sign(x) == IF x < 0 THEN -1 ELSE 1
Clipped(x) == IF x < MinStake THEN MinStake ELSE IF x > MaxStake THEN MaxStake ELSE x
Net(held, sector) ==
  MapThenSumSet(LAMBDA i : held[i], {i \in DOMAIN held : TopoSectorOf[i] = sector})
Cut(net, value) == IF Abs(net + value) <= MaxNet THEN value
                   ELSE Sign(value) * Min({Abs(value), MaxNet - Abs(net)})
WithStake(held, i) ==
  LET net   == Net(held, TopoSectorOf[i])
      value == Sign(signal[i]) * Clipped((Abs(signal[i]) * Unit) \div Cardinality(traded))
  IN IF \/ Abs(signal[i]) < Cardinality(traded)
        \/ Abs(net + value) > MaxNet /\ MaxNet <= Abs(net)
     THEN held
     ELSE [j \in DOMAIN held \cup {i} |-> IF j = i THEN Cut(net, value) ELSE held[j]]
ComputeStakes ==
  /\ step = "positions" /\ step' = "done"
  /\ \E order \in SetToSeqs(traded) :
       /\ \A i, j \in DOMAIN order : i < j => Abs(signal[order[i]]) >= Abs(signal[order[j]])
       /\ stakes' = FoldLeft(WithStake, <<>>, order)
  /\ UNCHANGED <<market, laplacian, features, topoVix, traded, distance, homology, zeroed, signal>>

TopologyNext == FetchData \/ BuildLaplacian \/ Search \/ GenerateTopologySignals \/ ComputeStakes
TopologySpec == TopologyInit /\ [][TopologyNext]_topoVars

-----------------------------------------------------------------------------
\* The search counts connected components (lines 627-657): at every threshold the count is
\* the number of classes of "joined by a chain of near pairs", the reference definition.
Joined(t) ==
  LET reach[k \in 0..Cardinality(traded)] ==
        IF k = 0 THEN {p \in traded \X traded :
                         p[1] = p[2] \/ distance[<<Min({p[1], p[2]}), Max({p[1], p[2]})>>] <= t}
        ELSE reach[k - 1] \cup {p \in traded \X traded :
               \E m \in traded : <<p[1], m>> \in reach[k - 1] /\ <<m, p[2]>> \in reach[k - 1]}
  IN reach[Cardinality(traded)]
BettiIsComponents ==
  \A k \in DOMAIN betti :
    betti[k] = Cardinality({{j \in traded : <<i, j>> \in Joined(k - 1)} : i \in traded})

\* A portfolio is made from the market data of its own run: Laplacian and features are not
\* those of an earlier one (lines 872-889). It holds no stock in an earnings blackout and
\* nothing when the VIX stops trading, and no sector's net exceeds its limit (lines 831-844).
StakesAreOfThisMarket ==
  step = "done" =>
    /\ laplacian = market /\ features = market
    /\ DOMAIN stakes \cap zeroed = {}
    /\ topoVix >= 35 => stakes = <<>>
    /\ \A i \in DOMAIN stakes : Abs(Net(stakes, TopoSectorOf[i])) <= MaxNet
=============================================================================
