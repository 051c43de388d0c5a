------------------------------ MODULE Momentum ------------------------------
(***************************************************************************)
(* The multi-factor momentum strategy (strategies/                         *)
(* multi_factor_momentum.py): one strategy object on which run() is called *)
(* again and again, and compute_positions on the signals it returned.      *)
(*                                                                         *)
(* Money is an integer share of the portfolio. A stock of the universe is  *)
(* its ticker and how much price history it was given; a factor score is   *)
(* the ticker, the composite score and the outcome of the filters.         *)
(***************************************************************************)
EXTENDS Integers, FiniteSets, FiniteSetsExt, Sequences, SequencesExt

CONSTANTS Tickers, SectorOf,       \* the index members in order, their sectors
          RawSizes, HighBeta,      \* risk budget / volatility; the tickers of high beta
          MinUniverse, MaxPositions, MinPosition, MaxPosition, MaxSector, Available, \* config
          Composites, VixLevels,   \* the values composite scores and the VIX can take
          MaxStrategyRuns

ASSUME MomentumAssumption ==
  /\ Composites \subseteq Int /\ VixLevels \subseteq Int /\ RawSizes \subseteq Nat
  /\ {MinUniverse, MaxPositions, MinPosition, MaxPosition, MaxSector, Available} \subseteq Nat
  /\ MinPosition <= MaxPosition

VARIABLES universe, scores,        \* self.universe, self.factor_scores: appended to, never cleared
          vix, signals,            \* the signals run() returned, as a function of tickers
          positions, scale,        \* compute_positions: sizes, and the final factor as a fraction
          stage, runs
strategyVars == <<universe, scores, vix, signals, positions, scale, stage, runs>>

MomentumInit == /\ universe = <<>> /\ scores = <<>> /\ vix = 20 /\ signals = <<>>
                /\ positions = <<>> /\ scale = <<1, 1>> /\ stage = "idle" /\ runs = 0

\* fetch_universe: a batch that fails leaves its tickers without data, which fails them;
\* the others pass the filters or not. With too few, run returns {}.
FetchUniverse ==
  /\ stage \in {"idle", "sized"} /\ runs < MaxStrategyRuns /\ runs' = runs + 1
  /\ \E passed \in SUBSET ToSet(Tickers) :
       LET chosen == SelectSeq(Tickers, LAMBDA t : t \in passed) IN
       /\ universe' = universe \o [i \in DOMAIN chosen |-> [ticker |-> chosen[i], prices |-> "none"]]
       /\ stage' = IF Len(chosen) < MinUniverse THEN "idle" ELSE "prices"
       /\ signals' = IF Len(chosen) < MinUniverse THEN <<>> ELSE signals
  /\ positions' = <<>> /\ scale' = <<1, 1>> /\ UNCHANGED <<scores, vix>>

\* fetch_price_data: a batch fails, or brings a history that is too short for the 200-day
\* average or not, to the first stock of the universe with that ticker.
FetchPrices ==
  /\ stage = "prices" /\ stage' = IF scores = <<>> THEN "score" ELSE "failed"
  /\ \E history \in [ToSet(Tickers) -> {"none", "short", "full"}] :
       universe' = [i \in DOMAIN universe |->
         IF /\ \A j \in 1..(i - 1) : universe[j].ticker # universe[i].ticker
            /\ history[universe[i].ticker] # "none"
         THEN [universe[i] EXCEPT !.prices = history[universe[i].ticker]] ELSE universe[i]]
  /\ vix' \in VixLevels                       \* fetch_vix; 20 when that fails
  /\ UNCHANGED <<scores, signals, positions, scale, runs>>

\* calculate_technical_indicators, check_technical_conditions and the other filters of
\* calculate_factor_scores: without a full history the averages stay 0 and the trend fails.
Conditions == [trend : BOOLEAN, rsi : {"low", "entry", "high", "take"}, calm : BOOLEAN,
               blackout : BOOLEAN, news : {"good", "spike", "negative"}]
Passes(c)     == /\ c.trend /\ c.rsi = "entry" /\ c.calm
                 /\ ~c.blackout /\ c.news = "good"
Outcomes(prices) ==
  {[passes |-> Passes(c), take |-> c.rsi = "take"] :
     c \in {d \in Conditions : prices # "full" => ~d.trend /\ d.rsi = "entry" /\ d.calm}}

\* calculate_factor_scores: one score per stock, in descending order of the composite. A
\* later run appends to the scores of an earlier one, and its z-scores index the values of
\* this run by the whole list: an IndexError (some factor varies over the stocks).
Ahead(composite) == Cardinality({i \in DOMAIN scores : scores[i].composite >= composite})
ScoreStocks ==
  /\ stage = "score" /\ Len(scores) < Len(universe)
  /\ LET stock == universe[Len(scores) + 1] IN
     \E c \in Composites : \E o \in Outcomes(stock.prices) :
       scores' = InsertAt(scores, Ahead(c) + 1,
                   [ticker |-> stock.ticker, composite |-> c, passes |-> o.passes, take |-> o.take])
  /\ UNCHANGED <<universe, vix, signals, positions, scale, stage, runs>>
Scored ==
  /\ stage = "score" /\ Len(scores) = Len(universe) /\ stage' = "signal"
  /\ UNCHANGED <<universe, scores, vix, signals, positions, scale, runs>>

\* generate_signals: nothing at VixStop; else the first MaxPositions scores that pass are
\* bought, a profit taker or any other gets 0; the regime scales every signal (in quarters).
VixScale  == IF vix >= 35 THEN 0 ELSE IF vix >= 30 THEN 2 ELSE IF vix >= 25 THEN 3 ELSE 4
Buys(i) ==
  LET open(j) == ~scores[j].take /\ scores[j].passes
  IN open(i) /\ Cardinality({j \in 1..(i - 1) : open(j)}) < MaxPositions
GenerateSignals ==
  /\ stage = "signal" /\ stage' = "returned"
  /\ signals' = [t \in {scores[i].ticker : i \in DOMAIN scores} |->
                   LET i == CHOOSE k \in DOMAIN scores :
                              /\ scores[k].ticker = t
                              /\ \A m \in DOMAIN scores : scores[m].ticker = t => m <= k
                   IN IF Buys(i) THEN scores[i].composite * VixScale ELSE 0]
  /\ UNCHANGED <<universe, scores, vix, positions, scale, runs>>

\* compute_positions: from the strongest signal down, the risk budget, the beta cut, the
\* limits of one position, the strength relative to the strongest, what is left of the
\* sector; dropped when that is below the minimum.
Clip(v)   == IF v < MinPosition THEN MinPosition ELSE IF v > MaxPosition THEN MaxPosition ELSE v
Priced(t) == \E i \in DOMAIN universe :
               /\ universe[i].ticker = t /\ universe[i].prices # "none"
               /\ \A j \in 1..(i - 1) : universe[j].ticker # t
Sized(t, raw, top) ==
  (Clip(IF t \in HighBeta THEN (raw * 3) \div 4 ELSE raw) * signals[t]) \div top
SumOf(sizes, ts) == MapThenSumSet(LAMBDA t : sizes[t], ts)
\* faulty: only the position itself is held against the limit of the sector
AlonePerSector(sizes, t) == MaxSector
Left(sizes, t) ==
  LET used == SumOf(sizes, {u \in DOMAIN sizes : SectorOf[u] = SectorOf[t]})
  IN IF used > MaxSector THEN 0 ELSE MaxSector - used
WithPosition(sizes, bid) ==
  LET left  == Left(sizes, bid.ticker)
      value == IF bid.wanted > left THEN left ELSE bid.wanted
  IN IF ~Priced(bid.ticker) \/ value < MinPosition THEN sizes
     ELSE [u \in DOMAIN sizes \cup {bid.ticker} |-> IF u = bid.ticker THEN value ELSE sizes[u]]
\* and all of them scaled down to the capital that is available.
ComputePositions ==
  /\ stage = "returned" /\ stage' = "sized"
  /\ LET bought == {t \in DOMAIN signals : signals[t] > 0}
     IN \E raw \in [bought -> RawSizes], order \in SetToSeqs(bought) :
          /\ \A i, j \in DOMAIN order : i < j => signals[order[i]] >= signals[order[j]]
          /\ positions' = FoldLeft(WithPosition, <<>>,
               [i \in DOMAIN order |->
                  [ticker |-> order[i],
                   wanted |-> Sized(order[i], raw[order[i]], signals[order[1]])]])
  /\ LET total == SumOf(positions', DOMAIN positions')
     IN scale' = IF total > Available THEN <<Available, total>> ELSE <<1, 1>>
  /\ UNCHANGED <<universe, scores, vix, signals, runs>>

StrategyNext == FetchUniverse \/ FetchPrices \/ ScoreStocks \/ Scored \/ GenerateSignals
                  \/ ComputePositions
StrategySpec == MomentumInit /\ [][StrategyNext]_strategyVars

-----------------------------------------------------------------------------
\* The limits that the code enforces, whatever the order and the sizes, multiplied out with
\* the final factor: the maximum of a position, of a sector and of the whole, the number of
\* positions, each in a stock that passed every filter, and none when the VIX stops trading.
\* The minimum of a position ("Position limits (3-15%)", line 945) holds before the final
\* factor only, which takes positions below it (1002-1007) and drops none, and
\* max_pairwise_correlation (line 144) is never looked at.
EnforcedLimits ==
  stage = "sized" =>
    LET held == DOMAIN positions
        Within(ts, limit) == SumOf(positions, ts) * scale[1] <= limit * scale[2]
    IN /\ \A t \in held : Within({t}, MaxPosition) /\ positions[t] >= MinPosition
       /\ \A t \in held : Within({u \in held : SectorOf[u] = SectorOf[t]}, MaxSector)
       /\ Within(held, Available)
       /\ Cardinality(held) <= MaxPositions
       /\ held # {} => vix < 35
       /\ \A t \in held : \E i \in DOMAIN scores :
            scores[i].ticker = t /\ scores[i].passes /\ ~scores[i].take
=============================================================================
