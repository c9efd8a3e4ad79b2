---------------------------- MODULE Opportunity ----------------------------
(***************************************************************************)
(* From a model's probability to a position or a named refusal: the        *)
(* decision gates (trading/decision.py, trading/validation.py), the stake  *)
(* (trading/sizing.py), the prices and fills (trading/costs.py,            *)
(* backtest/fills.py) and the configuration they are given (config.py).    *)
(*                                                                         *)
(* Probabilities and prices are grid points 0..Unit that stand for 0 to 1, *)
(* percentages are whole, and money is counted in units small enough for   *)
(* the caller.  c is a configuration, a record of the settings read here.  *)
(***************************************************************************)
EXTENDS Integers, Sequences, FiniteSetsExt

CONSTANTS Unit,     \* grid points between probability 0 and 1
          Logit     \* grid point -> its log-odds, in whole units

Prices == 0..Unit
Fair   == Unit \div 2
Absent == -1        \* a diagnostic that was not supplied (None)
NoReason == "none"

AbsDiff(m, n) == IF m > n THEN m - n ELSE n - m

ASSUME GridAssumption ==
    /\ Unit \in Nat \ {0, 1} /\ Unit = 2 * Fair
    /\ Logit \in [Prices -> Int]
    /\ \A p \in Prices : Logit[Unit - p] = -Logit[p]
    /\ \A p, q \in Prices : p < q => Logit[p] < Logit[q]

\* What Config accepts, section by section, for what is read here: the bounds
\* of the fields and the checks across them.
ValidPrediction(c) ==
    /\ c.minConfidence \in (Fair + 1)..(Unit - 1) /\ c.minEdge \in 1..Fair
    /\ {c.minEv, c.minRoi, c.maxGap, c.maxZ, c.history, c.minHistory} \subseteq Nat \ {0}
    /\ c.minPlausible \in 1..(Fair - 1) /\ c.maxCal \in Nat
    /\ c.trust \in 0..100 /\ c.shrinkage \in 0..100

ValidCosts(c) == /\ {c.slippage, c.feePct, c.gas, c.latency} \subseteq Nat
                 /\ c.style \in {"touch", "mid", "aggressive"} /\ c.pessimistic \in BOOLEAN

ValidExecution(c) ==
    /\ c.lateEdge \in 1..Unit /\ c.maxSpread \in 1..(Unit - 1)
    /\ {c.maxSlippage, c.maxVol} \subseteq Nat \ {0} /\ c.maxSlippage < c.maxSpread
    /\ {c.minInto, c.minLeft, c.minDepth, c.maxAge} \subseteq Nat

ValidSizing(c) ==
    /\ c.mode \in {"kelly", "fixed_fraction", "fixed_usdc"}
    /\ c.kellyPct \in 1..100 /\ c.fixedPct \in 1..25 /\ c.maxRiskPct \in 1..10
    /\ {c.fixedUsdc, c.minPosition, c.maxPosition, c.step} \subseteq Nat \ {0}
    /\ c.minPosition <= c.maxPosition

\* _check_edge_vs_costs(): the slippage and half of the widest spread.  Fees
\* are not counted.
PaysForItself(c) ==
    /\ 2 * c.minEdge >= 2 * c.slippage + c.maxSpread
    /\ c.minConfidence > Fair + c.minEdge

\* _check_window_timing()
LeavesRoom(c) == /\ c.safetyWindow <= c.minLeft
                 /\ c.minInto + c.minLeft < c.window

ValidConfig(c) == /\ ValidPrediction(c) /\ ValidCosts(c)
                  /\ ValidExecution(c) /\ ValidSizing(c)
                  /\ PaysForItself(c) /\ LeavesRoom(c)

-----------------------------------------------------------------------------
(* Quotes and prices *)

\* A quote is for the UP token: [bid, ask, bidDepth, askDepth, age].  A missing
\* side is price 0, which no valid quote has.
Valid(q) == /\ {q.bid, q.ask} \subseteq 1..(Unit - 1)
            /\ q.bid < q.ask

Mid(q) == (q.bid + q.ask) \div 2

Spread(q) == q.ask - q.bid

DepthOfBids(q, side) == q.bidDepth           \* variant: the bids, whatever is bought

DepthFor(q, side) == IF side = "UP" THEN q.askDepth ELSE q.bidDepth

Clamp(price) == Min({Unit - 1, Max({1, price})})

\* DOWN is bought from the resting UP bid, at the complement of its price.
Touch(q, side) == IF side = "UP" THEN q.ask ELSE Unit - q.bid

MidOf(q, side) == IF side = "UP" THEN Mid(q) ELSE Unit - Mid(q)

EntryPrice(c, q, side) == Clamp(Touch(q, side) + c.slippage)

Fee(c, notional) == (notional * c.feePct) \div 100

-----------------------------------------------------------------------------
(* The claim a model makes: [prob, quote, into, left, vol, cal, agree] *)

\* Toward one half, by the configured share of what the calibration error asks.
ShrinkTowardFair(c, prob, cal) ==
    LET scale == IF cal # Absent /\ c.maxCal > 0
                 THEN Min({100, (cal * 100) \div c.maxCal}) ELSE 100
        keep  == 100 - (c.shrinkage * scale) \div 100
    IN  IF prob >= Fair THEN Fair + ((prob - Fair) * keep) \div 100
        ELSE Fair - ((Fair - prob) * keep) \div 100

Divergence(p, market) == AbsDiff(Logit[p], Logit[market])

\* The grid point whose log-odds are nearest the weighted mean of the two.
BlendTowardMarket(p, market, trust) ==
    LET target == trust * Logit[p] + (100 - trust) * Logit[market]
        Miss(x) == AbsDiff(100 * Logit[x], target)
        nearest == {x \in Prices : \A y \in Prices : Miss(x) <= Miss(y)}
    IN  IF trust = 100 THEN p
        ELSE IF trust = 0 THEN market
        ELSE CHOOSE x \in nearest :
                \A y \in nearest : AbsDiff(x, market) <= AbsDiff(y, market)

\* The k-th smallest value of a sequence of integers.
Ranked(s, k) == CHOOSE v \in {s[i] : i \in DOMAIN s} :
                   /\ Cardinality({i \in DOMAIN s : s[i] < v}) < k
                   /\ Cardinality({i \in DOMAIN s : s[i] <= v}) >= k

\* Twice the median: the two middle values, or the middle one twice.
Median2(s) == Ranked(s, (Len(s) + 1) \div 2) + Ranked(s, Len(s) \div 2 + 1)

\* z_score(value) > maxZ, by the median and the median absolute deviation of
\* what was observed so far; silent until enough was.  MAD_TO_SIGMA is 1.4826.
Anomalous(c, seen, value) ==
    LET med2 == Median2(seen)
        mad4 == Median2([i \in DOMAIN seen |-> AbsDiff(2 * seen[i], med2)])
    IN  /\ Len(seen) >= c.minHistory
        /\ IF mad4 = 0 THEN 2 * value # med2
           ELSE (2 * value - med2) * 20000 > c.maxZ * mad4 * 14826

Observe(c, seen, value) ==
    LET all == Append(seen, value)
    IN  IF Len(all) > c.history THEN Tail(all) ELSE all

-----------------------------------------------------------------------------
(* The gates, in the order of decide(); the first that stops names the refusal *)

Gate(reason, stops) == [reason |-> reason, stops |-> stops]

DataGates(c, claim) ==
    << Gate("stale_data", ~Valid(claim.quote)),
       Gate("stale_data", claim.quote.age + c.latency > c.maxAge) >>

MarketGates(c, claim) ==
    << Gate("spread_too_wide", Spread(claim.quote) > c.maxSpread),
       Gate("too_early_in_window", claim.into < c.minInto),
       Gate("too_close_to_settlement", claim.left < c.safetyWindow) >>

RegimeGates(c, claim) ==
    << Gate("abnormal_volatility", claim.vol # Absent /\ claim.vol > c.maxVol),
       Gate("model_uncalibrated", claim.cal # Absent /\ claim.cal > c.maxCal),
       Gate("low_confidence", claim.agree # Absent /\ claim.agree < c.minAgree) >>

\* MarketEdgeValidator.validate(): the ceilings a broken model runs into.
ClaimGates(c, p, market, seen) ==
    << Gate("implausible_probability", p < c.minPlausible \/ p > Unit - c.minPlausible),
       Gate("excessive_disagreement", Divergence(p, market) > c.maxGap),
       Gate("anomalous_edge", Anomalous(c, seen, Divergence(p, market))) >>

\* The edge that is asked for; in the late window another one.
RequiredEdge(c, left) == IF left < c.minLeft THEN c.lateEdge ELSE c.minEdge

OpinionGates(c, claim, side, confidence) ==
    LET q     == claim.quote
        entry == EntryPrice(c, q, side)
        edge  == confidence - entry
    IN  << Gate("low_confidence", confidence < c.minConfidence),
           Gate("insufficient_liquidity", DepthFor(q, side) < c.minDepth),
           Gate("edge_too_small", edge < RequiredEdge(c, claim.left)),
           Gate("negative_ev", edge * 100 < c.minEv * entry),
           Gate("negative_ev", edge * 100 < c.minRoi * entry) >>

FirstRefusal(gates) ==
    LET stops == {i \in DOMAIN gates : gates[i].stops}
    IN  IF stops = {} THEN NoReason ELSE gates[Min(stops)].reason

\* seen is what the validator's monitor holds; a claim that gets as far as the
\* validator is recorded there whether it passes or not.
Decide(c, claim, seen) ==
    LET q      == claim.quote
        p      == ShrinkTowardFair(c, claim.prob, claim.cal)
        early  == DataGates(c, claim) \o MarketGates(c, claim) \o RegimeGates(c, claim)
        gap    == Divergence(p, Mid(q))
        acted  == BlendTowardMarket(p, Mid(q), c.trust)
        side   == IF acted >= Fair THEN "UP" ELSE "DOWN"
        confidence == IF side = "UP" THEN acted ELSE Unit - acted
    IN  [reason |->
            IF FirstRefusal(early) # NoReason THEN FirstRefusal(early)
            ELSE FirstRefusal(ClaimGates(c, p, Mid(q), seen)
                              \o OpinionGates(c, claim, side, confidence)),
         prob |-> IF FirstRefusal(DataGates(c, claim)) = NoReason THEN p ELSE Fair,
         market |-> IF FirstRefusal(DataGates(c, claim)) = NoReason THEN Mid(q) ELSE Fair,
         side |-> side, confidence |-> confidence,
         entry |-> EntryPrice(c, q, side),
         seen |-> IF FirstRefusal(early) # NoReason THEN seen ELSE Observe(c, seen, gap)]

-----------------------------------------------------------------------------
(* PositionSizer.size() *)

Haircut(c, cal) ==
    IF ~c.scaling \/ cal = Absent THEN 100
    ELSE IF c.maxCal > 0 THEN Max({0, 100 - (cal * 100) \div c.maxCal}) ELSE 100

\* The fraction of the bankroll before the caps, as <<numerator, denominator>>.
Fraction(c, bankroll, prob, price) ==
    CASE c.mode = "kelly" -> <<Max({0, prob - price}) * c.kellyPct, (Unit - price) * 100>>
      [] c.mode = "fixed_fraction" -> <<c.fixedPct, 100>>
      [] c.mode = "fixed_usdc" -> <<Min({bankroll, c.fixedUsdc}), bankroll>>

RoundedUp(c, usdc) == ((usdc + c.step - 1) \div c.step) * c.step   \* variant: rounds up to the step

RoundedDown(c, usdc) == (usdc \div c.step) * c.step

Capped(c, bankroll, f) ==
    LET usdc == IF f[1] * 100 > c.maxRiskPct * f[2] THEN (bankroll * c.maxRiskPct) \div 100
                ELSE (bankroll * f[1]) \div f[2]
    IN  RoundedDown(c, Min({usdc, c.maxPosition, bankroll}))

\* [usdc, reason]: the stake, or 0 and why.
Size(c, bankroll, prob, price, cal) ==
    LET f     == Fraction(c, bankroll, prob, price)
        cut   == <<f[1] * Haircut(c, cal), f[2] * 100>>
        usdc  == Capped(c, bankroll, cut)
        gates == << Gate("risk_limit", bankroll <= 0),
                    Gate("stale_data", price \notin 1..(Unit - 1)),
                    Gate("negative_ev", c.mode = "kelly" /\ f[1] = 0),
                    Gate("model_uncalibrated", cut[1] = 0),
                    Gate("size_below_minimum", usdc < c.minPosition) >>
        early == FirstRefusal(SubSeq(gates, 1, 2))
    IN  IF early # NoReason THEN [usdc |-> 0, reason |-> early]
        ELSE [usdc |-> IF FirstRefusal(gates) = NoReason THEN usdc ELSE 0,
              reason |-> FirstRefusal(gates)]

-----------------------------------------------------------------------------
(* FillModel.execute() and CostModel.fill() *)

FillPrice(c, q, side) ==
    CASE c.style = "touch" -> Touch(q, side) + c.slippage
      [] c.style = "mid" -> MidOf(q, side)
      [] c.style = "aggressive" -> Touch(q, side) + c.slippage + Spread(q)

NoFill(reason) == [reason |-> reason, price |-> 0, shares |-> 0, notional |-> 0, fee |-> 0]

\* A stake beyond the recorded depth is cut to it when fills are pessimistic.
Fill(c, q, side, stake) ==
    LET depth == DepthFor(q, side)
        spent == IF c.pessimistic THEN Min({stake, depth}) ELSE stake
        price == Clamp(FillPrice(c, q, side))
    IN  IF ~Valid(q) THEN NoFill("stale_data")
        ELSE IF c.pessimistic /\ depth <= 0 THEN NoFill("insufficient_liquidity")
        ELSE [reason |-> NoReason, price |-> price, shares |-> (spent * Unit) \div price,
              notional |-> spent, fee |-> Fee(c, spent)]

Cost(fill) == fill.notional + fill.fee

Payoff(fill, side, settled) == IF settled = side THEN fill.shares ELSE 0

=============================================================================
