----------------------------- MODULE MCBacktest -----------------------------
(***************************************************************************)
(* Three markets of one series, one tick of which is a quarter of a        *)
(* window, in two lookbacks.  The rows reach every stage: a good and a     *)
(* skewed book, a thin one that fills in part, a stale one, claims for     *)
(* either side, one that is too far from the market.                       *)
(***************************************************************************)
EXTENDS Backtest

MCDayOf  == [t \in Time |-> t \div 9]
MCWeekOf == [t \in Time |-> 0]

MCLogit == [p \in 0..20 |->
    LET half == <<0, 20, 41, 62, 85, 110, 139, 173, 220, 294, 1382>>
    IN  IF p >= 10 THEN half[p - 9] ELSE -half[11 - p]]

Plain == [slippage |-> 1, feePct |-> 2, gas |-> 1, style |-> "touch", pessimistic |-> TRUE,
          latency |-> 1, maxAge |-> 2, maxSpread |-> 2, maxSlippage |-> 1,
          minInto |-> 1, minLeft |-> 2, safetyWindow |-> 1, window |-> 4,
          lateEdge |-> 4, minDepth |-> 20, maxVol |-> 3,
          minConfidence |-> 13, minEdge |-> 2, minEv |-> 2, minRoi |-> 3,
          maxCal |-> 4, minAgree |-> 60, shrinkage |-> 0,
          maxGap |-> 170, minPlausible |-> 1, maxZ |-> 2, history |-> 4, minHistory |-> 2,
          trust |-> 100, mode |-> "kelly", kellyPct |-> 25, fixedPct |-> 1, fixedUsdc |-> 10,
          maxRiskPct |-> 10, maxPosition |-> 88, minPosition |-> 10, scaling |-> TRUE, step |-> 5]

Book(bid, ask, bids, asks, age) ==
    [bid |-> bid, ask |-> ask, bidDepth |-> bids, askDepth |-> asks, age |-> age]

MCConfigs ==
    {Plain,
     [Plain EXCEPT !.style = "aggressive", !.mode = "fixed_fraction", !.fixedPct = 6, !.trust = 70],
     [Plain EXCEPT !.style = "mid", !.mode = "fixed_usdc", !.fixedUsdc = 93, !.shrinkage = 20,
                   !.pessimistic = FALSE],
     [Plain EXCEPT !.trust = 0]}

MCRows ==
    [quote : {Book(9, 11, 200, 300, 1)}, prob : {6, 15}, settled : {"UP", "DOWN"}]
    \cup [quote : {Book(9, 11, 300, 40, 0)}, prob : {15}, settled : {"UP", Void}]
    \cup [quote : {Book(14, 16, 200, 10, 0)}, prob : {16, 19}, settled : {"UP"}]
    \cup [quote : {Book(9, 11, 200, 200, 2), Book(0, 11, 200, 200, 0)}, prob : {15}, settled : {"UP"}]

MCBar == [minTrades |-> 1, minRoi |-> 1, minProfitFactor |-> 115, maxDrawdown |-> 20,
          minAccuracy |-> 50, maxBrier |-> 120, alpha |-> 60]

MCSettle == <<8, 4, 12>>
MCLookbacks == <<4, 8>>

=============================================================================
