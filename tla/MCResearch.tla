----------------------------- MODULE MCResearch -----------------------------
EXTENDS ModelTraining, FeatureEngine, ModelChoice, EdgeScan, PaperRecord

\* Five parts that share no state, each started alone.
VARIABLE part

W == 10
MCBudgets == [book |-> [late |-> 1, hard |-> 3, stale |-> 4, trust |-> 100],
              venue |-> [late |-> 2, hard |-> 4, stale |-> 20, trust |-> 90]]
MCUnregistered == [late |-> 1, hard |-> 2, stale |-> 3, trust |-> 50]
MCGates == [labelled |-> 4, timelines |-> 3, coverage |-> 60, balance |-> 20, low |-> 40, samples |-> 6]

MarketRec(i) ==
  [id |-> i, series |-> "btc", discovered |-> (i - 1) * W, open |-> (i - 1) * W,
   lock |-> i * W - 1, settle |-> i * W, provider |-> "chainlink", spec |-> "s1",
   outcome |-> IF i % 2 = 0 THEN "up" ELSE "down"]

Reading(name, source, event, seen) ==
  [name |-> name, known |-> TRUE, source |-> source, event |-> event, seen |-> seen, notes |-> {}]
Snap(i, h, readings) ==
  [line |-> 10 * i - h, market |-> i, horizon |-> h, at |-> i * W - h, settle |-> i * W,
   obs |-> {Observe(r, i * W - h) : r \in readings}]
Plain(i, h) ==
  Snap(i, h, {Reading("mid", "book", i * W - h - 1, i * W - h),
              Reading("price", "venue", i * W - h - 2, i * W - h)})

Six == {MarketRec(i) : i \in 1..6}
Snaps(n) == {Plain(i, h) : i \in 1..n, h \in {8, 3}}
Good == [markets |-> Six, snapshots |-> Snaps(6)]
Swap(s, t) == [markets |-> Six, snapshots |-> (Snaps(6) \ {s}) \cup {t}]
SwapMarket(i, m) == [markets |-> (Six \ {MarketRec(i)}) \cup {m}, snapshots |-> Snaps(6)]
Late(obs) == Snap(2, 3, {Reading("mid", "book", 16, 17), obs})

MCDatasets ==
  {Good,
   [markets |-> {MarketRec(i) : i \in 1..3}, snapshots |-> Snaps(3)],
   [Good EXCEPT !.snapshots = {}],
   Swap(Plain(2, 3), Late(Reading("price", "venue", 18, 18))),
   Swap(Plain(2, 3), Late(Reading("price", "venue", 17, 19))),
   Swap(Plain(2, 3), Late(Reading("winner", "venue", 15, 17))),
   Swap(Plain(2, 3), Late(Reading("price", "elsewhere", 10, 13))),
   Swap(Plain(6, 3), Snap(6, 3, {Reading("mid", "book", 56, 57)})),
   Swap(Plain(2, 3), [Plain(2, 3) EXCEPT !.at = 18]),
   [Good EXCEPT !.snapshots = Snaps(6) \cup {[Plain(3, 3) EXCEPT !.obs = {}, !.line = 99]}],
   SwapMarket(2, [MarketRec(2) EXCEPT !.outcome = "none"]),
   SwapMarket(6, [MarketRec(6) EXCEPT !.outcome = "none"]),
   SwapMarket(2, [MarketRec(2) EXCEPT !.provider = "binance"]),
   SwapMarket(2, [MarketRec(2) EXCEPT !.lock = 25]),
   SwapMarket(1, [MarketRec(1) EXCEPT !.settle = 20, !.open = 10, !.lock = 19])}
MCDatasetsTwin ==
  {[markets |-> Six \cup {[MarketRec(2) EXCEPT !.id = 7]},
    snapshots |-> Snaps(6) \cup {[Plain(2, h) EXCEPT !.market = 7, !.line = 70 - h] : h \in {8, 3}}]}
AllDatasets == MCDatasets \cup MCDatasetsTwin

MCPlans ==
  {[scheme |-> "expanding", folds |-> 2, trainSize |-> 9, embargo |-> 1, minTrain |-> 2],
   [scheme |-> "rolling", folds |-> 1, trainSize |-> 1, embargo |-> 1, minTrain |-> 3]}

Eval(cols, score, bar, ok) ==
  [columns |-> cols, score |-> score, bars |-> [market |-> bar, logistic |-> 6],
   significant |-> ok, ece |-> 1, deterministic |-> TRUE, fast |-> TRUE, stable |-> TRUE, beats |-> TRUE]
MCEvaluations ==
  {Eval("a", s, 6, TRUE) : s \in {2, 3, 4}}
  \cup {Eval("b", 3, 6, TRUE), Eval("a", 3, 3, TRUE), Eval("a", 3, 6, FALSE),
        [Eval("a", 2, 6, TRUE) EXCEPT !.ece = 3], [Eval("a", 2, 6, TRUE) EXCEPT !.stable = FALSE],
        [Eval("a", 1, 6, TRUE) EXCEPT !.beats = FALSE]}
-----------------------------------------------------------------------------
F(n, deps, raws, priors) == [name |-> n, deps |-> deps, raws |-> raws, priors |-> priors]
\* Feature 4 is the mid, 1 its velocity, 2 its acceleration, 3 a basis to 5.
SixFeatures ==
  <<F(1, {4}, {"clock"}, {4}), F(2, {1}, {"clock"}, {1}), F(3, {4, 5}, {}, {}),
    F(4, {}, {"book"}, {}), F(5, {}, {"quote"}, {}), F(6, {3}, {}, {})>>
MCDeclarations ==
  {SixFeatures, <<F(1, {}, {}, {}), F(1, {}, {}, {})>>, <<F(1, {7}, {}, {})>>}
  \cup {<<F(1, a, {"book"}, {}), F(2, b, {"quote"}, {}), F(3, c, {}, {})>> : a, b, c \in SUBSET (1..3)}

Ways == {<<1, 2, 3>>, <<3, 1, 2>>, <<3, 2, 1>>, <<>>}
MCBenches ==
  [job : {"selection"}, columns : {<<1, 2, 3>>}, constant : {{}, {2}},
   twins : {{}, {{1, 3}}, {{1, 2}, {2, 3}}}, rankings : [1..4 -> Ways], limit : {1, 2}]
  \cup [job : {"search"}, first : {<<1, 2>>}, second : {<<1, 2>>}, trials : 0..4,
        folds : [{1, 2} \X {1, 2} -> {<<2, 3>>, <<3, 2>>, <<1, Failed>>, <<Failed, Failed>>}]]
  \cup [job : {"calibration"}, bins : 1..3, floor : {1},
        forecasts : UNION {[1..n -> [p : {0, 2, 3, 5}, up : BOOLEAN]] : n \in 0..3}]

\* Markets with a row at 60 and, but for the last, one at 30; the last rows
\* are those the folds test on.
ScanRows(n) ==
  [i \in 1..(2 * n - 1) |->
     [market |-> (i + 1) \div 2, settle |-> W * ((i + 1) \div 2), horizon |-> IF i % 2 = 1 THEN 60 ELSE 30]]
ScanOf(n, folds, gains, error) ==
  [rows |-> ScanRows(n), folds |-> folds, horizons |-> <<60, 240, 30>>,
   pnl |-> [i \in 1..(2 * n - 1) |-> IF i + Len(gains) > 2 * n - 1 THEN gains[i + Len(gains) - 2 * n + 1] ELSE 1],
   model |-> [i \in 1..(2 * n - 1) |-> error], book |-> [i \in 1..(2 * n - 1) |-> 2]]
MCScans ==
  {ScanOf(13, 2, gains, error) : gains \in [1..5 -> {-1, 2}], error \in {1, 3}}
  \cup {ScanOf(15, 3, gains, 1) : gains \in [1..5 -> {-1, 3}]}
  \cup {ScanOf(n, 1, <<2>>, 1) : n \in {2, 11}}

\* A favourite bought, an underdog's complement bought, and an abstention.
MCTickets ==
    {[traded |-> TRUE, side |-> "UP", price |-> 4, cost |-> 8, claim |-> 6, book |-> 4],
     [traded |-> TRUE, side |-> "DOWN", price |-> 2, cost |-> 8, claim |-> 4, book |-> 6],
     [traded |-> FALSE, side |-> "none", price |-> 4, cost |-> 0, claim |-> 4, book |-> 4]}
MCPaperBar == [minTrades |-> 2, minRoi |-> 50, alpha |-> 50]

Init ==
  /\ part \in {"training", "engine", "choice", "scan", "record"}
  /\ TrainInit /\ EngineInit /\ BenchInit /\ RecordInit
  /\ ScanInit /\ (part # "scan" => scan = CHOOSE s \in Scans : TRUE)
Next ==
  /\ part' = part
  /\ \/ part = "training" /\ TrainNext /\ UNCHANGED <<engineVars, benchVars, scanVars, recordVars>>
     \/ part = "engine" /\ EngineNext /\ UNCHANGED <<trainVars, benchVars, scanVars, recordVars>>
     \/ part = "choice" /\ BenchNext /\ UNCHANGED <<trainVars, engineVars, scanVars, recordVars>>
     \/ part = "scan" /\ ScanNext /\ UNCHANGED <<trainVars, engineVars, benchVars, recordVars>>
     \/ part = "record" /\ RecordNext /\ UNCHANGED <<trainVars, engineVars, benchVars, scanVars>>
Spec == Init /\ [][Next]_<<part, trainVars, engineVars, benchVars, scanVars, recordVars>>

=============================================================================
