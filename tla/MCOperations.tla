---------------------------- MODULE MCOperations ----------------------------
EXTENDS ClockService, Alerts, TradeTape, SettlementSpec, Gamma,
        ReferencePrice

\* Parts that share no state, each started alone.
VARIABLE part

MCGrain == [clob |-> 1, binance |-> 0]
MCHourOf == <<1, 1, 1, 2, 2, 3>>
MCDayOf == <<1, 1, 2>>
MCSigned == {-1, 2}

Usd == 1
Usdt == 2
Up == 1
Half == 3
OpenPrice == 1
MCSupports == [chainlink |-> {Usd}, binance |-> {Usdt}]
MCDefault == [chainlink |-> Usd, binance |-> Usdt]
\* What says who settles, and what says when.
MCPayloads ==
    [urls : SUBSET Providers, texts : SUBSET Providers, pairs : SUBSET {Usd, Usdt},
     recurrence : {5}, slugInterval : {5}, open : {10}, slugOpen : {10}, close : {15},
     ties : {{}, {Up}, {Up, Half}}, reference : {0, OpenPrice}]
    \cup
    [urls : {{"chainlink"}}, texts : {{"chainlink"}}, pairs : {{Usd}},
     recurrence : {0, 5, 10}, slugInterval : {0, 5, 10}, open : {0, 10, 12}, slugOpen : {0, 10, 12},
     close : {0, 10, 15, 17, 20}, ties : {{Up}, {2}}, reference : {OpenPrice}]

\* What Gamma's payloads must hold, cut down to what every kind of field needs,
\* and payloads that break it in each way.
Fld(types, required) == [types |-> types, required |-> required]
MCContract ==
    [market |-> [endDate |-> Fld({"str"}, TRUE), bestBid |-> Fld({"int", "float"}, FALSE),
                 events |-> Fld({"list"}, TRUE)],
     event |-> [startTime |-> Fld({"str"}, TRUE), series |-> Fld({"list"}, TRUE)],
     series |-> [recurrence |-> Fld({"str"}, TRUE)]]
Doc(bid, start, recurrence, eventsAre, seriesAre) ==
    [market |-> [endDate |-> "str", bestBid |-> bid, events |-> "list"],
     event |-> [startTime |-> start, series |-> "list"],
     series |-> [recurrence |-> recurrence], eventsAre |-> eventsAre, seriesAre |-> seriesAre]
MCDocuments ==
    {Doc("float", "str", "str", "list", "list"), Doc("str", "str", "str", "list", "list"),
     Doc("float", "str", "null", "list", "list"), Doc("float", "str", "str", "list", "empty"),
     Doc("float", "str", "str", "empty", "list"), Doc("float", "absent", "str", "list", "bare")}

Init ==
  /\ part \in {"clock", "alerts", "archive", "tape", "spec", "requests", "replay", "schema", "price"}
  /\ ClockInit /\ (part # "clock" => skew = 0)
  /\ AlertInit /\ ArchiveInit /\ TapeInit
  /\ SpecInit /\ (part # "spec" => payload = CHOOSE p \in Payloads : TRUE)
  /\ RequestInit /\ (part # "requests" => market = "open")
  /\ ReplayInit /\ (part # "replay" => reading = [f \in Forms |-> NoReading] /\ dayOrder = SetToSeq(Days))
  /\ SchemaInit /\ PriceInit

Next ==
  /\ part' = part
  /\ \/ part = "clock" /\ ClockNext
        /\ UNCHANGED <<alertVars, archiveVars, tapeVars, specVars, requestVars,
                       archiveReplayVars, schemaVars, priceVars>>
     \/ part = "alerts" /\ AlertNext
        /\ UNCHANGED <<clockVars, archiveVars, tapeVars, specVars, requestVars,
                       archiveReplayVars, schemaVars, priceVars>>
     \/ part = "archive" /\ ArchiveNext
        /\ UNCHANGED <<clockVars, alertVars, tapeVars, specVars, requestVars,
                       archiveReplayVars, schemaVars, priceVars>>
     \/ part = "tape" /\ TapeNext
        /\ UNCHANGED <<clockVars, alertVars, archiveVars, specVars, requestVars,
                       archiveReplayVars, schemaVars, priceVars>>
     \/ part = "spec" /\ SpecNext
        /\ UNCHANGED <<clockVars, alertVars, archiveVars, tapeVars, requestVars,
                       archiveReplayVars, schemaVars, priceVars>>
     \/ part = "requests" /\ RequestNext
        /\ UNCHANGED <<clockVars, alertVars, archiveVars, tapeVars, specVars,
                       archiveReplayVars, schemaVars, priceVars>>
     \/ part = "replay" /\ ReplayNext
        /\ UNCHANGED <<clockVars, alertVars, archiveVars, tapeVars, specVars,
                       requestVars, schemaVars, priceVars>>
     \/ part = "schema" /\ SchemaNext
        /\ UNCHANGED <<clockVars, alertVars, archiveVars, tapeVars, specVars,
                       requestVars, archiveReplayVars, priceVars>>
     \/ part = "price" /\ PriceNext
        /\ UNCHANGED <<clockVars, alertVars, archiveVars, tapeVars, specVars,
                       requestVars, archiveReplayVars, schemaVars>>

vars == <<part, clockVars, alertVars, archiveVars, tapeVars, specVars,
          requestVars, archiveReplayVars, schemaVars, priceVars>>
Spec == Init /\ [][Next]_vars

=============================================================================
