---------------------------- MODULE ReferencePrice ----------------------------
(***************************************************************************)
(* The reference price of a snapshot, on its two ways: from the stream     *)
(* (live/binance.py), with the price the window opened at taken by the     *)
(* service (live/service.py); and from one-minute bars asked for by the    *)
(* polling collector (dataset/providers.py).                               *)
(*                                                                         *)
(* A price is the moment of the trade or quote that made it, so that what  *)
(* a snapshot holds can be compared with what its stamps say.  One market, *)
(* whose window opens at WindowOpen; moment 0 is none.                     *)
(***************************************************************************)
EXTENDS Integers, FiniteSetsExt

CONSTANTS
    WindowOpen,       \* a multiple of Bar
    Warmup,           \* feeds.warmup_seconds
    Instants,         \* of the snapshots
    Bar, History,     \* length of a bar, bars fetched before the window
    LastMoment, MaxOutages \* bounds

\* The bars asked for are of the time after the epoch.
ASSUME PriceAssumption ==
    /\ Bar \in Nat \ {0} /\ History \in Nat
    /\ WindowOpen \in Nat /\ WindowOpen % Bar = 0 /\ WindowOpen > History * Bar
    /\ Instants \subseteq Nat /\ \A t \in Instants : t >= WindowOpen

VARIABLES
    moment,
    printed,          \* moments of the venue's trades
    last,             \* tape.last_price
    quote,            \* best_bid and best_ask, quote_time_ms
    linked,           \* the stream is connected
    session,          \* the moment the MarketSession was opened
    openPrice,        \* session.window_open_price
    read,             \* what was read from bars at this moment, or NotRead
    heard,            \* the trades this process received (history)
    looked,           \* the moment of the first look at the session once its window was open (history)
    outages

priceVars == <<moment, printed, last, quote, linked, session, openPrice, read, heard, looked, outages>>
feed == <<last, quote, linked>>

NotRead == [at |-> 0]

-----------------------------------------------------------------------------
(* The stream. *)

\* last_price: of the tape if it has one, else the quote's mid.
LastPrice == IF last # 0 THEN last ELSE quote

PriceInit ==
    /\ moment = WindowOpen - History * Bar /\ printed = {}
    /\ last = 0 /\ quote = 0 /\ linked = FALSE
    /\ session = 0 /\ openPrice = 0 /\ read = NotRead
    /\ heard = {} /\ looked = 0 /\ outages = 0

\* Scans, retried label passes and back-offs lie between two looks of the
\* service: any time may pass.
NextMoment ==
    /\ moment < LastMoment
    /\ moment' = moment + 1 /\ read' = NotRead
    /\ UNCHANGED <<printed, feed, session, openPrice, heard, looked, outages>>

\* _on_agg_trade()
AggTrade ==
    /\ moment \notin printed
    /\ printed' = printed \cup {moment}
    /\ IF linked THEN last' = moment /\ heard' = heard \cup {moment}
                 ELSE UNCHANGED <<last, heard>>
    /\ UNCHANGED <<moment, quote, linked, session, openPrice, read, looked, outages>>

\* _on_book_ticker()
BookTicker ==
    /\ linked /\ quote # moment
    /\ quote' = moment
    /\ UNCHANGED <<moment, printed, last, linked, session, openPrice, read, heard, looked, outages>>

\* on_disconnect(): the quote goes, the tape stays.
Disconnect ==
    /\ linked /\ outages < MaxOutages
    /\ linked' = FALSE /\ quote' = 0 /\ outages' = outages + 1
    /\ UNCHANGED <<moment, printed, last, session, openPrice, read, heard, looked>>

Connect ==
    /\ ~linked
    /\ linked' = TRUE
    /\ UNCHANGED <<moment, printed, last, quote, session, openPrice, read, heard, looked, outages>>

\* The service is killed and starts again, with feeds and sessions of its own.
RestartService ==
    /\ outages < MaxOutages
    /\ last' = 0 /\ quote' = 0 /\ linked' = FALSE
    /\ session' = 0 /\ openPrice' = 0 /\ heard' = {} /\ looked' = 0
    /\ outages' = outages + 1
    /\ UNCHANGED <<moment, printed, read>>

-----------------------------------------------------------------------------
(* The service. *)

\* _sync_sessions(): from the warm-up on.
OpenSession ==
    /\ session = 0 /\ moment >= WindowOpen - Warmup
    /\ session' = moment
    /\ UNCHANGED <<moment, printed, feed, openPrice, read, heard, looked, outages>>

\* A slip: the price is taken as soon as there is one.
OpenPriceEarly == IF openPrice # 0 THEN openPrice ELSE LastPrice

\* _capture_open_price(): once, from the opening on.
OpenPriceAfter == IF openPrice # 0 \/ moment < WindowOpen THEN openPrice ELSE LastPrice

\* _capture_due_snapshots(): the open price first, then what is due.
Look ==
    /\ session # 0
    /\ openPrice' = OpenPriceAfter
    /\ looked' = IF looked = 0 /\ moment >= WindowOpen THEN moment ELSE looked
    /\ UNCHANGED <<moment, printed, feed, session, read, heard, outages>>

-----------------------------------------------------------------------------
(* The polling collector. *)

\* _fetch_bars() up to the instant: the last may not have closed.
Fetched(t) == (WindowOpen \div Bar - History)..(t \div Bar)

\* Only bars that closed by the instant.
Usable(t) == {b \in Fetched(t) : (b + 1) * Bar <= t}

\* ref_open_price: the window's first bar, else the first bar there is.
OpeningBar(t) ==
    LET inWindow == {b \in Usable(t) : b * Bar >= WindowOpen}
    IN  IF inWindow # {} THEN Min(inWindow) ELSE Min(Usable(t))

\* What the bars are made of when they are fetched.
Content(bars) == {p \in printed : p \div Bar \in bars}

\* Asked for when the instant has come, answered whenever.
Poll(t) ==
    /\ t <= moment
    /\ read' = [at |-> t, holds |-> Content(Usable(t)),
                stamp |-> IF Usable(t) = {} THEN t ELSE (Max(Usable(t)) + 1) * Bar,
                open |-> IF Usable(t) = {} THEN 0 ELSE OpeningBar(t) * Bar]
    /\ UNCHANGED <<moment, printed, feed, session, openPrice, heard, looked, outages>>

PriceNext ==
    \/ NextMoment \/ AggTrade \/ BookTicker \/ Disconnect \/ Connect \/ RestartService
    \/ OpenSession \/ Look
    \/ \E t \in Instants : Poll(t)

PriceSpec == PriceInit /\ [][PriceNext]_priceVars

-----------------------------------------------------------------------------
\* However late it is fetched, a reading from bars holds no trade after its
\* instant, and its open is the window's first bar as soon as that has closed.
\* Whatever delays its looks, the price the service measures a window from is
\* not taken before the opening; it is the latest the process had heard at its
\* first look from then on, and what it hears later does not change it.
PricesOfTheirTime ==
    /\ read.at # 0 =>
         /\ \A p \in read.holds : p < read.at /\ p < read.stamp
         /\ read.at >= WindowOpen + Bar => read.open = WindowOpen
    /\ openPrice # 0 => looked # 0
    /\ looked # 0 => \A p \in heard : p < looked => p <= openPrice /\ openPrice <= looked

=============================================================================
