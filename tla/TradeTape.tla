------------------------------ MODULE TradeTape ------------------------------
(***************************************************************************)
(* The rolling tape of trades behind the flow and volatility features      *)
(* (live/tape.py).  A trade is dropped from the left when it is older than *)
(* the longest window before the trade just added; a metric looks at the   *)
(* trades of its window up to the instant it is asked about.               *)
(*                                                                         *)
(* The tape and the archive are what a feed leaves behind: one must be     *)
(* whole in memory, the other on disk.  They share no state.               *)
(***************************************************************************)
EXTENDS TickArchive, FiniteSetsExt

CONSTANTS
    Stamps,           \* timestamps of trades: the venue's, in any order
    Signed,           \* signed sizes
    MaxWindow,        \* max_window_ms
    MaxTrades         \* bound

ASSUME TapeAssumption ==
    Stamps \subseteq Nat \ {0} /\ Signed \subseteq Int /\ MaxWindow \in Nat

VARIABLES
    trades,           \* the deque
    all               \* every trade since the tape was cleared (history)

tapeVars == <<trades, all>>

AbsSize(t) == IF t.signed < 0 THEN -t.signed ELSE t.signed

\* window(): the places of the trades after now - w, up to now.
Window(s, w, now) == {i \in DOMAIN s : now - w < s[i].at /\ s[i].at <= now}

Cvd(s, w, now) == SumFunctionOnSet([i \in DOMAIN s |-> s[i].signed], Window(s, w, now))
Volume(s, w, now) == SumFunctionOnSet([i \in DOMAIN s |-> AbsSize(s[i])], Window(s, w, now))

LastTradeAt(s) == IF s = <<>> THEN 0 ELSE Max({s[i].at : i \in DOMAIN s})

\* _trim(): from the left, as long as the oldest is before the cutoff.
Trim(s, now) ==
    LET stays == {i \in DOMAIN s : s[i].at >= now - MaxWindow}
    IN  IF stays = {} THEN <<>> ELSE SubSeq(s, Min(stays), Len(s))

TapeInit == trades = <<>> /\ all = <<>>

Add(at, signed) ==
    LET trade == [at |-> at, signed |-> signed]
    IN  /\ Len(all) < MaxTrades
        /\ trades' = Trim(Append(trades, trade), at)
        /\ all' = Append(all, trade)

Clear == /\ all # <<>>
         /\ trades' = <<>> /\ all' = <<>>

TapeNext == Clear \/ \E at \in Stamps, signed \in Signed : Add(at, signed)
TapeSpec == TapeInit /\ [][TapeNext]_tapeVars

-----------------------------------------------------------------------------
\* Trimming is invisible: at an instant no earlier than the newest trade less
\* what the window falls short of the longest one, a window shows every trade
\* ever added that lies in it, so the metrics are those of the whole history,
\* and a flow is never larger than the volume it is divided by.
WindowsAreWhole ==
    LET dropped == Len(all) - Len(trades)
    IN  \A w \in 1..MaxWindow : \A now \in Stamps :
          LastTradeAt(all) - MaxWindow <= now - w =>
            /\ {i \in DOMAIN all : all[i].at \in (now - w + 1)..now}
                 = {dropped + i : i \in Window(trades, w, now)}
            /\ \A i \in Window(trades, w, now) : trades[i] = all[dropped + i]
            /\ Cvd(trades, w, now) \in -Volume(all, w, now)..Volume(all, w, now)

\* What the feeds wrote and counted is what a reader gets: the archive's frames
\* after kills and the tape's windows after disorder and trimming
\* (live/archive.py:62-170, live/tape.py:50-138).
RecordsAreWhole == ReplayIsWhatArrived /\ WindowsAreWhole

=============================================================================
