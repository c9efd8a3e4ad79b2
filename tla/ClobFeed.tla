------------------------------ MODULE ClobFeed ------------------------------
(***************************************************************************)
(* One market's order books, kept from the venue's stream: the reconnect   *)
(* loop of WebSocketFeed (live/feed.py), the handler of                    *)
(* PolymarketMarketFeed (live/clob.py) and OrderBook (live/book.py).       *)
(*                                                                         *)
(* The venue moves its books, tells each move to the connections that are  *)
(* up and sends whole books when it is subscribed to and whenever it       *)
(* likes.  A connection delivers its frames in order until it fails; the   *)
(* frames that were under way are then lost.  The venue may deliver a book *)
(* twice.  A book's hash names its version, so that a book that did not    *)
(* move is sent under the hash it had.                                     *)
(***************************************************************************)
EXTENDS Integers, SequencesExt

CONSTANTS
    Token,            \* the outcome tokens of the market
    Bids, Asks,       \* the price levels of each side
    Size,             \* what may rest on a level; 0 is an absent level
    FirstBook,        \* token -> the venue's book at the start
    Budget,           \* staleness_budget_ms, in ticks
    HashWindow,       \* maxlen of _seen_hashes
    MaxTime,          \* bound: ticks
    MaxMoves,         \* bound: how often the venue moves one book
    MaxWire,          \* bound: frames under way
    MaxConnections    \* bound: how often the venue accepts the feed

Level == Bids \cup Asks
Book  == [Level -> Size]

ASSUME FeedAssumption ==
    /\ 0 \in Size /\ Size \subseteq Nat
    /\ IsFiniteSet(Token)
    /\ FirstBook \in [Token -> Book]
    /\ Budget \in Nat /\ HashWindow \in Nat \ {0} /\ MaxTime \in Nat \ {0}

VARIABLES
    past,             \* token -> the venue's books so far, by version
    wire,             \* the frames under way on the connection
    now,              \* the feed's clock
    state,            \* health.state
    up,               \* health.transport_connected
    connectedAt,      \* health.connected_at_ms
    connectedMs,      \* health.connected_ms
    lastFrame,        \* health.last_frame_ms
    seen,             \* health._seen_hashes, oldest first
    book,             \* token -> its OrderBook
    shown,            \* token -> newest version this connection has told of
    whole,            \* the tokens whose whole book this connection has applied
    told,             \* the levels this connection has told of
    connectedFor,     \* ticks the transport has really been up
    connections

vars == <<past, wire, now, state, up, connectedAt, connectedMs, lastFrame, seen,
          book, shown, whole, told, connectedFor, connections>>
uptime == <<connectedAt, connectedMs, connectedFor, connections>>
view   == <<book, shown, whole, told>>

FeedState == {"IDLE", "CONNECTING", "LIVE", "STALE", "RECONNECTING", "STOPPED"}

EmptyBook == [l \in Level |-> 0]
NoBooks   == [t \in Token |-> EmptyBook]

-----------------------------------------------------------------------------
(***************************************************************************)
(* Frames, and what the handler does with one.                             *)
(***************************************************************************)

BookFrame(t, v)      == [kind |-> "book", token |-> t, version |-> v]
ChangeFrame(t, v, l) == [kind |-> "price_change", token |-> t, version |-> v, level |-> l]

Hash(f) == <<f.token, f.version>>

NeverDuplicate(f) == FALSE                         \* variant: redelivery goes unnoticed

IsDuplicate(f) == f.kind = "book" /\ Hash(f) \in ToSet(seen)

\* observe_hash(): a frame without a hash is never remembered.
Remember(f) ==
    IF f.kind # "book" \/ Hash(f) \in ToSet(seen) THEN seen
    ELSE Append(IF Len(seen) = HashWindow THEN Tail(seen) ELSE seen, Hash(f))

LevelsOf(f) == IF f.kind = "book" THEN Level ELSE {f.level}

\* replace() takes the whole book of the frame, apply_change() one level of it.
Applied(f) ==
    [l \in Level |-> IF l \in LevelsOf(f) THEN past[f.token][f.version][l]
                                          ELSE book[f.token][l]]

Larger(a, b) == IF a > b THEN a ELSE b

\* The loop body of _consume() with handle(): one frame off the socket.
Handle(f) ==
    /\ state' = "LIVE"
    /\ lastFrame' = now
    /\ seen' = Remember(f)
    /\ shown' = [shown EXCEPT ![f.token] = Larger(@, f.version)]
    /\ IF IsDuplicate(f)
         THEN UNCHANGED <<book, whole, told>>
         ELSE /\ book' = [book EXCEPT ![f.token] = Applied(f)]
              /\ whole' = IF f.kind = "book" THEN whole \cup {f.token} ELSE whole
              /\ told' = told \cup ({f.token} \X LevelsOf(f))

-----------------------------------------------------------------------------
(***************************************************************************)
(* The venue.                                                              *)
(***************************************************************************)

Version(t) == Len(past[t])

\* The frames of a snapshot of every book, in some fixed order.
Snapshots == SetToSeq({BookFrame(t, Version(t)) : t \in Token})

Init == /\ past = [t \in Token |-> <<FirstBook[t]>>]
        /\ wire = <<>>
        /\ now = 1 /\ lastFrame = 0
        /\ state = "IDLE" /\ up = FALSE
        /\ connectedAt = 0 /\ connectedMs = 0 /\ connectedFor = 0
        /\ seen = <<>>
        /\ book = NoBooks /\ shown = [t \in Token |-> 0]
        /\ whole = {} /\ told = {}
        /\ connections = 0

\* A level of a book changes, and every subscriber is told.
Move(t, l, s) ==
    /\ Version(t) <= MaxMoves /\ Len(wire) < MaxWire
    /\ Last(past[t])[l] # s
    /\ past' = [past EXCEPT ![t] = Append(@, [Last(@) EXCEPT ![l] = s])]
    /\ wire' = IF up THEN Append(wire, ChangeFrame(t, Version(t) + 1, l)) ELSE wire
    /\ UNCHANGED <<now, state, up, lastFrame, seen, uptime, view>>

\* The venue sends a whole book without being asked.
SendBook(t) ==
    /\ up /\ Len(wire) < MaxWire
    /\ wire' = Append(wire, BookFrame(t, Version(t)))
    /\ UNCHANGED <<past, now, state, up, lastFrame, seen, uptime, view>>

-----------------------------------------------------------------------------
(***************************************************************************)
(* The feed.                                                               *)
(***************************************************************************)

Tick == /\ now < MaxTime
        /\ now' = now + 1
        /\ connectedFor' = IF up THEN connectedFor + 1 ELSE connectedFor
        /\ UNCHANGED <<past, wire, state, up, lastFrame, seen, view,
                       connectedAt, connectedMs, connections>>

ConnectOnce ==                                     \* variant: a failure ends the task
    /\ state = "IDLE"
    /\ state' = "CONNECTING"
    /\ UNCHANGED <<past, wire, now, up, lastFrame, seen, uptime, view>>

\* start(), or the end of the wait between two attempts.
Connecting ==
    /\ state \in {"IDLE", "RECONNECTING"}
    /\ state' = "CONNECTING"
    /\ UNCHANGED <<past, wire, now, up, lastFrame, seen, uptime, view>>

\* The venue accepts, the feed subscribes and the venue answers with its books.
Connect ==
    /\ state = "CONNECTING" /\ connections < MaxConnections
    /\ state' = "LIVE"
    /\ up' = TRUE
    /\ connectedAt' = now
    /\ connections' = connections + 1
    /\ wire' = Snapshots
    /\ UNCHANGED <<past, now, lastFrame, seen, connectedMs, connectedFor, view>>

\* The next frame arrives.
Receive ==
    /\ up /\ wire # <<>>
    /\ Handle(Head(wire))
    /\ wire' = Tail(wire)
    /\ UNCHANGED <<past, now, up, uptime>>

\* A book of the last HashWindow arrives once more.
Redelivered(h) ==
    /\ up
    /\ Handle(BookFrame(h[1], h[2]))
    /\ UNCHANGED <<past, wire, now, up, uptime>>

\* Nothing for the whole budget: recv() times out and the connection is kept.
Quiet ==
    /\ up /\ wire = <<>>
    /\ now - Larger(lastFrame, connectedAt) >= Budget
    /\ state' = "STALE"
    /\ UNCHANGED <<past, wire, now, up, lastFrame, seen, uptime, view>>

SessionSoFar == IF connectedAt # 0 THEN now - connectedAt ELSE 0

BankTwice ==                                       \* variant: connected_at_ms is not reset
    connectedMs' = connectedMs + SessionSoFar /\ UNCHANGED connectedAt

\* Banks the session that ends, if one was open.
BankUptime == connectedMs' = connectedMs + SessionSoFar /\ connectedAt' = 0

\* on_disconnect(): the books are emptied; the hashes are kept.
DropBooks == /\ book' = NoBooks
             /\ shown' = [t \in Token |-> 0]
             /\ whole' = {} /\ told' = {}

\* connect() or recv() raises: the tail of the loop of _run().
Disconnect ==
    /\ state \in {"CONNECTING", "LIVE", "STALE"}
    /\ state' = "RECONNECTING"
    /\ up' = FALSE
    /\ wire' = <<>>
    /\ BankUptime
    /\ DropBooks
    /\ UNCHANGED <<past, now, lastFrame, seen, connectedFor, connections>>

\* stop(): closing the socket lets the loop run out, or the task is cancelled
\* first and neither banks the session nor empties the books.
Stop ==
    /\ state \notin {"IDLE", "STOPPED"}
    /\ state' = "STOPPED"
    /\ up' = FALSE
    /\ wire' = <<>>
    /\ \/ up /\ BankUptime /\ DropBooks
       \/ UNCHANGED <<connectedAt, connectedMs, view>>
    /\ UNCHANGED <<past, now, lastFrame, seen, connectedFor, connections>>

Next ==
    \/ Tick \/ Connecting \/ Connect \/ Receive \/ Quiet \/ Disconnect \/ Stop
    \/ \E h \in ToSet(seen) : Redelivered(h)
    \/ \E t \in Token : SendBook(t)
    \/ \E t \in Token, l \in Level, s \in Size : Move(t, l, s)

Spec == Init /\ [][Next]_vars

\* The task runs, and a venue that may still be reached accepts in the end.
LiveSpec == Spec /\ WF_vars(Connecting) /\ SF_vars(Connect) /\ WF_vars(Receive)

-----------------------------------------------------------------------------
TwoSided(b) == (\E l \in Bids : b[l] > 0) /\ (\E l \in Asks : b[l] > 0)

\* is_fresh()
IsFresh == state = "LIVE" /\ lastFrame # 0 /\ now - lastFrame <= Budget

\* The types of the variables; the socket is up in LIVE and STALE only, and no
\* hash is stored twice, so that _hash_set and _seen_hashes agree
\* (live/feed.py:125-136).
TypeOK ==
    /\ past \in [Token -> Seq(Book) \ {<<>>}]
    /\ wire \in Seq([kind : {"book"}, token : Token, version : Nat]
                    \cup [kind : {"price_change"}, token : Token, version : Nat, level : Level])
    /\ now \in 1..MaxTime /\ lastFrame \in 0..now /\ connectedAt \in 0..now
    /\ state \in FeedState /\ up \in BOOLEAN
    /\ up <=> state \in {"LIVE", "STALE"}
    /\ {connectedMs, connectedFor, connections} \subseteq Nat
    /\ seen \in Seq(Token \X Nat) /\ Len(seen) <= HashWindow /\ IsInjective(seen)
    /\ book \in [Token -> Book]
    /\ shown \in [Token -> Nat]
    /\ whole \subseteq Token /\ told \subseteq Token \X Level

(***************************************************************************)
(* Once a connection has applied the whole book of a token, the feed's     *)
(* book is the venue's book as of the newest frame that has arrived: no    *)
(* update is lost, none is applied twice, and a book that is delivered     *)
(* again does not take the feed back (live/clob.py:138-141).               *)
(***************************************************************************)
BookIsVenues ==
    \A t \in whole : book[t] = past[t][shown[t]]

(***************************************************************************)
(* While the feed runs, whatever rests on a book was told by the present   *)
(* connection: nothing outlives the gap between two connections            *)
(* (live/clob.py:119-122, live/feed.py:252-261).                           *)
(***************************************************************************)
NothingAcrossGap ==
    state # "STOPPED" =>
        \A t \in Token, l \in Level : book[t][l] > 0 => <<t, l>> \in told

(***************************************************************************)
(* What is read off a book is the venue's: types, no lost, repeated or     *)
(* resurrected update, at any point of a session or between two            *)
(* (live/clob.py:119-177).                                                 *)
(***************************************************************************)
BooksAreWhole == TypeOK /\ BookIsVenues /\ NothingAcrossGap

(***************************************************************************)
(* Between two connections the banked uptime is the time the transport has *)
(* really been up: each session is counted once, also when attempts to     *)
(* come back fail (live/feed.py:327-330).                                  *)
(***************************************************************************)
UptimeBanked ==
    ~up /\ state # "STOPPED" => connectedMs = connectedFor

(***************************************************************************)
(* A feed that lost its connection comes back, unless it is stopped or the *)
(* venue takes no more connections: no failure ends the loop of _run().    *)
(***************************************************************************)
ComesBack ==
    state \in {"CONNECTING", "RECONNECTING"} ~>
        (up \/ state = "STOPPED" \/ connections = MaxConnections)

(***************************************************************************)
(* Every book the feed calls fresh and two-sided is the venue's book as of *)
(* the newest frame: "an incrementally-maintained book that missed updates *)
(* is not stale - it is wrong" (live/clob.py:21-23) is what clearing the   *)
(* books at a disconnect is to exclude.  Not so: a snapshot whose hash is  *)
(* known from before the disconnect is taken for a redelivery.             *)
(***************************************************************************)
FreshBookIsVenues ==
    \A t \in Token : IsFresh /\ TwoSided(book[t]) => book[t] = past[t][shown[t]]

=============================================================================
