--------------------------- MODULE ClobFeedProofs ---------------------------
(***************************************************************************)
(* What ClobFeed's books may be relied on for, for any market, any number  *)
(* of moves, frames and connections.                                       *)
(*                                                                         *)
(* A book that was applied whole is the venue's because the wire is in     *)
(* order and complete: from the version a token has been shown, or from    *)
(* any frame under way, each later move of the venue is a change further   *)
(* back on the wire (Complete, Ordered); and a known hash is never newer   *)
(* than what was shown (KnownIsOld), so nothing needed is ever dropped as  *)
(* a redelivery.                                                           *)
(***************************************************************************)
EXTENDS ClobFeed, FiniteSetTheorems, SequenceTheorems, TLAPS

BookFrames   == [kind : {"book"}, token : Token, version : Nat]
ChangeFrames == [kind : {"price_change"}, token : Token, version : Nat, level : Level]
Frame        == BookFrames \cup ChangeFrames

\* f may follow a version v of its book: a change is of a later one.
After(v, f) == v <= f.version /\ (f.kind = "price_change" => v < f.version)

\* The change that made version v of t is under way.
UnderWay(t, v) == \E i \in DOMAIN wire : /\ wire[i].kind = "price_change"
                                         /\ wire[i].token = t /\ wire[i].version = v

Genuine ==
    \A i \in DOMAIN wire :
        LET f == wire[i]
        IN  /\ f.version \in 1..Version(f.token)
            /\ f.kind = "price_change" =>
                 /\ f.version > 1
                 /\ \A l \in Level : l # f.level =>
                       past[f.token][f.version][l] = past[f.token][f.version - 1][l]

Ordered ==
    \A i, j \in DOMAIN wire :
        i < j /\ wire[i].token = wire[j].token => After(wire[i].version, wire[j])

Complete ==
    \A t \in Token : \A v \in 2..Version(t) :
        up /\ \/ t \in whole /\ shown[t] < v
              \/ \E i \in DOMAIN wire : wire[i].token = t /\ wire[i].version < v
          => UnderWay(t, v)

KnownIsOld ==
    \A h \in ToSet(seen) :
        /\ h \in Token \X Nat /\ h[2] \in 1..Version(h[1])
        /\ h[1] \in whole => h[2] <= shown[h[1]]
        /\ \A i \in DOMAIN wire : wire[i].token = h[1] => After(h[2], wire[i])

ShownIsPast ==
    \A t \in Token :
        /\ shown[t] \in 0..Version(t)
        /\ t \in whole => shown[t] >= 1 /\ book[t] = past[t][shown[t]]
        /\ \A i \in DOMAIN wire : wire[i].token = t => After(shown[t], wire[i])

Session ==
    /\ ~up => wire = <<>>
    /\ ~up /\ state # "STOPPED" => whole = {} /\ \A t \in Token : shown[t] = 0

BookInv == Genuine /\ Ordered /\ Complete /\ KnownIsOld /\ ShownIsPast /\ Session

\* What is at rest was told, and the uptime of closed and open sessions is
\* the time the transport was up.
GapInv == \A t \in Token, l \in Level : book[t][l] > 0 => <<t, l>> \in told

UptimeInv ==
    state # "STOPPED" => /\ up <=> connectedAt # 0
                         /\ connectedFor = connectedMs + SessionSoFar

IInv == TypeOK /\ BookInv /\ GapInv /\ UptimeInv

-----------------------------------------------------------------------------
(***************************************************************************)
(* Frames and snapshots.                                                   *)
(***************************************************************************)

LEMMA WireTypes ==
    ASSUME TypeOK
    PROVE  /\ wire \in Seq(Frame) /\ Len(wire) \in Nat /\ DOMAIN wire = 1..Len(wire)
           /\ \A i \in DOMAIN wire : wire[i] \in Frame
           /\ \A t \in Token : past[t] \in Seq(Book) /\ Version(t) \in Nat \ {0}
<1>1. wire \in Seq(Frame)
  BY DEF TypeOK, Frame, BookFrames, ChangeFrames
<1>2. \A t \in Token : past[t] \in Seq(Book) /\ past[t] # <<>>
  BY DEF TypeOK
<1>3. \A t \in Token : Version(t) \in Nat \ {0}
  BY <1>2 DEF Version
<1>4. QED
  BY <1>1, <1>2, <1>3

LEMMA FrameTypes ==
    /\ \A f \in Frame : f.kind \in {"book", "price_change"} /\ f.token \in Token /\ f.version \in Nat
    /\ \A f \in Frame : f.kind = "price_change" => f \in ChangeFrames /\ f.level \in Level
    /\ \A f \in Frame : f.kind = "book" => f \in BookFrames
    /\ \A t \in Token, v \in Nat : BookFrame(t, v) \in Frame
    /\ \A t \in Token, v \in Nat, l \in Level : ChangeFrame(t, v, l) \in Frame
  BY DEF Frame, BookFrames, ChangeFrames, BookFrame, ChangeFrame

\* The snapshot of a subscription is a book of every token as it is.
LEMMA SnapshotFrames ==
    ASSUME TypeOK
    PROVE  /\ Snapshots \in Seq(Frame)
           /\ \A i \in DOMAIN Snapshots : \E t \in Token : Snapshots[i] = BookFrame(t, Version(t))
<1> DEFINE S == {BookFrame(t, Version(t)) : t \in Token}
<1>1. PICK n \in Nat : ExistsBijection(1..n, Token)
  BY FeedAssumption, FS_NatBijection
<1>2. PICK g \in Bijection(1..n, Token) : TRUE
  BY <1>1 DEF ExistsBijection
<1>3. /\ g \in [1..n -> Token]
      /\ \A a, b \in 1..n : g[a] = g[b] => a = b
      /\ \A t \in Token : \E a \in 1..n : g[a] = t
  BY <1>2 DEF Bijection, Injection, Surjection, IsInjective
<1> DEFINE h == [i \in 1..n |-> BookFrame(g[i], Version(g[i]))]
<1>4. h \in [1..n -> S]
  BY <1>3
<1>5. \A a, b \in 1..n : h[a] = h[b] => a = b
  BY <1>3 DEF BookFrame
<1>6. \A s \in S : \E a \in 1..n : h[a] = s
  BY <1>3
<1>7. h \in Bijection(1..n, S)
  <2> HIDE DEF h, S
  <2>1. DOMAIN h = 1..n
    BY <1>4
  <2>2. IsInjective(h)
    BY <1>5, <2>1 DEF IsInjective
  <2>3. QED
    BY <1>4, <1>6, <2>2 DEF Bijection, Injection, Surjection
<1> HIDE DEF h, S
<1>8. Cardinality(S) = n
  BY <1>7, FS_CountingElements DEF ExistsBijection
<1>9. h \in [1..Cardinality(S) -> S] /\ IsInjective(h)
  BY <1>7, <1>8 DEF Bijection, Injection
<1>10. Snapshots \in [1..Cardinality(S) -> S]
  BY <1>9 DEF Snapshots, SetToSeq, S
<1>11. S \subseteq Frame
  BY WireTypes, FrameTypes DEF S
<1>12. Snapshots \in [1..n -> Frame]
  BY <1>8, <1>10, <1>11
<1>13. Snapshots \in Seq(Frame)
  BY <1>12, SeqDef
<1>14. ASSUME NEW i \in DOMAIN Snapshots
       PROVE  \E t \in Token : Snapshots[i] = BookFrame(t, Version(t))
  BY <1>10, <1>14 DEF S
<1>15. QED
  BY <1>13, <1>14

-----------------------------------------------------------------------------
(***************************************************************************)
(* The venue's moves.                                                      *)
(***************************************************************************)

\* One move more: the versions there were stay as they are.
Grown(t, l) ==
    /\ past' \in [Token -> Seq(Book)]
    /\ \A u \in Token : past'[u] # <<>> /\ (u # t => past'[u] = past[u])
    /\ Len(past'[t]) = Version(t) + 1
    /\ \A v \in 1..Version(t) : past'[t][v] = past[t][v]
    /\ \A k \in Level : k # l => past'[t][Version(t) + 1][k] = past[t][Version(t)][k]


LEMMA MoveGrows ==
    ASSUME TypeOK, NEW t \in Token, NEW l \in Level, NEW s \in Size, Move(t, l, s)
    PROVE  Grown(t, l)
<1>1. past \in [Token -> Seq(Book) \ {<<>>}] /\ past[t] \in Seq(Book) /\ Version(t) \in Nat \ {0}
  BY WireTypes DEF TypeOK
<1>2. Last(past[t]) = past[t][Version(t)] /\ Last(past[t]) \in Book
  BY <1>1 DEF Last, Version
<1> DEFINE next == [Last(past[t]) EXCEPT ![l] = s]
<1>3. next \in Book /\ \A k \in Level : k # l => next[k] = past[t][Version(t)][k]
  BY <1>2 DEF Book
<1>4. past' = [past EXCEPT ![t] = Append(past[t], next)]
  BY DEF Move
<1> HIDE DEF next
<1>5. past'[t] = Append(past[t], next) /\ \A u \in Token : u # t => past'[u] = past[u]
  BY <1>1, <1>4
<1>6. /\ Append(past[t], next) \in Seq(Book) /\ Append(past[t], next) # <<>>
      /\ Len(Append(past[t], next)) = Version(t) + 1
      /\ \A v \in 1..Version(t) : Append(past[t], next)[v] = past[t][v]
      /\ Append(past[t], next)[Version(t) + 1] = next
  BY <1>1, <1>3 DEF Version
<1>7. past' \in [Token -> Seq(Book) \ {<<>>}]
  BY <1>1, <1>4, <1>6
<1>8. QED
  BY <1>3, <1>5, <1>6, <1>7 DEF Grown

\* A frame more at the end of the wire.
LEMMA WireGrows ==
    ASSUME TypeOK, NEW f \in Frame, wire' = Append(wire, f)
    PROVE  /\ wire' \in Seq(Frame) /\ DOMAIN wire' = 1..(Len(wire) + 1)
           /\ wire'[Len(wire) + 1] = f /\ \A i \in DOMAIN wire : wire'[i] = wire[i]
           /\ DOMAIN wire = 1..Len(wire) /\ Len(wire) \in Nat
  BY WireTypes

\* A change is told of, if anyone is there to be told.
LEMMA MoveKeeps ==
    ASSUME TypeOK, BookInv, NEW t \in Token, NEW l \in Level, NEW s \in Size, Move(t, l, s)
    PROVE  BookInv'
<1>1. Grown(t, l)
  BY MoveGrows
<1>2. /\ \A u \in Token : Len(past'[u]) = IF u = t THEN Version(t) + 1 ELSE Version(u)
      /\ \A u \in Token : Version(u) \in Nat \ {0}
      /\ \A u \in Token : \A v \in 1..Version(u) : past'[u][v] = past[u][v]
  BY <1>1, WireTypes DEF Grown, Version
<1>3. UNCHANGED <<state, up, seen, book, shown, whole>>
  BY DEF Move, view
<1>4. DOMAIN wire = 1..Len(wire) /\ Len(wire) \in Nat /\ \A i \in DOMAIN wire : wire[i] \in Frame
  BY WireTypes
<1> DEFINE f == ChangeFrame(t, Version(t) + 1, l)
<1>5. /\ f \in Frame /\ f.kind = "price_change" /\ f.token = t /\ f.version = Version(t) + 1 /\ f.level = l
  <2>1. Version(t) + 1 \in Nat
    BY <1>2
  <2>2. f \in Frame
    BY <2>1, FrameTypes
  <2>3. QED
    BY <2>2 DEF ChangeFrame
<1>6. up => wire' = Append(wire, f)
  BY DEF Move
<1>7. ~up => wire' = wire /\ wire = <<>>
  BY DEF Move, BookInv, Session
<1> HIDE DEF f
<1>8. \A i \in DOMAIN wire' : \/ i \in DOMAIN wire /\ wire'[i] = wire[i]
                              \/ up /\ wire'[i] = f /\ i = Len(wire) + 1
  BY <1>4, <1>5, <1>6, <1>7, WireGrows
<1>9. Genuine'
  <2> SUFFICES ASSUME NEW i \in DOMAIN wire'
               PROVE  /\ wire'[i].version \in 1..Len(past'[wire'[i].token])
                      /\ wire'[i].kind = "price_change" =>
                           /\ wire'[i].version > 1
                           /\ \A k \in Level : k # wire'[i].level =>
                                 past'[wire'[i].token][wire'[i].version][k]
                                 = past'[wire'[i].token][wire'[i].version - 1][k]
    BY DEF Genuine, Version
  <2>1. CASE i \in DOMAIN wire /\ wire'[i] = wire[i]
    <3>1. wire[i].token \in Token /\ wire[i].version \in 1..Version(wire[i].token)
      BY <1>4, <2>1, FrameTypes DEF BookInv, Genuine
    <3>2. wire[i].version \in 1..Len(past'[wire[i].token])
      BY <1>2, <3>1
    <3>3. wire[i].kind = "price_change" =>
             /\ wire[i].version > 1 /\ wire[i].version - 1 \in 1..Version(wire[i].token)
             /\ \A k \in Level : k # wire[i].level =>
                  past[wire[i].token][wire[i].version][k] = past[wire[i].token][wire[i].version - 1][k]
      BY <1>2, <2>1, <3>1 DEF BookInv, Genuine
    <3>4. \A k \in Level :
             /\ past'[wire[i].token][wire[i].version][k] = past[wire[i].token][wire[i].version][k]
             /\ wire[i].kind = "price_change" =>
                  past'[wire[i].token][wire[i].version - 1][k]
                  = past[wire[i].token][wire[i].version - 1][k]
      BY <1>2, <3>1, <3>3
    <3>5. QED
      BY <2>1, <3>2, <3>3, <3>4
  <2>2. CASE wire'[i] = f
    <3>1. Len(past'[t]) = Version(t) + 1 /\ Version(t) \in Nat \ {0}
      BY <1>2
    <3>2. \A k \in Level : k # l => past'[t][Version(t) + 1][k] = past[t][Version(t)][k]
      BY <1>1 DEF Grown
    <3>3. Version(t) \in 1..Version(t)
      BY <3>1
    <3>4. past'[t][Version(t)] = past[t][Version(t)]
      BY <1>2, <3>3
    <3>5. f.version \in 1..Len(past'[f.token]) /\ f.version > 1 /\ f.version - 1 = Version(t)
      BY <1>5, <3>1
    <3>6. \A k \in Level : k # f.level =>
             past'[f.token][f.version][k] = past'[f.token][f.version - 1][k]
      BY <1>5, <3>2, <3>4, <3>5
    <3>7. QED
      BY <2>2, <3>5, <3>6
  <2>3. QED
    BY <1>8, <2>1, <2>2
<1>10. Ordered'
  <2> SUFFICES ASSUME NEW i \in DOMAIN wire', NEW j \in DOMAIN wire', i < j,
                      wire'[i].token = wire'[j].token
               PROVE  After(wire'[i].version, wire'[j])
    BY DEF Ordered, After
  <2>1. i \in DOMAIN wire /\ wire'[i] = wire[i]
    BY <1>4, <1>5, <1>6, <1>7, <1>8, WireGrows
  <2>2. CASE j \in DOMAIN wire /\ wire'[j] = wire[j]
    BY <2>1, <2>2 DEF BookInv, Ordered
  <2>3. CASE wire'[j] = f
    <3>1. wire[i].version \in 1..Version(t)
      BY <1>5, <2>1, <2>3 DEF BookInv, Genuine
    <3>2. QED
      BY <1>2, <1>5, <2>1, <2>3, <3>1 DEF After
  <2>4. QED
    BY <1>8, <2>2, <2>3
<1>11. Complete'
  <2> SUFFICES ASSUME NEW u \in Token, NEW v \in 2..Len(past'[u]), up,
                      \/ u \in whole /\ shown[u] < v
                      \/ \E i \in DOMAIN wire' : wire'[i].token = u /\ wire'[i].version < v
               PROVE  UnderWay(u, v)'
    BY <1>3 DEF Complete, UnderWay, Version
  <2>1. wire' = Append(wire, f)
    BY <1>6
  <2>2. UnderWay(u, v)' <=> \E i \in DOMAIN wire' : /\ wire'[i].kind = "price_change"
                                                    /\ wire'[i].token = u /\ wire'[i].version = v
    BY DEF UnderWay
  <2>3. CASE u = t /\ v = Version(t) + 1
    BY <1>5, <2>1, <2>2, <2>3, WireGrows
  <2>4. CASE v \in 2..Version(u)
    <3>1. ASSUME NEW i \in DOMAIN wire', wire'[i].token = u, wire'[i].version < v
          PROVE  i \in DOMAIN wire /\ wire[i].token = u /\ wire[i].version < v
      BY <1>2, <1>5, <1>8, <2>4, <3>1
    <3>2. UnderWay(u, v)
      BY <2>4, <3>1 DEF BookInv, Complete
    <3>3. QED
      BY <1>5, <2>1, <2>2, <3>2, WireGrows DEF UnderWay
  <2>5. QED
    BY <1>2, <2>3, <2>4
<1>12. KnownIsOld'
  <2> SUFFICES ASSUME NEW h \in ToSet(seen)
               PROVE  /\ h \in Token \X Nat /\ h[2] \in 1..Len(past'[h[1]])
                      /\ h[1] \in whole => h[2] <= shown[h[1]]
                      /\ \A i \in DOMAIN wire' : wire'[i].token = h[1] => After(h[2], wire'[i])
    BY <1>3 DEF KnownIsOld, Version, After
  <2>1. /\ h \in Token \X Nat /\ h[2] \in 1..Version(h[1])
        /\ h[1] \in whole => h[2] <= shown[h[1]]
        /\ \A i \in DOMAIN wire : wire[i].token = h[1] => After(h[2], wire[i])
    BY DEF BookInv, KnownIsOld
  <2>2. h[2] \in 1..Len(past'[h[1]])
    BY <1>2, <2>1
  <2>3. ASSUME NEW i \in DOMAIN wire', wire'[i].token = h[1]
        PROVE  After(h[2], wire'[i])
    BY <1>2, <1>5, <1>8, <2>1, <2>3 DEF After
  <2>4. QED
    BY <2>1, <2>2, <2>3
<1>13. ShownIsPast'
  <2> SUFFICES ASSUME NEW u \in Token
               PROVE  /\ shown[u] \in 0..Len(past'[u])
                      /\ u \in whole => shown[u] >= 1 /\ book[u] = past'[u][shown[u]]
                      /\ \A i \in DOMAIN wire' : wire'[i].token = u => After(shown[u], wire'[i])
    BY <1>3 DEF ShownIsPast, Version, After
  <2>1. /\ shown[u] \in 0..Version(u)
        /\ u \in whole => shown[u] >= 1 /\ book[u] = past[u][shown[u]]
        /\ \A i \in DOMAIN wire : wire[i].token = u => After(shown[u], wire[i])
    BY DEF BookInv, ShownIsPast
  <2>2. ASSUME NEW i \in DOMAIN wire', wire'[i].token = u
        PROVE  After(shown[u], wire'[i])
    <3>1. CASE i \in DOMAIN wire /\ wire'[i] = wire[i]
      BY <2>1, <2>2, <3>1
    <3>2. CASE wire'[i] = f
      <4>1. shown[u] \in 0..Version(t) /\ Version(t) \in Nat
        BY <1>2, <1>5, <2>1, <2>2, <3>2
      <4>2. QED
        BY <1>5, <3>2, <4>1 DEF After
    <3>3. QED
      BY <1>8, <3>1, <3>2
  <2>3. QED
    BY <1>2, <2>1, <2>2
<1>14. Session'
  BY <1>3, <1>7 DEF BookInv, Session
<1>15. QED
  BY <1>9, <1>10, <1>11, <1>12, <1>13, <1>14 DEF BookInv

\* A whole book that is sent is the newest there is.
LEMMA SendBookKeeps ==
    ASSUME TypeOK, BookInv, NEW t \in Token, SendBook(t)
    PROVE  BookInv'
<1>1. UNCHANGED <<past, state, up, seen, book, shown, whole>> /\ up
  BY DEF SendBook, view
<1>2. /\ DOMAIN wire = 1..Len(wire) /\ Len(wire) \in Nat /\ \A i \in DOMAIN wire : wire[i] \in Frame
      /\ \A u \in Token : Version(u) \in Nat \ {0}
  BY WireTypes
<1> DEFINE f == BookFrame(t, Version(t))
<1>3. f.kind = "book" /\ f.token = t /\ f.version = Version(t) /\ f \in Frame
  <2>1. f \in Frame
    BY <1>2, FrameTypes
  <2>2. QED
    BY <2>1 DEF BookFrame
<1>4. wire' = Append(wire, f)
  BY DEF SendBook
<1> HIDE DEF f
<1>5. /\ DOMAIN wire' = 1..(Len(wire) + 1) /\ wire'[Len(wire) + 1] = f
      /\ \A i \in DOMAIN wire : wire'[i] = wire[i]
  BY <1>3, <1>4, WireGrows
<1>6. \A i \in DOMAIN wire' : \/ i \in DOMAIN wire /\ wire'[i] = wire[i]
                              \/ wire'[i] = f /\ i = Len(wire) + 1
  BY <1>2, <1>5
<1>7. \A u \in Token : Version(u)' = Version(u)
  BY <1>1 DEF Version
<1>8. Genuine'
  <2> SUFFICES ASSUME NEW i \in DOMAIN wire'
               PROVE  /\ wire'[i].version \in 1..Version(wire'[i].token)
                      /\ wire'[i].kind = "price_change" =>
                           /\ wire'[i].version > 1
                           /\ \A k \in Level : k # wire'[i].level =>
                                 past[wire'[i].token][wire'[i].version][k]
                                 = past[wire'[i].token][wire'[i].version - 1][k]
    BY <1>1 DEF Genuine, Version
  <2>1. CASE i \in DOMAIN wire /\ wire'[i] = wire[i]
    BY <2>1 DEF BookInv, Genuine
  <2>2. CASE wire'[i] = f
    BY <1>2, <1>3, <2>2
  <2>3. QED
    BY <1>6, <2>1, <2>2
<1>9. \A i \in DOMAIN wire : wire[i].token = t => wire[i].version \in 1..Version(t)
  BY DEF BookInv, Genuine
<1>10. Ordered'
  <2> SUFFICES ASSUME NEW i \in DOMAIN wire', NEW j \in DOMAIN wire', i < j,
                      wire'[i].token = wire'[j].token
               PROVE  After(wire'[i].version, wire'[j])
    BY DEF Ordered, After
  <2>1. i \in DOMAIN wire /\ wire'[i] = wire[i]
    BY <1>2, <1>5
  <2>2. CASE j \in DOMAIN wire /\ wire'[j] = wire[j]
    BY <2>1, <2>2 DEF BookInv, Ordered
  <2>3. CASE wire'[j] = f
    BY <1>2, <1>3, <1>9, <2>1, <2>3 DEF After
  <2>4. QED
    BY <1>6, <2>2, <2>3
<1>11. Complete'
  <2> SUFFICES ASSUME NEW u \in Token, NEW v \in 2..Version(u),
                      \/ u \in whole /\ shown[u] < v
                      \/ \E i \in DOMAIN wire' : wire'[i].token = u /\ wire'[i].version < v
               PROVE  \E i \in DOMAIN wire' : /\ wire'[i].kind = "price_change"
                                              /\ wire'[i].token = u /\ wire'[i].version = v
    BY <1>1, <1>7 DEF Complete, UnderWay
  <2>1. ASSUME NEW i \in DOMAIN wire', wire'[i].token = u, wire'[i].version < v
        PROVE  i \in DOMAIN wire /\ wire[i].token = u /\ wire[i].version < v
    BY <1>2, <1>3, <1>6, <2>1
  <2>2. UnderWay(u, v)
    BY <1>1, <2>1 DEF BookInv, Complete
  <2>3. QED
    BY <1>2, <1>5, <2>2 DEF UnderWay
<1>12. KnownIsOld'
  <2> SUFFICES ASSUME NEW h \in ToSet(seen)
               PROVE  /\ h \in Token \X Nat /\ h[2] \in 1..Version(h[1])
                      /\ h[1] \in whole => h[2] <= shown[h[1]]
                      /\ \A i \in DOMAIN wire' : wire'[i].token = h[1] => After(h[2], wire'[i])
    BY <1>1 DEF KnownIsOld, Version, After
  <2>1. /\ h \in Token \X Nat /\ h[2] \in 1..Version(h[1])
        /\ h[1] \in whole => h[2] <= shown[h[1]]
        /\ \A i \in DOMAIN wire : wire[i].token = h[1] => After(h[2], wire[i])
    BY DEF BookInv, KnownIsOld
  <2>2. ASSUME NEW i \in DOMAIN wire', wire'[i].token = h[1]
        PROVE  After(h[2], wire'[i])
    <3>1. CASE i \in DOMAIN wire /\ wire'[i] = wire[i]
      BY <2>1, <2>2, <3>1
    <3>2. CASE wire'[i] = f
      BY <1>2, <1>3, <2>1, <2>2, <3>2 DEF After
    <3>3. QED
      BY <1>6, <3>1, <3>2
  <2>3. QED
    BY <2>1, <2>2
<1>13. ShownIsPast'
  <2> SUFFICES ASSUME NEW u \in Token
               PROVE  /\ shown[u] \in 0..Version(u)
                      /\ u \in whole => shown[u] >= 1 /\ book[u] = past[u][shown[u]]
                      /\ \A i \in DOMAIN wire' : wire'[i].token = u => After(shown[u], wire'[i])
    BY <1>1 DEF ShownIsPast, Version, After
  <2>1. /\ shown[u] \in 0..Version(u)
        /\ u \in whole => shown[u] >= 1 /\ book[u] = past[u][shown[u]]
        /\ \A i \in DOMAIN wire : wire[i].token = u => After(shown[u], wire[i])
    BY DEF BookInv, ShownIsPast
  <2>2. ASSUME NEW i \in DOMAIN wire', wire'[i].token = u
        PROVE  After(shown[u], wire'[i])
    <3>1. CASE i \in DOMAIN wire /\ wire'[i] = wire[i]
      BY <2>1, <2>2, <3>1
    <3>2. CASE wire'[i] = f
      BY <1>2, <1>3, <2>1, <2>2, <3>2 DEF After
    <3>3. QED
      BY <1>6, <3>1, <3>2
  <2>3. QED
    BY <2>1, <2>2
<1>14. Session'
  BY <1>1 DEF Session
<1>15. QED
  BY <1>8, <1>10, <1>11, <1>12, <1>13, <1>14 DEF BookInv

-----------------------------------------------------------------------------
(***************************************************************************)
(* Connections that open and end.                                          *)
(***************************************************************************)

\* A new connection starts with nothing shown and the books as they are.
LEMMA ConnectKeeps ==
    ASSUME TypeOK, BookInv, Connect
    PROVE  BookInv'
<1>1. UNCHANGED <<past, seen, book, shown, whole>> /\ wire' = Snapshots /\ up'
  BY DEF Connect, view
<1>2. whole = {} /\ \A t \in Token : shown[t] = 0
  BY DEF TypeOK, Connect, BookInv, Session
<1>3. /\ Snapshots \in Seq(Frame)
      /\ \A i \in DOMAIN Snapshots : \E t \in Token : Snapshots[i] = BookFrame(t, Version(t))
  BY SnapshotFrames
<1>4. \A t \in Token : Version(t) \in Nat \ {0}
  BY WireTypes
<1>5. \A i \in DOMAIN wire' : /\ wire'[i].kind = "book" /\ wire'[i].token \in Token
                              /\ wire'[i].version = Version(wire'[i].token)
  BY <1>1, <1>3 DEF BookFrame
<1>6. \A t \in Token : Version(t)' = Version(t)
  BY <1>1 DEF Version
<1>7. Genuine'
  <2> SUFFICES ASSUME NEW i \in DOMAIN wire'
               PROVE  wire'[i].version \in 1..Version(wire'[i].token) /\ wire'[i].kind # "price_change"
    BY <1>1 DEF Genuine, Version
  <2>1. QED
    BY <1>4, <1>5
<1>8. Ordered'
  <2>1. \A i, j \in DOMAIN wire' :
           wire'[i].token = wire'[j].token => After(wire'[i].version, wire'[j])
    BY <1>4, <1>5 DEF After
  <2>2. QED
    BY <2>1 DEF Ordered, After
<1>9. Complete'
  <2>1. \A t \in Token : \A v \in 2..Version(t) :
           /\ t \notin whole
           /\ ~\E i \in DOMAIN wire' : wire'[i].token = t /\ wire'[i].version < v
    BY <1>2, <1>4, <1>5
  <2>2. QED
    BY <1>1, <1>6, <2>1 DEF Complete
<1>10. KnownIsOld'
  <2> SUFFICES ASSUME NEW h \in ToSet(seen)
               PROVE  /\ h \in Token \X Nat /\ h[2] \in 1..Version(h[1])
                      /\ h[1] \in whole => h[2] <= shown[h[1]]
                      /\ \A i \in DOMAIN wire' : wire'[i].token = h[1] => After(h[2], wire'[i])
    BY <1>1 DEF KnownIsOld, Version, After
  <2>1. h \in Token \X Nat /\ h[2] \in 1..Version(h[1])
    BY DEF BookInv, KnownIsOld
  <2>2. \A i \in DOMAIN wire' : wire'[i].token = h[1] => After(h[2], wire'[i])
    BY <1>4, <1>5, <2>1 DEF After
  <2>3. QED
    BY <1>2, <2>1, <2>2
<1>11. ShownIsPast'
  <2> SUFFICES ASSUME NEW u \in Token
               PROVE  /\ shown[u] \in 0..Version(u)
                      /\ u \in whole => shown[u] >= 1 /\ book[u] = past[u][shown[u]]
                      /\ \A i \in DOMAIN wire' : wire'[i].token = u => After(shown[u], wire'[i])
    BY <1>1 DEF ShownIsPast, Version, After
  <2>1. shown[u] \in 0..Version(u) /\ u \notin whole
    BY <1>2, <1>4
  <2>2. \A i \in DOMAIN wire' : wire'[i].token = u => After(shown[u], wire'[i])
    BY <1>2, <1>4, <1>5 DEF After
  <2>3. QED
    BY <2>1, <2>2
<1>12. Session'
  BY <1>1 DEF Session
<1>13. QED
  BY <1>7, <1>8, <1>9, <1>10, <1>11, <1>12 DEF BookInv

\* Whatever ends a connection empties the wire; a failure empties the books too.
LEMMA EndKeeps ==
    ASSUME TypeOK, BookInv, Disconnect \/ Stop
    PROVE  BookInv'
<1>1. UNCHANGED <<past, seen>> /\ wire' = <<>> /\ ~up'
  BY DEF Disconnect, Stop
<1>2. DOMAIN wire' = {}
  BY <1>1
<1>3. \A t \in Token : Version(t)' = Version(t) /\ Version(t) \in Nat \ {0}
  BY <1>1, WireTypes DEF Version
<1>4. \/ whole' = {} /\ \A t \in Token : shown'[t] = 0
      \/ state' = "STOPPED" /\ UNCHANGED <<whole, shown, book>>
  BY DEF Disconnect, Stop, DropBooks, view
<1>5. Genuine' /\ Ordered' /\ Complete'
  BY <1>1, <1>2 DEF Genuine, Ordered, Complete
<1>6. KnownIsOld'
  <2> SUFFICES ASSUME NEW h \in ToSet(seen)
               PROVE  /\ h \in Token \X Nat /\ h[2] \in 1..Version(h[1])
                      /\ h[1] \in whole' => h[2] <= shown'[h[1]]
    BY <1>1, <1>2 DEF KnownIsOld, Version
  <2>1. /\ h \in Token \X Nat /\ h[2] \in 1..Version(h[1])
        /\ h[1] \in whole => h[2] <= shown[h[1]]
    BY DEF BookInv, KnownIsOld
  <2>2. QED
    BY <1>4, <2>1
<1>7. ShownIsPast'
  <2> SUFFICES ASSUME NEW u \in Token
               PROVE  /\ shown'[u] \in 0..Version(u)
                      /\ u \in whole' => shown'[u] >= 1 /\ book'[u] = past[u][shown'[u]]
    BY <1>1, <1>2 DEF ShownIsPast, Version
  <2>1. /\ shown[u] \in 0..Version(u)
        /\ u \in whole => shown[u] >= 1 /\ book[u] = past[u][shown[u]]
    BY DEF BookInv, ShownIsPast
  <2>2. QED
    BY <1>3, <1>4, <2>1
<1>8. Session'
  BY <1>1, <1>4 DEF Session
<1>9. QED
  BY <1>5, <1>6, <1>7, <1>8 DEF BookInv

\* Steps that touch neither books nor wire.
LEMMA IdleKeeps ==
    ASSUME TypeOK, BookInv, Tick \/ Connecting \/ Quiet \/ UNCHANGED vars
    PROVE  BookInv'
<1>1. UNCHANGED <<past, wire, up, seen, book, shown, whole>>
  BY DEF Tick, Connecting, Quiet, vars, view
<1>2. Genuine' /\ Ordered' /\ Complete' /\ KnownIsOld' /\ ShownIsPast'
  <2>1. Genuine'
    BY <1>1 DEF BookInv, Genuine, Version
  <2>2. Ordered'
    BY <1>1 DEF BookInv, Ordered, After
  <2>3. Complete'
    BY <1>1 DEF BookInv, Complete, Version, UnderWay
  <2>4. KnownIsOld'
    BY <1>1 DEF BookInv, KnownIsOld, Version, After
  <2>5. ShownIsPast'
    BY <1>1 DEF BookInv, ShownIsPast, Version, After
  <2>6. QED
    BY <2>1, <2>2, <2>3, <2>4, <2>5
<1>3. Session'
  BY <1>1 DEF BookInv, Session, Tick, Connecting, Quiet, vars
<1>4. QED
  BY <1>2, <1>3 DEF BookInv

-----------------------------------------------------------------------------
(***************************************************************************)
(* Frames that arrive.                                                     *)
(***************************************************************************)

\* What the handler does with the frame at the head of the wire, and with one
\* whose hash is known.
LEMMA Remembered ==
    ASSUME TypeOK, NEW f \in Frame
    PROVE  /\ Remember(f) \in Seq(Token \X Nat) /\ Len(Remember(f)) <= HashWindow
           /\ IsInjective(Remember(f))
           /\ \A h \in ToSet(Remember(f)) :
                 h \in ToSet(seen) \/ (f.kind = "book" /\ h = <<f.token, f.version>>)
<1> DEFINE h == <<f.token, f.version>>
<1>1. h \in Token \X Nat /\ Hash(f) = h
  BY FrameTypes DEF Hash
<1>2. seen \in Seq(Token \X Nat) /\ Len(seen) <= HashWindow /\ Len(seen) \in Nat
      /\ DOMAIN seen = 1..Len(seen)
  BY DEF TypeOK
<1>3. \A a, b \in DOMAIN seen : seen[a] = seen[b] => a = b
  BY DEF TypeOK, IsInjective
<1>4. CASE f.kind # "book" \/ Hash(f) \in ToSet(seen)
  BY <1>2, <1>4 DEF Remember, TypeOK
<1>5. CASE ~(f.kind # "book" \/ Hash(f) \in ToSet(seen))
  <2> DEFINE base == IF Len(seen) = HashWindow THEN Tail(seen) ELSE seen
             d == IF Len(seen) = HashWindow THEN 1 ELSE 0
  <2>1. seen # <<>> \/ Len(seen) # HashWindow
    BY <1>2, FeedAssumption
  <2>2. /\ base \in Seq(Token \X Nat) /\ Len(base) = Len(seen) - d
        /\ \A a \in 1..Len(base) : base[a] = seen[a + d] /\ a + d \in DOMAIN seen
    <3>1. CASE Len(seen) = HashWindow
      BY <1>2, <2>1, <3>1, HeadTailProperties
    <3>2. CASE Len(seen) # HashWindow
      BY <1>2, <3>2
    <3>3. QED
      BY <3>1, <3>2
  <2>3. d \in {0, 1} /\ Len(base) \in Nat /\ Len(base) < HashWindow
    <3>1. d \in {0, 1} /\ HashWindow \in Nat
      BY FeedAssumption
    <3>2. Len(base) \in Nat
      BY <2>2
    <3>3. CASE Len(seen) = HashWindow
      <4>1. d = 1
        BY <3>3
      <4>2. QED
        BY <2>2, <3>1, <3>2, <3>3, <4>1
    <3>4. CASE Len(seen) # HashWindow
      <4>1. base = seen
        BY <3>4
      <4>2. Len(seen) < HashWindow
        <5> HIDE DEF base, d
        <5>1. HashWindow \in Nat /\ Len(seen) \in Nat /\ Len(seen) <= HashWindow
          BY <1>2, FeedAssumption
        <5>2. QED
          BY <3>4, <5>1
      <4>3. QED
        BY <3>1, <3>2, <4>1, <4>2
    <3>5. QED
      BY <3>3, <3>4
  <2>4. Remember(f) = Append(base, h)
    BY <1>1, <1>5 DEF Remember
  <2> HIDE DEF base, d, h
  <2>5. /\ Remember(f) \in Seq(Token \X Nat) /\ Len(Remember(f)) = Len(base) + 1
        /\ DOMAIN Remember(f) = 1..(Len(base) + 1)
        /\ \A a \in 1..Len(base) : Remember(f)[a] = base[a]
        /\ Remember(f)[Len(base) + 1] = h
    BY <1>1, <2>2, <2>4
  <2>6. \A a \in 1..Len(base) : base[a] \in ToSet(seen) /\ base[a] # h
    BY <1>1, <1>5, <2>2 DEF ToSet
  <2>7. ASSUME NEW a \in 1..Len(base), NEW b \in 1..Len(base), base[a] = base[b]
        PROVE  a = b
    <3>1. a + d \in DOMAIN seen /\ b + d \in DOMAIN seen /\ seen[a + d] = seen[b + d]
      BY <2>2, <2>7
    <3>2. a + d = b + d
      BY <1>3, <3>1
    <3>3. QED
      BY <2>3, <3>2
  <2>8. \A a, b \in DOMAIN Remember(f) : Remember(f)[a] = Remember(f)[b] => a = b
    BY <2>3, <2>5, <2>6, <2>7
  <2>9. IsInjective(Remember(f))
    BY <2>8 DEF IsInjective
  <2>10. \A k \in ToSet(Remember(f)) : k \in ToSet(seen) \/ k = h
    BY <2>3, <2>5, <2>6 DEF ToSet
  <2>11. Len(Remember(f)) <= HashWindow
    BY <2>3, <2>5, FeedAssumption
  <2>12. QED
    BY <1>5, <2>5, <2>9, <2>10, <2>11 DEF h
<1>6. QED
  BY <1>4, <1>5

\* The wire without its head.
LEMMA WireShrinks ==
    ASSUME TypeOK, wire # <<>>, wire' = Tail(wire)
    PROVE  /\ Head(wire) = wire[1] /\ wire[1] \in Frame /\ 1 \in DOMAIN wire
           /\ wire' \in Seq(Frame)
           /\ \A i \in DOMAIN wire' : /\ i + 1 \in DOMAIN wire /\ wire'[i] = wire[i + 1]
                                      /\ i \in Nat \ {0}
           /\ \A j \in DOMAIN wire : j # 1 => j - 1 \in DOMAIN wire' /\ wire'[j - 1] = wire[j]
<1>1. wire \in Seq(Frame) /\ Len(wire) \in Nat \ {0} /\ DOMAIN wire = 1..Len(wire)
      /\ \A i \in DOMAIN wire : wire[i] \in Frame
  BY WireTypes
<1>2. DOMAIN wire' = 1..(Len(wire) - 1) /\ \A i \in DOMAIN wire' : wire'[i] = wire[i + 1]
  BY <1>1
<1>3. wire' \in Seq(Frame) /\ Head(wire) = wire[1]
  BY <1>1
<1>4. QED
  BY <1>1, <1>2, <1>3

\* The changes a token still needs are further back.
LEMMA StillUnderWay ==
    ASSUME TypeOK, BookInv, wire # <<>>, wire' = Tail(wire), NEW t \in Token, NEW v \in Nat,
           UnderWay(t, v),
           \/ wire[1].token # t
           \/ wire[1].version # v
           \/ \E i \in DOMAIN wire' : wire'[i].token = t /\ wire'[i].version < v
    PROVE  UnderWay(t, v)'
<1>1. PICK j \in DOMAIN wire : /\ wire[j].kind = "price_change"
                               /\ wire[j].token = t /\ wire[j].version = v
  BY DEF UnderWay
<1>2. j # 1
  <2> SUFFICES ASSUME j = 1 PROVE FALSE
    OBVIOUS
  <2>1. PICK i \in DOMAIN wire' : wire'[i].token = t /\ wire'[i].version < v
    BY <1>1
  <2>2. i + 1 \in DOMAIN wire /\ wire[i + 1] = wire'[i] /\ 1 < i + 1 /\ 1 \in DOMAIN wire
    BY <2>1, WireShrinks
  <2>3. After(wire[1].version, wire[i + 1])
    BY <1>1, <2>1, <2>2 DEF BookInv, Ordered
  <2>4. wire'[i].version \in Nat
    BY <2>2, WireTypes, FrameTypes
  <2>5. QED
    BY <1>1, <2>1, <2>2, <2>3, <2>4 DEF After
<1>3. j - 1 \in DOMAIN wire' /\ wire'[j - 1] = wire[j]
  BY <1>2, WireShrinks
<1>4. QED
  BY <1>1, <1>3 DEF UnderWay

\* A frame that has arrived: from here on f is it, t its token.
LEMMA HandleTypes ==
    ASSUME TypeOK, BookInv, NEW f \in Frame, f.version \in 1..Version(f.token), Handle(f)
    PROVE  /\ book' \in [Token -> Book] /\ shown' \in [Token -> Nat]
           /\ whole' \subseteq Token /\ told' \subseteq Token \X Level
           /\ \A u \in Token : u # f.token => book'[u] = book[u] /\ shown'[u] = shown[u]
           /\ shown'[f.token] = Larger(shown[f.token], f.version)
           /\ ~IsDuplicate(f) => /\ book'[f.token] = Applied(f)
                                 /\ told' = told \cup ({f.token} \X LevelsOf(f))
                                 /\ whole' = IF f.kind = "book" THEN whole \cup {f.token} ELSE whole
           /\ IsDuplicate(f) => UNCHANGED <<book, whole, told>>
<1>1. /\ f.token \in Token /\ f.version \in Nat /\ f.kind \in {"book", "price_change"}
      /\ LevelsOf(f) \subseteq Level
  BY FrameTypes DEF LevelsOf
<1>2. book \in [Token -> Book] /\ shown \in [Token -> Nat]
      /\ whole \subseteq Token /\ told \subseteq Token \X Level
  BY DEF TypeOK
<1>3. Larger(shown[f.token], f.version) \in Nat
  BY <1>1, <1>2 DEF Larger
<1>4. shown' = [shown EXCEPT ![f.token] = Larger(shown[f.token], f.version)]
  BY DEF Handle
<1>5. /\ shown' \in [Token -> Nat] /\ shown'[f.token] = Larger(shown[f.token], f.version)
      /\ \A u \in Token : u # f.token => shown'[u] = shown[u]
  BY <1>1, <1>2, <1>3, <1>4
<1>6. Applied(f) \in Book
  <2>1. past[f.token] \in Seq(Book) /\ book[f.token] \in Book /\ Version(f.token) \in Nat
    BY <1>1, <1>2, WireTypes
  <2>2. past[f.token][f.version] \in Book
    BY <2>1 DEF Version
  <2>3. QED
    BY <2>1, <2>2 DEF Applied, Book
<1>7. CASE IsDuplicate(f)
  BY <1>2, <1>5, <1>7 DEF Handle
<1>8. CASE ~IsDuplicate(f)
  <2>1. /\ book' = [book EXCEPT ![f.token] = Applied(f)]
        /\ whole' = IF f.kind = "book" THEN whole \cup {f.token} ELSE whole
        /\ told' = told \cup ({f.token} \X LevelsOf(f))
    BY <1>8 DEF Handle
  <2>2. /\ book' \in [Token -> Book] /\ book'[f.token] = Applied(f)
        /\ \A u \in Token : u # f.token => book'[u] = book[u]
    BY <1>1, <1>2, <1>6, <2>1
  <2>3. whole' \subseteq Token /\ told' \subseteq Token \X Level
    BY <1>1, <1>2, <2>1
  <2>4. QED
    BY <1>5, <1>8, <2>1, <2>2, <2>3
<1>9. QED
  BY <1>7, <1>8

\* The next frame takes its token to the frame's version, and to no other
\* book than the venue's.
LEMMA ReceiveKeeps ==
    ASSUME TypeOK, BookInv, Receive
    PROVE  BookInv'
<1> DEFINE f == wire[1]
           t == f.token
<1>1. /\ wire # <<>> /\ up /\ UNCHANGED <<past, up>> /\ wire' = Tail(wire) /\ Handle(f)
  BY WireShrinks DEF Receive
<1>2. /\ f \in Frame /\ 1 \in DOMAIN wire
      /\ \A i \in DOMAIN wire' : /\ i + 1 \in DOMAIN wire /\ wire'[i] = wire[i + 1]
                                 /\ i \in Nat \ {0}
      /\ \A j \in DOMAIN wire : j # 1 => j - 1 \in DOMAIN wire' /\ wire'[j - 1] = wire[j]
  BY <1>1, WireShrinks
<1>3. t \in Token /\ f.version \in 1..Version(t) /\ f.kind \in {"book", "price_change"}
  BY <1>2, FrameTypes DEF BookInv, Genuine
<1>4. /\ \A i \in DOMAIN wire : wire[i].token \in Token /\ wire[i].version \in Nat
      /\ \A u \in Token : Version(u) \in Nat \ {0}
  BY WireTypes, FrameTypes
<1>5. /\ book' \in [Token -> Book] /\ shown' \in [Token -> Nat] /\ whole' \subseteq Token
      /\ \A u \in Token : u # t => book'[u] = book[u] /\ shown'[u] = shown[u]
      /\ shown'[t] = Larger(shown[t], f.version)
      /\ ~IsDuplicate(f) => /\ book'[t] = Applied(f)
                            /\ whole' = IF f.kind = "book" THEN whole \cup {t} ELSE whole
      /\ IsDuplicate(f) => UNCHANGED <<book, whole>>
  BY <1>1, <1>2, <1>3, HandleTypes
<1>6. seen' = Remember(f)
  BY <1>1 DEF Handle
<1> HIDE DEF f, t
<1>7. After(shown[t], f) /\ shown[t] \in 0..Version(t)
  BY <1>2, <1>3 DEF BookInv, ShownIsPast, f, t
<1>8. shown'[t] = f.version
  BY <1>3, <1>4, <1>5, <1>7 DEF After, Larger
<1>9. \A u \in Token : u # t => (u \in whole' <=> u \in whole)
  BY <1>5
<1>10. \A i \in DOMAIN wire' : wire'[i].token = t => After(f.version, wire'[i])
  <2> SUFFICES ASSUME NEW i \in DOMAIN wire', wire'[i].token = t
               PROVE  After(f.version, wire'[i])
    OBVIOUS
  <2>1. 1 < i + 1 /\ i + 1 \in DOMAIN wire /\ wire[i + 1].token = wire[1].token
    BY <1>2 DEF t, f
  <2>2. QED
    BY <1>2, <2>1 DEF BookInv, Ordered, f
<1>11. Genuine'
  <2> SUFFICES ASSUME NEW i \in DOMAIN wire'
               PROVE  /\ wire'[i].version \in 1..Version(wire'[i].token)
                      /\ wire'[i].kind = "price_change" =>
                           /\ wire'[i].version > 1
                           /\ \A k \in Level : k # wire'[i].level =>
                                 past[wire'[i].token][wire'[i].version][k]
                                 = past[wire'[i].token][wire'[i].version - 1][k]
    BY <1>1 DEF Genuine, Version
  <2>1. QED
    BY <1>2 DEF BookInv, Genuine
<1>12. Ordered'
  <2> SUFFICES ASSUME NEW i \in DOMAIN wire', NEW j \in DOMAIN wire', i < j,
                      wire'[i].token = wire'[j].token
               PROVE  After(wire'[i].version, wire'[j])
    BY DEF Ordered, After
  <2>1. /\ i + 1 \in DOMAIN wire /\ j + 1 \in DOMAIN wire /\ i + 1 < j + 1
        /\ wire'[i] = wire[i + 1] /\ wire'[j] = wire[j + 1]
    BY <1>2
  <2>2. QED
    BY <2>1 DEF BookInv, Ordered
<1>13. Complete'
  <2> SUFFICES ASSUME NEW u \in Token, NEW v \in 2..Version(u),
                      \/ u \in whole' /\ shown'[u] < v
                      \/ \E i \in DOMAIN wire' : wire'[i].token = u /\ wire'[i].version < v
               PROVE  UnderWay(u, v)'
    BY <1>1 DEF Complete, Version, UnderWay
  <2>1. CASE \E i \in DOMAIN wire' : wire'[i].token = u /\ wire'[i].version < v
    <3>1. \E i \in DOMAIN wire : wire[i].token = u /\ wire[i].version < v
      BY <1>2, <2>1
    <3>2. UnderWay(u, v)
      BY <1>1, <3>1 DEF BookInv, Complete
    <3>3. v \in Nat
      BY <1>4
    <3>4. QED
      BY <1>1, <2>1, <3>2, <3>3, StillUnderWay
  <2>2. CASE u # t /\ u \in whole' /\ shown'[u] < v
    <3>1. u \in whole /\ shown[u] < v
      BY <1>5, <1>9, <2>2
    <3>2. UnderWay(u, v) /\ v \in Nat
      BY <1>1, <1>4, <3>1 DEF BookInv, Complete
    <3>3. QED
      BY <1>1, <2>2, <3>2, StillUnderWay DEF t, f
  <2>3. CASE u = t /\ shown'[u] < v
    <3>1. wire[1].token = u /\ wire[1].version < v /\ wire[1].version # v
      BY <1>3, <1>4, <1>8, <2>3 DEF t, f
    <3>2. UnderWay(u, v) /\ v \in Nat
      BY <1>1, <1>2, <1>4, <3>1 DEF BookInv, Complete
    <3>3. QED
      BY <1>1, <3>1, <3>2, StillUnderWay
  <2>4. QED
    BY <2>1, <2>2, <2>3
<1>14. KnownIsOld'
  <2> SUFFICES ASSUME NEW h \in ToSet(seen')
               PROVE  /\ h \in Token \X Nat /\ h[2] \in 1..Version(h[1])
                      /\ h[1] \in whole' => h[2] <= shown'[h[1]]
                      /\ \A i \in DOMAIN wire' : wire'[i].token = h[1] => After(h[2], wire'[i])
    BY <1>1 DEF KnownIsOld, Version, After, ToSet
  <2>1. h \in ToSet(seen) \/ h = <<t, f.version>>
    BY <1>2, <1>6, Remembered DEF f, t
  <2>2. CASE h = <<t, f.version>>
    BY <1>3, <1>4, <1>8, <1>10, <2>2
  <2>3. CASE h \in ToSet(seen)
    <3>1. /\ h \in Token \X Nat /\ h[2] \in 1..Version(h[1])
          /\ h[1] \in whole => h[2] <= shown[h[1]]
          /\ \A i \in DOMAIN wire : wire[i].token = h[1] => After(h[2], wire[i])
      BY <2>3 DEF BookInv, KnownIsOld
    <3>2. h[1] \in whole' => h[2] <= shown'[h[1]]
      <4>1. CASE h[1] = t
        BY <1>2, <1>8, <3>1, <4>1 DEF After, t, f
      <4>2. CASE h[1] # t
        BY <1>5, <1>9, <3>1, <4>2
      <4>3. QED
        BY <4>1, <4>2
    <3>3. QED
      BY <1>2, <3>1, <3>2
  <2>4. QED
    BY <2>1, <2>2, <2>3
<1>15. ASSUME t \in whole'
       PROVE  book'[t] = past[t][f.version]
  <2>1. CASE IsDuplicate(f)
    <3>1. <<t, f.version>> \in ToSet(seen) /\ t \in whole /\ book'[t] = book[t]
      BY <1>5, <1>15, <2>1 DEF IsDuplicate, Hash, t
    <3>2. f.version <= shown[t]
      BY <3>1 DEF BookInv, KnownIsOld
    <3>3. shown[t] = f.version
      BY <1>3, <1>4, <1>7, <3>2 DEF After
    <3>4. QED
      BY <1>3, <3>1, <3>3 DEF BookInv, ShownIsPast
  <2>2. CASE ~IsDuplicate(f) /\ f.kind = "book"
    <3>1. book'[t] = [l \in Level |-> past[t][f.version][l]]
      BY <1>5, <2>2 DEF Applied, LevelsOf, t
    <3>2. past[t] \in Seq(Book)
      BY <1>3, WireTypes
    <3>3. past[t][f.version] \in Book
      BY <1>3, <3>2 DEF Version
    <3>4. QED
      BY <3>1, <3>3 DEF Book
  <2>3. CASE ~IsDuplicate(f) /\ f.kind = "price_change"
    <3>1. t \in whole /\ shown[t] >= 1 /\ book[t] = past[t][shown[t]]
      BY <1>3, <1>5, <1>15, <2>3 DEF BookInv, ShownIsPast
    <3>2. shown[t] < f.version
      BY <1>7, <2>3 DEF After
    <3>3. f.version = shown[t] + 1
      <4> SUFFICES ASSUME shown[t] + 1 < f.version PROVE FALSE
        BY <1>3, <1>4, <1>7, <3>2
      <4>1. shown[t] + 1 \in 2..Version(t) /\ shown[t] < shown[t] + 1
        BY <1>3, <1>4, <1>7, <3>1
      <4>2. UnderWay(t, shown[t] + 1)
        BY <1>1, <1>3, <3>1, <4>1 DEF BookInv, Complete
      <4>3. PICK j \in DOMAIN wire : wire[j].token = t /\ wire[j].version = shown[t] + 1
        BY <4>2 DEF UnderWay
      <4>4. j # 1
        BY <1>3, <4>1, <4>3 DEF f
      <4>5. j - 1 \in DOMAIN wire' /\ wire'[j - 1] = wire[j]
        BY <1>2, <4>4
      <4>6. f.version <= shown[t] + 1
        BY <1>10, <4>3, <4>5 DEF After
      <4>7. QED
        BY <1>3, <1>4, <1>7, <4>6
    <3>4. f.level \in Level /\ f \in ChangeFrames
      BY <1>2, <2>3, FrameTypes DEF f
    <3>5. \A l \in Level : l # f.level => past[t][f.version][l] = book[t][l]
      <4>1. \A l \in Level : l # f.level => past[t][f.version][l] = past[t][f.version - 1][l]
        BY <1>2, <2>3 DEF BookInv, Genuine, f, t
      <4>2. f.version - 1 = shown[t]
        BY <1>3, <1>4, <1>7, <3>3
      <4>3. QED
        BY <3>1, <4>1, <4>2
    <3>6. Applied(f) = [l \in Level |-> past[t][f.version][l]]
      BY <2>3, <3>5 DEF Applied, LevelsOf, t
    <3>7. past[t] \in Seq(Book)
      BY <1>3, WireTypes
    <3>8. past[t][f.version] \in Book
      BY <1>3, <3>7 DEF Version
    <3>9. past[t][f.version] = [l \in Level |-> past[t][f.version][l]]
      BY <3>8 DEF Book
    <3>10. QED
      BY <1>5, <2>3, <3>6, <3>9
  <2>4. QED
    BY <1>3, <2>1, <2>2, <2>3
<1>16. ShownIsPast'
  <2> SUFFICES ASSUME NEW u \in Token
               PROVE  /\ shown'[u] \in 0..Version(u)
                      /\ u \in whole' => shown'[u] >= 1 /\ book'[u] = past[u][shown'[u]]
                      /\ \A i \in DOMAIN wire' : wire'[i].token = u => After(shown'[u], wire'[i])
    BY <1>1 DEF ShownIsPast, Version, After
  <2>1. CASE u = t
    BY <1>3, <1>4, <1>8, <1>10, <1>15, <2>1
  <2>2. CASE u # t
    BY <1>2, <1>5, <1>9, <2>2 DEF BookInv, ShownIsPast
  <2>3. QED
    BY <2>1, <2>2
<1>17. Session'
  BY <1>1 DEF Session
<1>18. QED
  BY <1>11, <1>12, <1>13, <1>14, <1>16, <1>17 DEF BookInv

\* A book that comes once more changes nothing of a book that is whole.
LEMMA RedeliveredKeeps ==
    ASSUME TypeOK, BookInv, NEW h \in ToSet(seen), Redelivered(h)
    PROVE  BookInv'
<1> DEFINE f == BookFrame(h[1], h[2])
<1>1. /\ h \in Token \X Nat /\ h[2] \in 1..Version(h[1])
      /\ h[1] \in whole => h[2] <= shown[h[1]]
      /\ \A i \in DOMAIN wire : wire[i].token = h[1] => After(h[2], wire[i])
  BY DEF BookInv, KnownIsOld
<1>2. f \in Frame /\ f.kind = "book" /\ f.token = h[1] /\ f.version = h[2] /\ Hash(f) = h
  BY <1>1, FrameTypes DEF BookFrame, Hash
<1>3. UNCHANGED <<past, wire, up>> /\ up /\ Handle(f)
  BY DEF Redelivered
<1> HIDE DEF f
<1>4. IsDuplicate(f) /\ Remember(f) = seen
  BY <1>2 DEF IsDuplicate, Remember
<1>5. /\ UNCHANGED <<book, whole, seen>> /\ shown' \in [Token -> Nat]
      /\ \A u \in Token : u # h[1] => shown'[u] = shown[u]
      /\ shown'[h[1]] = Larger(shown[h[1]], h[2])
  <2>1. seen' = seen
    BY <1>3, <1>4 DEF Handle
  <2>2. QED
    BY <1>1, <1>2, <1>3, <1>4, <2>1, HandleTypes
<1>6. \A u \in Token : /\ shown[u] \in 0..Version(u) /\ Version(u) \in Nat
                       /\ u \in whole => shown[u] >= 1 /\ book[u] = past[u][shown[u]]
                       /\ \A i \in DOMAIN wire : wire[i].token = u => After(shown[u], wire[i])
  BY WireTypes DEF BookInv, ShownIsPast
<1>7. \A u \in Token : /\ shown'[u] \in 0..Version(u) /\ shown[u] <= shown'[u]
                       /\ u \in whole => shown'[u] = shown[u]
  <2> SUFFICES ASSUME NEW u \in Token
               PROVE  /\ shown'[u] \in 0..Version(u) /\ shown[u] <= shown'[u]
                      /\ u \in whole => shown'[u] = shown[u]
    OBVIOUS
  <2>1. CASE u = h[1]
    BY <1>1, <1>5, <1>6, <2>1 DEF Larger
  <2>2. CASE u # h[1]
    BY <1>5, <1>6, <2>2
  <2>3. QED
    BY <2>1, <2>2
<1>8. Genuine' /\ Ordered' /\ Session'
  <2>1. Genuine'
    BY <1>3 DEF BookInv, Genuine, Version
  <2>2. Ordered'
    BY <1>3 DEF BookInv, Ordered, After
  <2>3. Session'
    BY <1>3 DEF Session
  <2>4. QED
    BY <2>1, <2>2, <2>3
<1>9. Complete'
  <2> SUFFICES ASSUME NEW u \in Token, NEW v \in 2..Version(u),
                      \/ u \in whole /\ shown'[u] < v
                      \/ \E i \in DOMAIN wire : wire[i].token = u /\ wire[i].version < v
               PROVE  UnderWay(u, v)
    BY <1>3, <1>5 DEF Complete, Version, UnderWay
  <2>1. QED
    BY <1>3, <1>7 DEF BookInv, Complete
<1>10. KnownIsOld'
  <2> SUFFICES ASSUME NEW k \in ToSet(seen)
               PROVE  /\ k \in Token \X Nat /\ k[2] \in 1..Version(k[1])
                      /\ k[1] \in whole => k[2] <= shown'[k[1]]
                      /\ \A i \in DOMAIN wire : wire[i].token = k[1] => After(k[2], wire[i])
    BY <1>3, <1>5 DEF KnownIsOld, Version, After
  <2>1. QED
    BY <1>7 DEF BookInv, KnownIsOld
<1>11. ShownIsPast'
  <2> SUFFICES ASSUME NEW u \in Token
               PROVE  /\ shown'[u] \in 0..Version(u)
                      /\ u \in whole => shown'[u] >= 1 /\ book[u] = past[u][shown'[u]]
                      /\ \A i \in DOMAIN wire : wire[i].token = u => After(shown'[u], wire[i])
    BY <1>3, <1>5 DEF ShownIsPast, Version, After
  <2>1. ASSUME NEW i \in DOMAIN wire, wire[i].token = u
        PROVE  After(shown'[u], wire[i])
    <3>1. CASE shown'[u] = shown[u]
      BY <1>6, <2>1, <3>1
    <3>2. CASE shown'[u] # shown[u]
      BY <1>1, <1>5, <2>1, <3>2 DEF Larger
    <3>3. QED
      BY <3>1, <3>2
  <2>2. QED
    BY <1>6, <1>7, <2>1
<1>12. QED
  BY <1>8, <1>9, <1>10, <1>11 DEF BookInv

LEMMA NextKeeps ==
    ASSUME TypeOK, BookInv, [Next]_vars
    PROVE  BookInv'
<1>1. CASE Tick \/ Connecting \/ Quiet \/ UNCHANGED vars
  BY <1>1, IdleKeeps
<1>2. CASE Connect
  BY <1>2, ConnectKeeps
<1>3. CASE Disconnect \/ Stop
  BY <1>3, EndKeeps
<1>4. CASE Receive
  BY <1>4, ReceiveKeeps
<1>5. CASE \E h \in ToSet(seen) : Redelivered(h)
  BY <1>5, RedeliveredKeeps
<1>6. CASE \E t \in Token : SendBook(t)
  BY <1>6, SendBookKeeps
<1>7. CASE \E t \in Token, l \in Level, s \in Size : Move(t, l, s)
  BY <1>7, MoveKeeps
<1>8. QED
  BY <1>1, <1>2, <1>3, <1>4, <1>5, <1>6, <1>7 DEF Next

-----------------------------------------------------------------------------
(***************************************************************************)
(* The types, what rests on a book and the uptime.                         *)
(***************************************************************************)

LEMMA InitHolds ==
    ASSUME Init
    PROVE  IInv
<1>1. FirstBook \in [Token -> Book] /\ 0 \in Size /\ Size \subseteq Nat
      /\ HashWindow \in Nat /\ MaxTime \in Nat \ {0}
  BY FeedAssumption
<1>2. EmptyBook \in Book
  BY <1>1 DEF EmptyBook, Book
<1>3. past \in [Token -> Seq(Book) \ {<<>>}] /\ \A t \in Token : past[t] = <<FirstBook[t]>>
  BY <1>1 DEF Init
<1>4. \A t \in Token : Version(t) = 1
  <2>1. \A t \in Token : Len(<<FirstBook[t]>>) = 1
    OBVIOUS
  <2>2. QED
    BY <1>3, <2>1 DEF Version
<1>5. TypeOK
  <2>1. wire \in Seq([kind : {"book"}, token : Token, version : Nat]
                     \cup [kind : {"price_change"}, token : Token, version : Nat, level : Level])
    BY DEF Init
  <2>2. seen \in Seq(Token \X Nat) /\ Len(seen) <= HashWindow /\ IsInjective(seen)
    BY <1>1 DEF Init, IsInjective
  <2>3. book \in [Token -> Book] /\ shown \in [Token -> Nat]
    BY <1>2 DEF Init, NoBooks
  <2>4. now \in 1..MaxTime /\ lastFrame \in 0..now /\ connectedAt \in 0..now
    BY <1>1 DEF Init
  <2>5. /\ state \in FeedState /\ up \in BOOLEAN /\ (up <=> state \in {"LIVE", "STALE"})
        /\ {connectedMs, connectedFor, connections} \subseteq Nat
        /\ whole \subseteq Token /\ told \subseteq Token \X Level
    <3>1. state \in FeedState /\ state \notin {"LIVE", "STALE"}
      BY DEF Init, FeedState
    <3>2. up \in BOOLEAN /\ ~up
      BY DEF Init
    <3>3. {connectedMs, connectedFor, connections} \subseteq Nat
      BY DEF Init
    <3>4. whole \subseteq Token /\ told \subseteq Token \X Level
      BY DEF Init
    <3>5. QED
      BY <3>1, <3>2, <3>3, <3>4
  <2>6. past \in [Token -> Seq(Book) \ {<<>>}]
    BY <1>3
  <2>7. QED
    BY <2>1, <2>2, <2>3, <2>4, <2>5, <2>6 DEF TypeOK
<1>6. BookInv
  <2>1. DOMAIN wire = {} /\ ToSet(seen) = {} /\ ~up
    BY DEF Init, ToSet
  <2>2. QED
    BY <1>4, <2>1 DEF Init, BookInv, Genuine, Ordered, Complete, KnownIsOld, ShownIsPast, Session
<1>7. GapInv
  BY DEF Init, GapInv, NoBooks, EmptyBook
<1>8. UptimeInv
  BY DEF Init, UptimeInv, SessionSoFar
<1>9. QED
  BY <1>5, <1>6, <1>7, <1>8 DEF IInv

LEMMA TypesKept ==
    ASSUME TypeOK, BookInv, [Next]_vars
    PROVE  TypeOK'
<1>1. FirstBook \in [Token -> Book] /\ 0 \in Size /\ Size \subseteq Nat /\ MaxTime \in Nat \ {0}
  BY FeedAssumption
<1>2. EmptyBook \in Book
  BY <1>1 DEF EmptyBook, Book
<1>3. NoBooks \in [Token -> Book]
  BY <1>2 DEF NoBooks
<1>4. wire \in Seq(Frame) /\ \A t \in Token : Version(t) \in Nat \ {0} /\ past[t] \in Seq(Book)
  BY WireTypes
<1> DEFINE WireOK == wire \in Seq([kind : {"book"}, token : Token, version : Nat]
                     \cup [kind : {"price_change"}, token : Token, version : Nat, level : Level])
<1>5. ASSUME wire' \in Seq(Frame)
      PROVE  WireOK'
  BY <1>5 DEF Frame, BookFrames, ChangeFrames
<1> HIDE DEF WireOK
<1>6. CASE Tick \/ Connecting \/ Quiet \/ UNCHANGED vars
  <2>1. wire' \in Seq(Frame)
    BY <1>4, <1>6 DEF Tick, Connecting, Quiet, vars
  <2>2. UNCHANGED <<past, seen, book, shown, whole, told, up>>
    BY <1>6 DEF Tick, Connecting, Quiet, vars, view
  <2>3. (past \in [Token -> Seq(Book) \ {<<>>}])' /\ WireOK'
        /\ (seen \in Seq(Token \X Nat) /\ Len(seen) <= HashWindow /\ IsInjective(seen))'
        /\ (book \in [Token -> Book] /\ shown \in [Token -> Nat])'
        /\ (whole \subseteq Token /\ told \subseteq Token \X Level)'
    BY <1>5, <2>1, <2>2 DEF TypeOK, IsInjective
  <2>4. (now \in 1..MaxTime /\ lastFrame \in 0..now /\ connectedAt \in 0..now)'
    BY <1>1, <1>6 DEF TypeOK, Tick, Connecting, Quiet, vars, uptime
  <2>5. (state \in FeedState /\ up \in BOOLEAN /\ (up <=> state \in {"LIVE", "STALE"}))'
    BY <1>6 DEF TypeOK, Tick, Connecting, Quiet, vars, FeedState
  <2>6. ({connectedMs, connectedFor, connections} \subseteq Nat)'
    BY <1>6 DEF TypeOK, Tick, Connecting, Quiet, vars, uptime
  <2>7. QED
    BY <2>3, <2>4, <2>5, <2>6 DEF TypeOK, WireOK
<1>7. CASE Connect
  <2>1. wire' \in Seq(Frame)
    BY <1>7, SnapshotFrames DEF Connect
  <2>2. UNCHANGED <<past, seen, book, shown, whole, told, now, lastFrame, connectedMs, connectedFor>>
    BY <1>7 DEF Connect, view
  <2>3. (past \in [Token -> Seq(Book) \ {<<>>}])' /\ WireOK'
        /\ (seen \in Seq(Token \X Nat) /\ Len(seen) <= HashWindow /\ IsInjective(seen))'
        /\ (book \in [Token -> Book] /\ shown \in [Token -> Nat])'
        /\ (whole \subseteq Token /\ told \subseteq Token \X Level)'
    BY <1>5, <2>1, <2>2 DEF TypeOK, IsInjective
  <2>4. (now \in 1..MaxTime /\ lastFrame \in 0..now /\ connectedAt \in 0..now)'
    BY <1>1, <1>7, <2>2 DEF TypeOK, Connect
  <2>5. (state \in FeedState /\ up \in BOOLEAN /\ (up <=> state \in {"LIVE", "STALE"}))'
    BY <1>7 DEF Connect, FeedState
  <2>6. ({connectedMs, connectedFor, connections} \subseteq Nat)'
    BY <1>7, <2>2 DEF TypeOK, Connect
  <2>7. QED
    BY <2>3, <2>4, <2>5, <2>6 DEF TypeOK, WireOK
<1>8. CASE Disconnect \/ Stop
  <2>1. wire' \in Seq(Frame)
    <3>1. wire' = <<>>
      BY <1>8 DEF Disconnect, Stop
    <3>2. QED
      BY <3>1
  <2>2. UNCHANGED <<past, seen, now, lastFrame, connectedFor, connections>>
    BY <1>8 DEF Disconnect, Stop
  <2>3. (past \in [Token -> Seq(Book) \ {<<>>}])' /\ WireOK'
        /\ (seen \in Seq(Token \X Nat) /\ Len(seen) <= HashWindow /\ IsInjective(seen))'
    BY <1>5, <2>1, <2>2 DEF TypeOK, IsInjective
  <2>4. (book \in [Token -> Book] /\ shown \in [Token -> Nat])'
        /\ (whole \subseteq Token /\ told \subseteq Token \X Level)'
    <3>1. CASE DropBooks
      BY <1>3, <3>1 DEF DropBooks
    <3>2. CASE UNCHANGED view
      BY <3>2 DEF TypeOK, view
    <3>3. QED
      BY <1>8, <3>1, <3>2 DEF Disconnect, Stop
  <2>5. (now \in 1..MaxTime /\ lastFrame \in 0..now /\ connectedAt \in 0..now)'
    BY <1>8, <2>2 DEF TypeOK, Disconnect, Stop, BankUptime
  <2>6. (state \in FeedState /\ up \in BOOLEAN /\ (up <=> state \in {"LIVE", "STALE"}))'
    BY <1>8 DEF Disconnect, Stop, FeedState
  <2>7. ({connectedMs, connectedFor, connections} \subseteq Nat)'
    BY <1>8, <2>2 DEF TypeOK, Disconnect, Stop, BankUptime, SessionSoFar
  <2>8. QED
    BY <2>3, <2>4, <2>5, <2>6, <2>7 DEF TypeOK, WireOK
<1>9. ASSUME NEW f \in Frame, f.version \in 1..Version(f.token), Handle(f), up,
             UNCHANGED <<past, now, up, uptime>>, wire' \in Seq(Frame)
      PROVE  TypeOK'
  <2>1. (past \in [Token -> Seq(Book) \ {<<>>}])' /\ WireOK'
    BY <1>5, <1>9 DEF TypeOK
  <2>2. (seen \in Seq(Token \X Nat) /\ Len(seen) <= HashWindow /\ IsInjective(seen))'
    <3>1. seen' = Remember(f)
      BY <1>9 DEF Handle
    <3>2. QED
      BY <1>9, <3>1, Remembered DEF IsInjective
  <2>3. (book \in [Token -> Book] /\ shown \in [Token -> Nat])'
        /\ (whole \subseteq Token /\ told \subseteq Token \X Level)'
    BY <1>9, HandleTypes
  <2>4. (now \in 1..MaxTime /\ lastFrame \in 0..now /\ connectedAt \in 0..now)'
    BY <1>9 DEF TypeOK, Handle, uptime
  <2>5. (state \in FeedState /\ up \in BOOLEAN /\ (up <=> state \in {"LIVE", "STALE"}))'
    BY <1>9 DEF Handle, FeedState
  <2>6. ({connectedMs, connectedFor, connections} \subseteq Nat)'
    BY <1>9 DEF TypeOK, uptime
  <2>7. QED
    BY <2>1, <2>2, <2>3, <2>4, <2>5, <2>6 DEF TypeOK, WireOK
<1>10. CASE Receive
  <2>1. Head(wire) \in Frame /\ wire' \in Seq(Frame) /\ Head(wire) = wire[1] /\ 1 \in DOMAIN wire
    BY <1>10, WireShrinks DEF Receive
  <2>2. Head(wire).version \in 1..Version(Head(wire).token)
    BY <2>1 DEF BookInv, Genuine
  <2>3. QED
    BY <1>9, <1>10, <2>1, <2>2 DEF Receive
<1>11. CASE \E h \in ToSet(seen) : Redelivered(h)
  <2>1. PICK h \in ToSet(seen) : Redelivered(h)
    BY <1>11
  <2>2. h \in Token \X Nat /\ h[2] \in 1..Version(h[1])
    BY DEF BookInv, KnownIsOld
  <2>3. BookFrame(h[1], h[2]) \in Frame
        /\ BookFrame(h[1], h[2]).version \in 1..Version(BookFrame(h[1], h[2]).token)
    BY <2>2, FrameTypes DEF BookFrame
  <2>4. QED
    BY <1>4, <1>9, <2>1, <2>3 DEF Redelivered
<1>12. CASE \E t \in Token : SendBook(t)
  <2>1. PICK t \in Token : SendBook(t)
    BY <1>12
  <2>2. BookFrame(t, Version(t)) \in Frame
    BY <1>4, FrameTypes
  <2>3. wire' \in Seq(Frame)
    BY <2>1, <2>2, WireGrows DEF SendBook
  <2>4. QED
    BY <1>5, <2>1, <2>3 DEF SendBook, TypeOK, WireOK, uptime, view, IsInjective
<1>13. CASE \E t \in Token, l \in Level, s \in Size : Move(t, l, s)
  <2>1. PICK t \in Token, l \in Level, s \in Size : Move(t, l, s)
    BY <1>13
  <2>2. past' \in [Token -> Seq(Book) \ {<<>>}]
    <3>1. Grown(t, l)
      BY <2>1, MoveGrows
    <3>2. QED
      BY <3>1 DEF Grown
  <2>3. ChangeFrame(t, Version(t) + 1, l) \in Frame
    <3>1. Version(t) + 1 \in Nat
      BY <1>4
    <3>2. QED
      BY <3>1, FrameTypes
  <2>4. wire' \in Seq(Frame)
    BY <1>4, <2>1, <2>3, WireGrows DEF Move
  <2>5. QED
    BY <1>5, <2>1, <2>2, <2>4 DEF Move, TypeOK, WireOK, uptime, view, IsInjective
<1>14. QED
  BY <1>6, <1>7, <1>8, <1>10, <1>11, <1>12, <1>13 DEF Next

LEMMA GapKept ==
    ASSUME TypeOK, BookInv, GapInv, [Next]_vars
    PROVE  GapInv'
<1>1. CASE UNCHANGED view
  BY <1>1 DEF GapInv, view
<1>2. CASE DropBooks
  BY <1>2 DEF DropBooks, GapInv, NoBooks, EmptyBook
<1>3. ASSUME NEW f \in Frame, f.version \in 1..Version(f.token), Handle(f)
      PROVE  GapInv'
  <2> SUFFICES ASSUME NEW t \in Token, NEW l \in Level, book'[t][l] > 0
               PROVE  <<t, l>> \in told'
    BY DEF GapInv
  <2>1. book[t][l] > 0 => <<t, l>> \in told
    BY DEF GapInv
  <2>2. CASE IsDuplicate(f)
    BY <1>3, <2>1, <2>2, HandleTypes
  <2>3. CASE ~IsDuplicate(f) /\ t # f.token
    BY <1>3, <2>1, <2>3, HandleTypes
  <2>4. CASE ~IsDuplicate(f) /\ t = f.token
    <3>1. book'[t] = Applied(f) /\ told' = told \cup ({t} \X LevelsOf(f))
      BY <1>3, <2>4, HandleTypes
    <3>2. CASE l \in LevelsOf(f)
      BY <3>1, <3>2
    <3>3. CASE l \notin LevelsOf(f)
      BY <2>1, <2>4, <3>1, <3>3 DEF Applied
    <3>4. QED
      BY <3>2, <3>3
  <2>5. QED
    BY <2>2, <2>3, <2>4
<1>4. CASE Receive
  <2>1. Head(wire) \in Frame /\ Head(wire) = wire[1] /\ 1 \in DOMAIN wire
    BY <1>4, WireShrinks DEF Receive
  <2>2. Head(wire).version \in 1..Version(Head(wire).token)
    BY <2>1 DEF BookInv, Genuine
  <2>3. QED
    BY <1>3, <1>4, <2>1, <2>2 DEF Receive
<1>5. CASE \E h \in ToSet(seen) : Redelivered(h)
  <2>1. PICK h \in ToSet(seen) : Redelivered(h)
    BY <1>5
  <2>2. h \in Token \X Nat /\ h[2] \in 1..Version(h[1])
    BY DEF BookInv, KnownIsOld
  <2>3. BookFrame(h[1], h[2]) \in Frame
        /\ BookFrame(h[1], h[2]).version \in 1..Version(BookFrame(h[1], h[2]).token)
    BY <2>2, FrameTypes DEF BookFrame
  <2>4. QED
    BY <1>3, <2>1, <2>3 DEF Redelivered
<1>6. QED
  BY <1>1, <1>2, <1>4, <1>5
     DEF Next, vars, view, Tick, Connecting, Connect, Quiet, Disconnect, Stop, SendBook, Move

LEMMA UptimeKept ==
    ASSUME TypeOK, UptimeInv, [Next]_vars
    PROVE  UptimeInv'
<1>1. /\ now \in Nat \ {0} /\ connectedAt \in 0..now /\ connectedMs \in Nat /\ connectedFor \in Nat
      /\ up \in BOOLEAN /\ up <=> state \in {"LIVE", "STALE"}
  BY FeedAssumption DEF TypeOK
<1>2. CASE Tick
  BY <1>1, <1>2 DEF Tick, UptimeInv, SessionSoFar
<1>3. CASE Connect
  <2>1. ~up /\ state # "STOPPED"
    BY <1>1, <1>3 DEF Connect
  <2>2. connectedAt = 0 /\ connectedFor = connectedMs
    BY <1>1, <2>1 DEF UptimeInv, SessionSoFar
  <2>3. now' = now /\ connectedAt' = now /\ up' /\ UNCHANGED <<connectedMs, connectedFor>>
    BY <1>3 DEF Connect
  <2>4. SessionSoFar' = 0
    BY <1>1, <2>3 DEF SessionSoFar
  <2>5. QED
    BY <1>1, <2>2, <2>3, <2>4 DEF UptimeInv
<1>4. CASE Disconnect
  BY <1>1, <1>4 DEF Disconnect, BankUptime, UptimeInv, SessionSoFar
<1>5. CASE Stop
  BY <1>5 DEF Stop, UptimeInv
<1>6. ASSUME UNCHANGED <<now, up, uptime>>, state' # "STOPPED" => state # "STOPPED"
      PROVE  UptimeInv'
  BY <1>6 DEF UptimeInv, SessionSoFar, uptime
<1>7. CASE UNCHANGED <<now, up, uptime>> /\ state' \in {state, "LIVE", "STALE", "CONNECTING"}
           /\ (state = "STOPPED" => state' = state)
  BY <1>6, <1>7
<1>8. CASE Receive \/ \E h \in ToSet(seen) : Redelivered(h)
  <2>1. UNCHANGED <<now, up, uptime>> /\ up
    BY <1>8 DEF Receive, Redelivered
  <2>2. state # "STOPPED"
    BY <1>1, <2>1
  <2>3. QED
    BY <1>6, <2>1, <2>2
<1>9. CASE Connecting \/ Quiet
  BY <1>1, <1>6, <1>9 DEF Connecting, Quiet
<1>10. CASE \/ \E t \in Token : SendBook(t)
            \/ \E t \in Token, l \in Level, s \in Size : Move(t, l, s)
            \/ UNCHANGED vars
  <2>1. UNCHANGED <<now, up, uptime, state>>
    BY <1>10 DEF SendBook, Move, vars, uptime
  <2>2. QED
    BY <1>6, <2>1
<1>11. QED
  BY <1>2, <1>3, <1>4, <1>5, <1>8, <1>9, <1>10 DEF Next

LEMMA IInvHolds == Spec => []IInv
<1>1. Init => IInv
  BY InitHolds
<1>2. IInv /\ [Next]_vars => IInv'
  BY NextKeeps, TypesKept, GapKept, UptimeKept DEF IInv
<1>3. QED
  BY <1>1, <1>2, PTL DEF Spec

(***************************************************************************)
(* A book applied whole is the venue's, and nothing on a book outlives the *)
(* connection that told of it: PolymarketMarketFeed and OrderBook over any *)
(* number of moves, redeliveries and reconnects.                           *)
(***************************************************************************)
THEOREM Whole == Spec => []BooksAreWhole
<1>1. IInv => BooksAreWhole
  <2> SUFFICES ASSUME IInv PROVE BooksAreWhole
    OBVIOUS
  <2>1. TypeOK
    BY DEF IInv
  <2>2. BookIsVenues
    BY <2>1 DEF IInv, BookInv, ShownIsPast, BookIsVenues, TypeOK
  <2>3. NothingAcrossGap
    BY DEF IInv, GapInv, NothingAcrossGap
  <2>4. QED
    BY <2>1, <2>2, <2>3 DEF BooksAreWhole
<1>2. QED
  BY <1>1, IInvHolds, PTL

(***************************************************************************)
(* Between two connections the banked uptime is the time the transport was *)
(* up: no session is banked twice by a failed attempt to come back.        *)
(***************************************************************************)
THEOREM Banked == Spec => []UptimeBanked
<1>1. IInv => UptimeBanked
  BY DEF IInv, UptimeInv, UptimeBanked, SessionSoFar, TypeOK
<1>2. QED
  BY <1>1, IInvHolds, PTL

=============================================================================
