---------------------------- MODULE MCBookStream ----------------------------
(* BookStream with few updates; the two parts are each made small while the  *)
(* other is large.                                                           *)
EXTENDS BookStream

CONSTANTS trade, book, c1, c2

Level(p, q) == [px |-> p, qty |-> q]
Book(s, b, a) == [symbol |-> s, bids |-> b, asks |-> a]

MCLevels == {Level(p, q) : p \in 1 .. 3, q \in 0 .. 1}

\* Two snapshots with tops of their own, and one without asks.
Wide(s)  == Book(s, {Level(1, 1), Level(2, 0)}, {Level(2, 1), Level(3, 1)})
Tight(s) == Book(s, {Level(1, 1), Level(2, 1)}, {Level(2, 0), Level(3, 1)})
Bare(s)  == Book(s, {Level(1, 1)}, {Level(3, 0)})

MCPairs == {<<Wide(book), Tight(book)>>}
MCTriples == {<<Wide(book), u, v>> : u, v \in {Tight(book), Bare(book), Tight(trade)}}
MCLong == {[i \in 1 .. 5 |-> IF i \in on THEN Wide(book) ELSE Tight(trade)] :
              on \in {{}, {1, 3, 5}}}

VARIABLE part   \* what is made large: "hub", "both" or "matcher"

Absent(c) == hpc[c] = "end"

\* The gateway alone with two browsers; both with one browser and two updates;
\* the matcher alone with three updates, and with a throttle.
MCStarts ==
    /\ feed \in {<<>>} \cup MCPairs \cup MCTriples \cup MCLong
    /\ hpc \in [Conns -> {"none", "end"}]
    /\ every \in Everys
    /\ \/ /\ part = "hub" /\ feed = <<>> /\ every = 1
          /\ \A c \in Conns : ~Absent(c)
       \/ /\ part = "both" /\ feed \in MCPairs /\ every = 1
          /\ ~Absent(c1) /\ Absent(c2)
       \/ /\ part = "matcher" /\ every = 1 /\ feed \in MCTriples
          /\ \A c \in Conns : Absent(c)
       \/ /\ part = "matcher" /\ every > 1 /\ feed \in MCLong
          /\ \A c \in Conns : Absent(c)

\* The browsers are alike: c1 is the one that asks first.
FirstC1 == hpc[c1] = "none" => hpc'[c2] = hpc[c2]

\* The gateway alone is subscribed and takes each message at once, the matcher
\* alone publishes to nobody; both together meet all that can happen on the way,
\* while the feed of Binance holds, on the one channel of the browser.
OnTheWay ==
    /\ part = "hub" => /\ subscribed' /\ missed' = missed
                       /\ redis' # redis => gpc = "range" /\ wire = {}
                       /\ wire # {} => wire' = {}
    /\ part = "matcher" => ~subscribed'
    /\ part = "both" => /\ link = "up" => link' = "up"
                        /\ feed' # feed => link = "up"
                        /\ topic'[c1] # trade
                        /\ redis' # redis => Last(redis').symbol = book

MCInit == MCStarts /\ StreamInit /\ (feed = <<>> => conn = "ok")

MCVars == <<streamVars, part>>

MCSpec ==
    /\ MCInit
    /\ [][StreamNext /\ FirstC1 /\ OnTheWay /\ UNCHANGED part]_MCVars
    /\ StreamFairness
=============================================================================
