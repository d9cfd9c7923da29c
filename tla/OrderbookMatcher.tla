-------------------------- MODULE OrderbookMatcher --------------------------
(***************************************************************************)
(* orderbook-matcher: the handler of the Binance depth stream keeps a book *)
(* per symbol and, every so many updates, hands the top of a book to a     *)
(* task of its own.  The tasks run on several threads and take turns at    *)
(* the one connection to Redis.                                            *)
(*                                                                         *)
(* A snapshot names each price once.  What parse_combined_book cannot read *)
(* is passed over.  An update is known by its number.                      *)
(***************************************************************************)
EXTENDS Integers, Sequences, FiniteSets, SequencesExt

CONSTANTS
    Symbols,
    Levels,     \* levels of a side: [px, qty]; a quantity may be zero
    Wrap,       \* tick is a u32: 2^32
    Everys,     \* values of --publish-every
    Channels,   \* channels of Redis that other programs publish to
    Faults      \* subset of {"link", "redis"}

MatcherAssumption ==
    /\ Levels \subseteq [px : Nat, qty : Nat]
    /\ Wrap \in Nat \ {0}
    /\ Everys \subseteq Nat
    /\ Faults \subseteq {"link", "redis"}

VARIABLES
    feed,      \* what Binance is going to send
    link,      \* the WebSocket: "up" or "down"
    books,     \* a book per symbol
    tick,      \* updates counted, all symbols together
    every,     \* args.publish_every.max(1)
    tasks,     \* spawned tasks that have not come to the lock
    queue,     \* tasks at the lock of the connection; the first one has it
    conn,      \* the publisher: "none", "ok", "silent" or "broken"
    redis,     \* history: the messages Redis has taken
    applied,   \* history: the updates applied to the books
    lost       \* history: the updates whose top could not be published

bookVars    == <<books, tick, applied>>
matcherVars == <<feed, link, bookVars, every, tasks, queue, conn, redis, lost>>

Updates == [symbol : Symbols, bids : SUBSET Levels, asks : SUBSET Levels]

TypeOK ==
    /\ feed \in Seq(Updates)
    /\ link \in {"up", "down"}
    /\ \A s \in Symbols : books[s].bids \cup books[s].asks \subseteq Levels
    /\ tick \in 0 .. Wrap - 1
    /\ every \in Nat \ {0}
    /\ conn \in {"none", "ok", "silent", "broken"}
    /\ applied \in Seq(Updates)
    /\ lost \subseteq DOMAIN applied

AtLeastOne(n) == IF n < 1 THEN 1 ELSE n

\* Redis may be out of reach at the start: then nothing is ever published.
Init ==
    /\ feed \in Seq(Updates)
    /\ link = "down"
    /\ books = [s \in Symbols |-> [bids |-> {}, asks |-> {}]]
    /\ tick = 0
    /\ every \in {AtLeastOne(n) : n \in Everys}
    /\ tasks = {}
    /\ queue = <<>>
    /\ conn \in IF "redis" \in Faults THEN {"none", "ok"} ELSE {"ok"}
    /\ redis = <<>>
    /\ applied = <<>>
    /\ lost = {}

-----------------------------------------------------------------------------
(* The book.                                                                *)

\* (mutant) the asks are not cleared.
applyOver(b, ev) == [bids |-> {l \in ev.bids : l.qty > 0},
                     asks |-> b.asks \cup {l \in ev.asks : l.qty > 0}]
apply(b, ev) == [bids |-> {l \in ev.bids : l.qty > 0},
                 asks |-> {l \in ev.asks : l.qty > 0}]

HasTop(b) == b.bids # {} /\ b.asks # {}
top(b) == [bid |-> CHOOSE l \in b.bids : \A k \in b.bids : k.px <= l.px,
           ask |-> CHOOSE l \in b.asks : \A k \in b.asks : l.px <= k.px]

-----------------------------------------------------------------------------
(* The feed and its handler.  Breaks are looked at as long as they can make *)
(* a difference to what is still to come.                                   *)

Connect ==
    /\ link = "down"
    /\ feed # <<>>
    /\ link' = "up"
    /\ UNCHANGED <<feed, bookVars, every, tasks, queue, conn, redis, lost>>

Disconnect ==
    /\ "link" \in Faults
    /\ link = "up"
    /\ feed # <<>>
    /\ link' = "down"
    /\ UNCHANGED <<feed, bookVars, every, tasks, queue, conn, redis, lost>>

\* What is sent while the feed is not connected.
Missed ==
    /\ "link" \in Faults
    /\ link = "down"
    /\ feed # <<>>
    /\ feed' = Tail(feed)
    /\ UNCHANGED <<link, bookVars, every, tasks, queue, conn, redis, lost>>

\* (mutant) saturating_add
CountSaturating == IF tick + 1 = Wrap THEN tick ELSE tick + 1
Count == (tick + 1) % Wrap

\* The closure given to feed.run, under the write lock of the books.
on_book ==
    /\ link = "up"
    /\ feed # <<>>
    /\ feed' = Tail(feed)
    /\ LET ev   == Head(feed)
           next == apply(books[ev.symbol], ev)
       IN /\ books' = [books EXCEPT ![ev.symbol] = next]
          /\ tick' = Count
          /\ applied' = Append(applied, ev)
          /\ tasks' = IF tick' % every = 0 /\ HasTop(next) /\ conn # "none"
                      THEN tasks \cup {[symbol |-> ev.symbol,
                                        top    |-> top(next),
                                        n      |-> Len(applied'),
                                        behind |-> {t.n : t \in tasks}]}
                      ELSE tasks
    /\ UNCHANGED <<link, every, queue, conn, redis, lost>>

-----------------------------------------------------------------------------
(* publish_top, in a task of its own.                                       *)

\* (mutants) a later task may pass at the lock; a busy connection is given up.
lockUnfair(t) ==
    /\ t \in tasks
    /\ tasks' = tasks \ {t}
    /\ queue' = <<t>> \o queue
    /\ UNCHANGED <<feed, link, bookVars, every, conn, redis, lost>>
lockTry(t) ==
    /\ t \in tasks
    /\ tasks' = tasks \ {t}
    /\ queue' = IF queue = <<>> THEN <<t>> ELSE queue
    /\ UNCHANGED <<feed, link, bookVars, every, conn, redis, lost>>
\* conn.lock(): a tokio Mutex is given in the order in which it is asked for.
lock(t) ==
    /\ t \in tasks
    /\ tasks' = tasks \ {t}
    /\ queue' = Append(queue, t)
    /\ UNCHANGED <<feed, link, bookVars, every, conn, redis, lost>>

\* The answer of Redis; an error is logged and the top is lost.  A silent
\* connection is waited for without end, and the lock is kept: whether Redis has
\* taken that last top is not known here.
publish ==
    /\ queue # <<>>
    /\ conn # "silent"
    /\ queue' = Tail(queue)
    /\ IF conn = "ok"
       THEN redis' = Append(redis, Head(queue)) /\ UNCHANGED lost
       ELSE lost' = lost \cup {Head(queue).n} /\ UNCHANGED redis
    /\ UNCHANGED <<feed, link, bookVars, every, tasks, conn>>

\* A multiplexed connection that has failed is not opened again.
BreakRedis ==
    /\ "redis" \in Faults
    /\ conn \in {"ok", "silent"}
    /\ feed # <<>> \/ tasks # {} \/ queue # <<>>
    /\ conn' \in {"silent", "broken"} \ {conn}
    /\ UNCHANGED <<feed, link, bookVars, every, tasks, queue, redis, lost>>

-----------------------------------------------------------------------------

publish_top == (\E t \in tasks : lock(t)) \/ publish

Next ==
    \/ Connect
    \/ Disconnect
    \/ Missed
    \/ on_book
    \/ publish_top
    \/ BreakRedis

\* Redis takes the messages of other programs, which have no number.
Other(ch) == [symbol |-> ch, n |-> 0]

PublishOther(ch) ==
    /\ redis' = Append(redis, Other(ch))
    /\ UNCHANGED <<feed, link, bookVars, every, tasks, queue, conn, lost>>

SharedNext == Next \/ \E ch \in Channels : PublishOther(ch)

Spec == Init /\ [][SharedNext]_matcherVars

-----------------------------------------------------------------------------

Handed == {t.n : t \in tasks \cup ToSet(queue)} \cup lost
              \cup {redis[i].n : i \in DOMAIN redis}

\* l is the best of a side of an update: a level that is there, none better.
Best(l, side, Better(_, _)) ==
    /\ l \in side
    /\ l.qty > 0
    /\ \A k \in side : k.qty > 0 => ~Better(k.px, l.px)

(* What is published for a symbol is the best bid and the best ask of one and
   the same snapshot of that symbol, never a mixture of two, and no top is
   published twice. *)
TopsAreOfOneSnapshot ==
    \A i \in DOMAIN redis : redis[i].n # 0 =>
        LET ev == applied[redis[i].n]
        IN  /\ redis[i].symbol = ev.symbol
            /\ Best(redis[i].top.bid, ev.bids, LAMBDA x, y : x > y)
            /\ Best(redis[i].top.ask, ev.asks, LAMBDA x, y : x < y)
            /\ \A j \in DOMAIN redis : redis[j].n = redis[i].n => j = i

(* Tops are published from tasks of their own (main.rs:86), so an older one may
   come after a newer one - but only one whose task had not come to the lock
   when the newer book was applied; a top that waits for Redis is not passed. *)
OvertakesOnlyBeforeTheLock ==
    \A i, j \in DOMAIN redis :
        i < j /\ redis[i].n > redis[j].n /\ redis[j].n # 0 =>
            redis[j].n \in redis[i].behind

(* "publish only every N book updates" (main.rs:28), also when the counter
   wraps around: of any N updates in a row one is handed on, unless Redis was
   out of reach at the start or a book had an empty side. *)
ThrottleKeepsUp ==
    conn # "none" =>
        \A k \in 0 .. Len(applied) - every :
            \E n \in k + 1 .. k + every :
                n \in Handed \/ ~HasTop(apply([bids |-> {}, asks |-> {}], applied[n]))
=============================================================================
