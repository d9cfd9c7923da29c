--------------------------- MODULE MatcherProofs ---------------------------
(***************************************************************************)
(* What orderbook-matcher publishes, for any symbols, levels, lengths of   *)
(* the counter and values of --publish-every, and any number of tasks.     *)
(***************************************************************************)
EXTENDS OrderbookMatcher, SequenceTheorems, FiniteSetTheorems, TLAPS

\* An update replaces the book, whatever was in it.
Fresh(ev) == apply([bids |-> {}, asks |-> {}], ev)

\* What a task has to publish.
Tops == [symbol : Symbols, top : {top(Fresh(ev)) : ev \in Updates}, n : Nat,
         behind : SUBSET Nat]

\* What stands in Redis: with a number what a task has published, without one
\* what another program has.
Messages == Tops \cup [symbol : Channels, n : {0}]

Types ==
    /\ feed \in Seq(Updates)
    /\ applied \in Seq(Updates)
    /\ tasks \subseteq Tops
    /\ queue \in Seq(Tops)
    /\ redis \in Seq(Messages)

\* A top is the one of the update whose number it has.
Genuine(t) ==
    /\ t.n \in DOMAIN applied
    /\ t.symbol = applied[t.n].symbol
    /\ HasTop(Fresh(applied[t.n]))
    /\ t.top = top(Fresh(applied[t.n]))

AllGenuine ==
    /\ \A t \in tasks : Genuine(t)
    /\ \A i \in DOMAIN queue : Genuine(queue[i])
    /\ \A i \in DOMAIN redis : redis[i].n # 0 => Genuine(redis[i])

\* u may be published after t: it is another one, and if it is older, its task
\* had not come to the lock when t's was spawned.  Other messages come anywhere.
MayFollow(t, u) ==
    t.n # 0 /\ u.n # 0 => t.n # u.n /\ (t.n > u.n => u.n \in t.behind)

\* Redis, the queue at the lock and the tasks on their way to it are a line.
InLine ==
    /\ \A i, j \in DOMAIN redis : i < j => MayFollow(redis[i], redis[j])
    /\ \A i \in DOMAIN redis : \A j \in DOMAIN queue : MayFollow(redis[i], queue[j])
    /\ \A i \in DOMAIN redis : \A t \in tasks : MayFollow(redis[i], t)
    /\ \A i, j \in DOMAIN queue : i < j => MayFollow(queue[i], queue[j])
    /\ \A i \in DOMAIN queue : \A t \in tasks : MayFollow(queue[i], t)
    /\ \A t, u \in tasks : t # u => MayFollow(t, u)

LineInv == Types /\ AllGenuine /\ InLine

\* At the start there is no top anywhere.
LEMMA LineInit == Init => LineInv
BY EmptySeq DEF Init, LineInv, Types, AllGenuine, InLine

\* apply, book.rs: the new book does not depend on the old one.
LEMMA FreshBook == ASSUME NEW b, NEW ev PROVE apply(b, ev) = Fresh(ev)
BY DEF apply, Fresh

\* The update is applied; a task may have been spawned for it.
LEMMA ApplyLine ==
    ASSUME LineInv, on_book
    PROVE  LineInv'
<1> DEFINE ev == Head(feed)
           n  == Len(applied) + 1
           z  == [symbol |-> ev.symbol, top |-> top(Fresh(ev)), n |-> n,
                  behind |-> {t.n : t \in tasks}]
<1>1. /\ ev \in Updates /\ feed' \in Seq(Updates)
      /\ Len(applied) \in Nat /\ applied' = Append(applied, ev)
      /\ queue' = queue /\ redis' = redis
  BY HeadTailProperties, LenProperties DEF LineInv, Types, on_book
<1>2. /\ applied' \in Seq(Updates) /\ Len(applied') = n /\ applied'[n] = ev
      /\ DOMAIN applied = 1 .. Len(applied) /\ DOMAIN applied' = 1 .. n
      /\ \A i \in 1 .. Len(applied) : applied'[i] = applied[i]
  BY <1>1, AppendProperties, LenProperties DEF LineInv, Types
<1>3. \/ tasks' = tasks
      \/ tasks' = tasks \cup {z} /\ HasTop(Fresh(ev))
  <2>1. apply(books[ev.symbol], ev) = Fresh(ev)
    BY FreshBook
  <2> QED
    BY <1>1, <1>2, <2>1 DEF on_book
<1> HIDE DEF ev, n
<1>4. z \in Tops
  <2>1. ev.symbol \in Symbols
    BY <1>1 DEF Updates
  <2>2. {t.n : t \in tasks} \in SUBSET Nat
    BY DEF LineInv, Types, Tops
  <2>3. n \in Nat
    BY <1>1 DEF n
  <2> QED
    BY <1>1, <2>1, <2>2, <2>3 DEF Tops
<1>5. Types'
  BY <1>1, <1>2, <1>3, <1>4 DEF LineInv, Types
<1>6. ASSUME NEW t, Genuine(t) PROVE Genuine(t)' /\ t.n # n /\ t.n < n
  <2>1. t.n \in 1 .. Len(applied) /\ t.n \in 1 .. n /\ t.n < n
    BY <1>1, <1>2, <1>6 DEF Genuine, n
  <2> QED
    BY <1>2, <1>6, <2>1 DEF Genuine
<1>7. ASSUME NEW u, u = z, HasTop(Fresh(ev)) PROVE Genuine(u)'
  <2>1. /\ u.n = n /\ u.symbol = ev.symbol /\ u.top = top(Fresh(ev))
        /\ n \in DOMAIN applied' /\ applied'[n] = ev
    BY <1>1, <1>2, <1>7 DEF n
  <2>2. applied'[u.n] = ev
    BY <2>1
  <2> QED
    BY <1>7, <2>1, <2>2 DEF Genuine
<1>8. AllGenuine'
  <2>1. \A t \in tasks' : Genuine(t)'
    BY <1>3, <1>6, <1>7 DEF LineInv, AllGenuine
  <2> QED
    BY <1>1, <1>6, <2>1 DEF LineInv, AllGenuine
<1>9. ASSUME NEW t, Genuine(t) PROVE MayFollow(t, z)
  BY <1>1, <1>6, <1>9 DEF MayFollow, n, Genuine
<1>10. ASSUME NEW t \in tasks PROVE MayFollow(z, t)
  BY <1>6, <1>10 DEF MayFollow, LineInv, AllGenuine
<1>11. InLine'
  <2> HIDE DEF z
  <2>1. /\ \A i \in DOMAIN redis : redis[i].n = 0 \/ Genuine(redis[i])
        /\ \A i \in DOMAIN queue : Genuine(queue[i])
    BY DEF LineInv, AllGenuine
  <2>2. /\ \A i \in DOMAIN redis : MayFollow(redis[i], z)
        /\ \A i \in DOMAIN queue : MayFollow(queue[i], z)
    BY <1>9, <2>1 DEF MayFollow
  <2>3. \A t \in tasks : MayFollow(t, z) /\ MayFollow(z, t)
    BY <1>9, <1>10 DEF LineInv, AllGenuine
  <2>4. CASE tasks' = tasks
    BY <1>1, <2>4 DEF LineInv, InLine, MayFollow
  <2>5. CASE tasks' = tasks \cup {z}
    BY <1>1, <2>2, <2>3, <2>5 DEF LineInv, InLine, MayFollow
  <2> QED
    BY <1>3, <2>4, <2>5
<1> QED
  BY <1>5, <1>8, <1>11 DEF LineInv

\* A task comes to the lock: it is behind nobody it was not behind.
LEMMA LockLine ==
    ASSUME LineInv, NEW t \in tasks, lock(t)
    PROVE  LineInv'
<1>1. /\ tasks' = tasks \ {t} /\ redis' = redis /\ applied' = applied
      /\ feed' = feed /\ queue' = Append(queue, t) /\ t \in Tops
  BY DEF lock, bookVars, LineInv, Types
<1>2. /\ queue' \in Seq(Tops) /\ Len(queue) \in Nat
      /\ DOMAIN queue = 1 .. Len(queue) /\ DOMAIN queue' = 1 .. Len(queue) + 1
      /\ \A i \in 1 .. Len(queue) : queue'[i] = queue[i]
      /\ queue'[Len(queue) + 1] = t
  BY <1>1, AppendProperties, LenProperties DEF LineInv, Types
<1>3. \A i \in DOMAIN queue' : i \in DOMAIN queue \/ (i = Len(queue) + 1)
  BY <1>2
<1>4. Types'
  BY <1>1, <1>2 DEF LineInv, Types
<1>5. AllGenuine'
  BY <1>1, <1>2, <1>3 DEF LineInv, AllGenuine, Genuine
<1>6. ASSUME NEW i \in DOMAIN queue', NEW j \in DOMAIN queue', i < j
      PROVE  MayFollow(queue'[i], queue'[j])
  <2>1. i \in DOMAIN queue
    BY <1>2, <1>6
  <2> QED
    BY <1>2, <1>3, <1>6, <2>1 DEF LineInv, InLine
<1>7. InLine'
  BY <1>1, <1>2, <1>3, <1>6 DEF LineInv, InLine, MayFollow
<1> QED
  BY <1>4, <1>5, <1>7 DEF LineInv

\* The first at the lock publishes, and is the last in Redis.
LEMMA PublishLine == ASSUME LineInv, publish PROVE LineInv'
<1> DEFINE h == Head(queue)
<1>1. /\ tasks' = tasks /\ applied' = applied /\ feed' = feed
      /\ queue # <<>> /\ queue' = Tail(queue)
      /\ redis' = redis \/ redis' = Append(redis, h)
  BY DEF publish, bookVars
<1>2. /\ h = queue[1] /\ h \in Tops /\ queue' \in Seq(Tops)
      /\ Len(queue) \in Nat /\ Len(queue) > 0
      /\ DOMAIN queue = 1 .. Len(queue) /\ DOMAIN queue' = 1 .. Len(queue) - 1
      /\ \A i \in 1 .. Len(queue) - 1 : queue'[i] = queue[i + 1]
  BY <1>1, HeadTailProperties, LenProperties, EmptySeq DEF LineInv, Types
<1>3. 1 \in DOMAIN queue /\ \A i \in DOMAIN queue' : i + 1 \in DOMAIN queue /\ 1 < i + 1
  BY <1>2
<1>4. /\ Append(redis, h) \in Seq(Messages) /\ Len(redis) \in Nat
      /\ DOMAIN redis = 1 .. Len(redis)
      /\ DOMAIN Append(redis, h) = 1 .. Len(redis) + 1
      /\ \A i \in 1 .. Len(redis) : Append(redis, h)[i] = redis[i]
      /\ Append(redis, h)[Len(redis) + 1] = h
  BY <1>2, AppendProperties, LenProperties DEF LineInv, Types, Messages
<1> HIDE DEF h
<1>5. Types'
  BY <1>1, <1>2, <1>4 DEF LineInv, Types
<1>6. \A i \in DOMAIN redis' : \/ i \in DOMAIN redis /\ redis'[i] = redis[i]
                               \/ /\ i = Len(redis) + 1
                                  /\ redis' = Append(redis, h) /\ redis'[i] = h
  BY <1>1, <1>4
<1>7. AllGenuine'
  BY <1>1, <1>2, <1>3, <1>6 DEF LineInv, AllGenuine, Genuine
<1>8. ASSUME NEW i \in DOMAIN redis', NEW j \in DOMAIN redis', i < j
      PROVE  MayFollow(redis'[i], redis'[j])
  <2>1. i \in DOMAIN redis /\ redis'[i] = redis[i]
    BY <1>1, <1>4, <1>6, <1>8
  <2>2. CASE j \in DOMAIN redis
    <3>1. redis'[j] = redis[j]
      BY <1>4, <1>6, <2>2
    <3> QED
      BY <1>8, <2>1, <2>2, <3>1 DEF LineInv, InLine
  <2>3. CASE j \notin DOMAIN redis
    BY <1>2, <1>3, <1>6, <2>1, <2>3 DEF LineInv, InLine
  <2> QED
    BY <2>2, <2>3
<1>9. ASSUME NEW i \in DOMAIN redis', NEW j \in DOMAIN queue'
      PROVE  MayFollow(redis'[i], queue'[j])
  BY <1>2, <1>3, <1>6, <1>9 DEF LineInv, InLine
<1>10. ASSUME NEW i \in DOMAIN redis', NEW t \in tasks
       PROVE  MayFollow(redis'[i], t)
  BY <1>2, <1>3, <1>6, <1>10 DEF LineInv, InLine
<1>11. ASSUME NEW i \in DOMAIN queue', NEW j \in DOMAIN queue', i < j
       PROVE  MayFollow(queue'[i], queue'[j])
  BY <1>2, <1>3, <1>11 DEF LineInv, InLine
<1>12. ASSUME NEW i \in DOMAIN queue', NEW t \in tasks
       PROVE  MayFollow(queue'[i], t)
  BY <1>2, <1>3, <1>12 DEF LineInv, InLine
<1>13. InLine'
  BY <1>1, <1>8, <1>9, <1>10, <1>11, <1>12 DEF LineInv, InLine, MayFollow
<1> QED
  BY <1>5, <1>7, <1>13 DEF LineInv

\* Another program publishes.
LEMMA OtherLine ==
    ASSUME LineInv, NEW ch \in Channels, PublishOther(ch)
    PROVE  LineInv'
<1> DEFINE m == Other(ch)
<1>1. /\ tasks' = tasks /\ applied' = applied /\ feed' = feed /\ queue' = queue
      /\ redis' = Append(redis, m)
  BY DEF PublishOther, bookVars
<1>2. m \in Messages /\ m.n = 0
  BY DEF Other, Messages
<1> HIDE DEF m
<1>3. /\ redis' \in Seq(Messages) /\ Len(redis) \in Nat
      /\ DOMAIN redis = 1 .. Len(redis) /\ DOMAIN redis' = 1 .. Len(redis) + 1
      /\ \A i \in 1 .. Len(redis) : redis'[i] = redis[i]
      /\ redis'[Len(redis) + 1] = m
  BY <1>1, <1>2, AppendProperties, LenProperties DEF LineInv, Types
<1>4. \A i \in DOMAIN redis' : \/ i \in DOMAIN redis /\ redis'[i] = redis[i]
                               \/ i = Len(redis) + 1 /\ redis'[i] = m
  BY <1>3
<1>5. Types' /\ AllGenuine'
  BY <1>1, <1>2, <1>3, <1>4 DEF LineInv, Types, AllGenuine, Genuine
<1>6. InLine'
  <2>1. ASSUME NEW i \in DOMAIN redis', NEW j \in DOMAIN redis', i < j
        PROVE  MayFollow(redis'[i], redis'[j])
    BY <1>2, <1>3, <1>4, <2>1 DEF LineInv, InLine, MayFollow
  <2>2. ASSUME NEW i \in DOMAIN redis', NEW t, \A k \in DOMAIN redis : MayFollow(redis[k], t)
        PROVE  MayFollow(redis'[i], t)
    BY <1>2, <1>4, <2>2 DEF MayFollow
  <2> QED
    BY <1>1, <2>1, <2>2 DEF LineInv, InLine, MayFollow
<1> QED
  BY <1>5, <1>6 DEF LineInv

\* Every step of the matcher keeps the line.
LEMMA LineStep == LineInv /\ [SharedNext]_matcherVars => LineInv'
<1> SUFFICES ASSUME LineInv, [SharedNext]_matcherVars PROVE LineInv'
  OBVIOUS
<1>1. CASE Connect \/ Disconnect \/ BreakRedis \/ UNCHANGED matcherVars
  BY <1>1 DEF Connect, Disconnect, BreakRedis, matcherVars, bookVars, LineInv,
              Types, AllGenuine, Genuine, InLine
<1>2. CASE Missed
  <2>1. feed' \in Seq(Updates)
    BY <1>2, HeadTailProperties DEF Missed, LineInv, Types
  <2> QED
    BY <1>2, <2>1 DEF Missed, bookVars, LineInv, Types, AllGenuine, Genuine, InLine
<1>3. CASE on_book
  BY <1>3, ApplyLine
<1>4. CASE publish_top
  BY <1>4, LockLine, PublishLine DEF publish_top, lock
<1>5. ASSUME NEW ch \in Channels, PublishOther(ch) PROVE LineInv'
  BY <1>5, OtherLine
<1> QED
  BY <1>1, <1>2, <1>3, <1>4, <1>5 DEF Next, SharedNext

(* Tops overtake one another only on their way to the lock of the connection,
   whatever the number of tasks that are spawned. *)
THEOREM OvertakingIsBounded == Spec => []OvertakesOnlyBeforeTheLock
<1>1. LineInv => OvertakesOnlyBeforeTheLock
  <2>1. ASSUME LineInv PROVE \A i \in DOMAIN redis : redis[i].n \in Nat
    BY <2>1, ElementOfSeq DEF LineInv, Types, Messages, Tops
  <2> QED
    BY <2>1 DEF LineInv, InLine, MayFollow, OvertakesOnlyBeforeTheLock
<1> QED
  BY LineInit, LineStep, <1>1, PTL DEF Spec
-----------------------------------------------------------------------------
(* The best level of a side.                                                *)

\* Of finitely many levels one has no other below it, by any measure of them.
LEMMA LowestExists ==
    ASSUME NEW T, IsFiniteSet(T), T # {}, NEW f \in [T -> Int]
    PROVE  \E t \in T : \A k \in T : f[t] <= f[k]
<1> DEFINE Below(t) == {k \in T : f[k] < f[t]}
           B == {Below(t) : t \in T}
<1>1. B \subseteq FiniteSubsetsOf(T) /\ B # {}
  <2>1. ASSUME NEW t \in T PROVE Below(t) \subseteq T /\ IsFiniteSet(Below(t))
    <3>1. Below(t) \subseteq T
      OBVIOUS
    <3> HIDE DEF Below
    <3> QED
      BY <3>1, FS_Subset
  <2> HIDE DEF Below
  <2>2. \A t \in T : Below(t) \in FiniteSubsetsOf(T)
    BY <2>1 DEF FiniteSubsetsOf
  <2> QED
    BY <2>2
<1>2. PICK t \in T : \A k \in T : ~ (<<Below(k), Below(t)>> \in StrictSubsetOrdering(T))
  <2>1. \E x \in B : \A y \in B : ~ (<<y, x>> \in StrictSubsetOrdering(T))
    BY <1>1, FS_StrictSubsetOrderingWellFounded, WFMin
  <2> QED
    BY <2>1
<1>3. ASSUME NEW k \in T, f[k] < f[t] PROVE FALSE
  <2>1. Below(k) \subseteq Below(t) /\ k \in Below(t) /\ k \notin Below(k)
    BY <1>3
  <2>2. Below(k) \subseteq T /\ Below(t) \subseteq T
    OBVIOUS
  <2> HIDE DEF Below
  <2> QED
    BY <1>2, <2>1, <2>2 DEF StrictSubsetOrdering
<1> QED
  BY <1>3

\* top, book.rs, of a book with two sides: the best of the levels it was sent.
LEMMA TopIsBest ==
    ASSUME MatcherAssumption, IsFiniteSet(Levels), NEW ev \in Updates, HasTop(Fresh(ev))
    PROVE  /\ Best(top(Fresh(ev)).bid, ev.bids, LAMBDA x, y : x > y)
           /\ Best(top(Fresh(ev)).ask, ev.asks, LAMBDA x, y : x < y)
<1> DEFINE bids == {l \in ev.bids : l.qty > 0}
           asks == {l \in ev.asks : l.qty > 0}
<1>1. /\ bids \subseteq Levels /\ asks \subseteq Levels
      /\ bids # {} /\ asks # {}
      /\ \A l \in Levels : l.px \in Nat
  BY DEF Updates, HasTop, Fresh, apply, MatcherAssumption
<1>2. IsFiniteSet(bids) /\ IsFiniteSet(asks)
  BY <1>1, FS_Subset
<1>3. \E l \in bids : \A k \in bids : k.px <= l.px
  <2>1. [l \in bids |-> -l.px] \in [bids -> Int]
    BY <1>1
  <2>2. PICK l \in bids : \A k \in bids : [j \in bids |-> -j.px][l] <= [j \in bids |-> -j.px][k]
    <3> HIDE DEF bids
    <3> QED
      BY <1>1, <1>2, <2>1, LowestExists
  <2>3. \A k \in bids : k.px <= l.px
    <3> HIDE DEF bids
    <3> QED
      BY <1>1, <2>2
  <2> QED
    BY <2>3
<1>4. \E l \in asks : \A k \in asks : l.px <= k.px
  <2>1. [l \in asks |-> l.px] \in [asks -> Int]
    BY <1>1
  <2>2. PICK l \in asks : \A k \in asks : [j \in asks |-> j.px][l] <= [j \in asks |-> j.px][k]
    <3> HIDE DEF asks
    <3> QED
      BY <1>1, <1>2, <2>1, LowestExists
  <2>3. \A k \in asks : l.px <= k.px
    <3> HIDE DEF asks
    <3> QED
      BY <1>1, <2>2
  <2> QED
    BY <2>3
<1>5. /\ top(Fresh(ev)).bid = CHOOSE l \in bids : \A k \in bids : k.px <= l.px
      /\ top(Fresh(ev)).ask = CHOOSE l \in asks : \A k \in asks : l.px <= k.px
  BY DEF top, Fresh, apply
<1>6. /\ top(Fresh(ev)).bid \in bids
      /\ \A k \in bids : k.px <= top(Fresh(ev)).bid.px
  <2> HIDE DEF bids, asks
  <2> QED
    BY <1>3, <1>5
<1>7. /\ top(Fresh(ev)).ask \in asks
      /\ \A k \in asks : top(Fresh(ev)).ask.px <= k.px
  <2> HIDE DEF bids, asks
  <2> QED
    BY <1>4, <1>5
<1> QED
  BY <1>1, <1>6, <1>7 DEF Best

(* What is published are the best bid and the best ask of one snapshot, once,
   whatever prices and quantities a snapshot names. *)
THEOREM TopsAreGenuine ==
    ASSUME MatcherAssumption, IsFiniteSet(Levels)
    PROVE  Spec => []TopsAreOfOneSnapshot
<1>1. ASSUME LineInv PROVE TopsAreOfOneSnapshot
  <2> SUFFICES ASSUME NEW i \in DOMAIN redis, redis[i].n # 0
               PROVE  LET ev == applied[redis[i].n]
                      IN  /\ redis[i].symbol = ev.symbol
                          /\ Best(redis[i].top.bid, ev.bids, LAMBDA x, y : x > y)
                          /\ Best(redis[i].top.ask, ev.asks, LAMBDA x, y : x < y)
                          /\ \A j \in DOMAIN redis : redis[j].n = redis[i].n => j = i
    BY DEF TopsAreOfOneSnapshot
  <2>1. Genuine(redis[i]) /\ applied[redis[i].n] \in Updates
    BY <1>1, ElementOfSeq DEF LineInv, AllGenuine, Genuine, Types
  <2>2. ASSUME NEW j \in DOMAIN redis, redis[j].n = redis[i].n PROVE j = i
    <3>1. i \in Nat /\ j \in Nat
      BY <1>1 DEF LineInv, Types
    <3> QED
      BY <1>1, <2>2, <3>1 DEF LineInv, InLine, MayFollow
  <2> QED
    BY <2>1, <2>2, TopIsBest DEF Genuine
<1> QED
  BY LineInit, LineStep, <1>1, PTL DEF Spec

-----------------------------------------------------------------------------
(* The rate at which tops are handed to tasks.                              *)

\* What is left by a division.
LEMMA ModBasics ==
    ASSUME NEW a \in Nat, NEW d \in Nat \ {0}
    PROVE  a % d \in 0 .. d - 1 /\ a % d <= a
<1>1. a % d \in 0 .. d - 1
  OBVIOUS
<1>2. a \div d \in Nat /\ a = d * (a \div d) + (a % d)
  OBVIOUS
<1>3. d * (a \div d) >= 0
  BY <1>2
<1> QED
  BY <1>1, <1>2, <1>3

\* The remainder of the next number is 0 or one more.
LEMMA ModNext ==
    ASSUME NEW a \in Nat, NEW d \in Nat \ {0}
    PROVE  (a + 1) % d = 0 \/ (a + 1) % d = (a % d) + 1
<1> DEFINE q == a \div d
           r == a % d
           p == (a + 1) \div d
           s == (a + 1) % d
<1>1. /\ q \in Nat /\ r \in 0 .. d - 1 /\ a = d * q + r
      /\ p \in Nat /\ s \in 0 .. d - 1 /\ a + 1 = d * p + s
  OBVIOUS
<1> HIDE DEF q, r, p, s
<1>2. d * p - d * q = d * (p - q)
  BY <1>1
<1>3. CASE p = q
  BY <1>1, <1>3 DEF r, s
<1>4. CASE p >= q + 1
  <2>1. d * (p - q) >= d
    BY <1>1, <1>4
  <2> QED
    BY <1>1, <1>2, <2>1 DEF s
<1>5. CASE p < q
  <2>1. d * (q - p) >= d /\ d * q - d * p = d * (q - p)
    BY <1>1, <1>5
  <2> QED
    BY <1>1, <2>1
<1> QED
  BY <1>1, <1>3, <1>4, <1>5

\* The counter goes up by one, or starts again.
LEMMA ModWrap ==
    ASSUME NEW w \in Nat \ {0}, NEW t \in 0 .. w - 1
    PROVE (t + 1) % w = IF t + 1 = w THEN 0 ELSE t + 1
<1>1. CASE t + 1 < w
  BY <1>1
<1>2. CASE t + 1 = w
  BY <1>2
<1> QED
  BY <1>1, <1>2

\* Nothing leaves nothing.
LEMMA ZeroMod == ASSUME NEW d \in Nat \ {0} PROVE 0 % d = 0
OBVIOUS

\* Update n has been handed to a task, or there was nothing to hand on.
Shown(n) == n \in Handed \/ ~HasTop(Fresh(applied[n]))

\* tick leads back to the last update that was due.  The update at which the
\* counter wraps around to 0 is due, so no window before it grows.
LastIsShown ==
    /\ every \in Nat \ {0}
    /\ tick \in 0 .. Wrap - 1
    /\ tick <= Len(applied)
    /\ conn # "none" =>
          \A n \in 1 .. Len(applied) : n = Len(applied) - (tick % every) => Shown(n)

RateInv == LineInv /\ LastIsShown /\ ThrottleKeepsUp

\* At the start nothing was counted.
LEMMA RateInit == MatcherAssumption /\ Init => RateInv
<1> SUFFICES ASSUME MatcherAssumption, Init PROVE RateInv
  OBVIOUS
<1>1. every \in Nat \ {0}
  BY DEF Init, MatcherAssumption, AtLeastOne
<1>2. applied = <<>> /\ Len(applied) = 0 /\ tick = 0 /\ Wrap \in Nat \ {0}
  BY EmptySeq DEF Init, MatcherAssumption
<1>3. LastIsShown
  BY <1>1, <1>2 DEF LastIsShown
<1>4. ThrottleKeepsUp
  BY <1>1, <1>2 DEF ThrottleKeepsUp
<1> QED
  BY <1>3, <1>4, LineInit DEF RateInv

\* What has been handed on stays handed on, at the lock, in Redis or lost.
LEMMA HandedStays ==
    ASSUME LineInv, [SharedNext]_matcherVars
    PROVE  Handed \subseteq Handed'
<1>1. CASE Connect \/ Disconnect \/ Missed \/ BreakRedis \/ UNCHANGED matcherVars
  BY <1>1 DEF Connect, Disconnect, Missed, BreakRedis, matcherVars, bookVars, Handed
<1>2. CASE on_book
  BY <1>2 DEF on_book, Handed
<1>3. ASSUME NEW t \in tasks, lock(t) PROVE Handed \subseteq Handed'
  <2>1. /\ tasks' = tasks \ {t} /\ queue' = Append(queue, t)
        /\ lost' = lost /\ redis' = redis
    BY <1>3 DEF lock
  <2>2. queue \in Seq(Tops) /\ t \in Tops
    BY DEF LineInv, Types
  <2>3. ToSet(queue') = ToSet(queue) \cup {t}
    BY <2>1, <2>2, AppendProperties DEF ToSet
  <2> QED
    BY <2>1, <2>3 DEF Handed
<1>4. CASE publish
  <2>1. /\ queue # <<>> /\ queue' = Tail(queue) /\ tasks' = tasks
        /\ \/ redis' = Append(redis, Head(queue)) /\ lost' = lost
           \/ redis' = redis /\ lost' = lost \cup {Head(queue).n}
    BY <1>4 DEF publish
  <2>2. queue \in Seq(Tops) /\ redis \in Seq(Messages) /\ Tops \subseteq Messages
    BY DEF LineInv, Types, Messages
  <2>3. /\ Len(queue) \in Nat /\ Len(queue) # 0 /\ Head(queue) = queue[1]
        /\ Len(queue') = Len(queue) - 1
        /\ \A i \in 1 .. Len(queue) - 1 : queue'[i] = queue[i + 1]
        /\ DOMAIN queue = 1 .. Len(queue) /\ DOMAIN queue' = 1 .. Len(queue')
    BY <2>1, <2>2, HeadTailProperties, EmptySeq, LenProperties
  <2>4. ASSUME NEW u \in ToSet(queue), u # Head(queue) PROVE u \in ToSet(queue')
    <3>1. PICK i \in 1 .. Len(queue) : u = queue[i]
      BY <2>3, <2>4 DEF ToSet
    <3>2. i # 1 /\ i - 1 \in 1 .. Len(queue) - 1 /\ queue'[i - 1] = queue[i]
      BY <2>3, <2>4, <3>1
    <3> QED
      BY <2>3, <3>1, <3>2 DEF ToSet
  <2>5. {redis[i].n : i \in DOMAIN redis} \subseteq {redis'[i].n : i \in DOMAIN redis'}
    <3>1. Head(queue) \in Tops
      BY <2>1, <2>2, HeadTailProperties
    <3>2. CASE redis' = Append(redis, Head(queue))
      <4>1. \A i \in DOMAIN redis : i \in DOMAIN redis' /\ redis'[i] = redis[i]
        BY <2>2, <3>1, <3>2, AppendProperties, LenProperties
      <4> QED
        BY <4>1
    <3> QED
      BY <2>1, <3>2
  <2>6. Head(queue).n \in Handed'
    <3>1. CASE redis' = Append(redis, Head(queue))
      <4>1. Head(queue) \in Tops
        BY <2>1, <2>2, HeadTailProperties
      <4>2. Len(redis) + 1 \in DOMAIN redis' /\ redis'[Len(redis) + 1] = Head(queue)
        BY <2>2, <3>1, <4>1, AppendProperties, LenProperties
      <4> QED
        BY <4>2 DEF Handed
    <3> QED
      BY <2>1, <3>1 DEF Handed
  <2> QED
    BY <2>1, <2>4, <2>5, <2>6 DEF Handed
<1>5. ASSUME NEW ch \in Channels, PublishOther(ch) PROVE Handed \subseteq Handed'
  <2>1. /\ redis' = Append(redis, Other(ch)) /\ Other(ch) \in Messages
        /\ redis \in Seq(Messages)
        /\ tasks' = tasks /\ queue' = queue /\ lost' = lost
    BY <1>5 DEF PublishOther, Other, Messages, LineInv, Types
  <2>2. \A i \in DOMAIN redis : i \in DOMAIN redis' /\ redis'[i] = redis[i]
    BY <2>1, AppendProperties, LenProperties
  <2> QED
    BY <2>1, <2>2 DEF Handed
<1> QED
  BY <1>1, <1>2, <1>3, <1>4, <1>5 DEF Next, SharedNext, publish_top

\* What the update of on_book adds: it is due, or one further from the last.
LEMMA OnBookShows ==
    ASSUME MatcherAssumption, RateInv, on_book
    PROVE  LastIsShown'
<1> DEFINE ev == Head(feed)
           n  == Len(applied) + 1
<1>1. /\ applied \in Seq(Updates) /\ ev \in Updates
      /\ Wrap \in Nat \ {0} /\ every \in Nat \ {0}
      /\ tick \in 0 .. Wrap - 1 /\ tick <= Len(applied) /\ Len(applied) \in Nat
  BY HeadTailProperties, LenProperties
     DEF RateInv, LineInv, Types, LastIsShown, on_book, MatcherAssumption
<1>2. /\ applied' = Append(applied, ev) /\ tick' = Count
      /\ every' = every /\ conn' = conn
      /\ tick' % every = 0 /\ HasTop(Fresh(ev)) /\ conn # "none" =>
            \E t \in tasks' : t.n = Len(applied')
  <2>1. /\ applied' = Append(applied, ev) /\ tick' = Count
        /\ every' = every /\ conn' = conn
    BY DEF on_book
  <2>2. ASSUME tick' % every = 0, HasTop(Fresh(ev)), conn # "none"
        PROVE  \E t \in tasks' : t.n = Len(applied')
    <3> DEFINE t == [symbol |-> ev.symbol, top |-> top(Fresh(ev)),
                     n |-> Len(applied'), behind |-> {u.n : u \in tasks}]
    <3>1. apply(books[ev.symbol], ev) = Fresh(ev)
      BY FreshBook
    <3>2. tasks' = tasks \cup {t}
      BY <2>2, <3>1 DEF on_book
    <3>3. t \in tasks' /\ t.n = Len(applied')
      BY <3>2
    <3> HIDE DEF t
    <3> QED
      BY <3>3
  <2> QED
    BY <2>1, <2>2
<1>3. /\ Len(applied') = n /\ applied'[n] = ev
      /\ \A m \in 1 .. Len(applied) : applied'[m] = applied[m]
  BY <1>1, <1>2, AppendProperties
<1>4. tick' = IF tick + 1 = Wrap THEN 0 ELSE tick + 1
  BY <1>1, <1>2, ModWrap DEF Count
<1>5. tick' \in 0 .. Wrap - 1 /\ tick' <= Len(applied')
  BY <1>1, <1>3, <1>4
<1>6. tick' % every = 0 \/ tick' % every = (tick % every) + 1
  <2>1. CASE tick + 1 = Wrap
    BY <1>1, <1>4, <2>1, ZeroMod
  <2>2. CASE tick + 1 # Wrap
    <3>1. tick \in Nat /\ tick' = tick + 1
      BY <1>1, <1>4, <2>2
    <3> QED
      BY <1>1, <3>1, ModNext
  <2> QED
    BY <2>1, <2>2
<1>7. Handed \subseteq Handed'
  BY HandedStays DEF Next, SharedNext, RateInv
<1>8. ASSUME conn # "none", NEW m \in 1 .. n, m = n - (tick' % every)
      PROVE  Shown(m)'
  <2>1. CASE tick' % every = 0
    <3>1. m = n
      BY <1>1, <1>8, <2>1
    <3>2. HasTop(Fresh(ev)) => n \in Handed'
      BY <1>2, <1>3, <1>8, <2>1 DEF Handed
    <3> QED
      BY <1>3, <3>1, <3>2 DEF Shown
  <2>2. CASE tick' % every # 0
    <3>1. m = Len(applied) - (tick % every) /\ m \in 1 .. Len(applied)
      BY <1>1, <1>6, <1>8, <2>2, ModBasics
    <3>2. Shown(m)
      BY <1>8, <3>1 DEF RateInv, LastIsShown
    <3> QED
      BY <1>3, <1>7, <3>1, <3>2 DEF Shown
  <2> QED
    BY <2>1, <2>2
<1> QED
  BY <1>1, <1>2, <1>3, <1>5, <1>8 DEF LastIsShown

\* The window that ends with the newest update holds the last that was due.
LEMMA WindowsAreServed ==
    ASSUME MatcherAssumption, RateInv, [SharedNext]_matcherVars, LastIsShown'
    PROVE  ThrottleKeepsUp'
<1>1. /\ applied \in Seq(Updates) /\ applied' \in Seq(Updates)
      /\ every' = every /\ every \in Nat \ {0}
      /\ conn' # "none" => conn # "none"
      /\ \/ applied' = applied
         \/ applied' = Append(applied, Head(feed)) /\ Head(feed) \in Updates
  <2>1. LineInv /\ LineInv' /\ LastIsShown
    BY LineStep DEF RateInv
  <2>2. /\ every' = every /\ (conn' # "none" => conn # "none")
        /\ (applied' = applied \/ (applied' = Append(applied, Head(feed)) /\ feed # <<>>))
    BY DEF SharedNext, Next, Connect, Disconnect, Missed, on_book, publish_top, lock,
           publish, BreakRedis, PublishOther, matcherVars, bookVars
  <2> QED
    BY <2>1, <2>2, HeadTailProperties DEF LineInv, Types, LastIsShown
<1>2. Handed \subseteq Handed'
  BY HandedStays DEF RateInv
<1>3. /\ Len(applied) \in Nat /\ Len(applied') \in {Len(applied), Len(applied) + 1}
      /\ \A m \in 1 .. Len(applied) : applied'[m] = applied[m]
  BY <1>1, AppendProperties, LenProperties
<1>4. ASSUME NEW m \in 1 .. Len(applied), Shown(m) PROVE Shown(m)'
  BY <1>2, <1>3, <1>4 DEF Shown
<1>5. ASSUME conn' # "none", NEW k \in 0 .. Len(applied') - every
      PROVE  \E m \in k + 1 .. k + every : Shown(m)'
  <2>1. CASE k + every <= Len(applied)
    <3>1. PICK m \in k + 1 .. k + every : Shown(m)
      <4>1. conn # "none" /\ k \in 0 .. Len(applied) - every
        BY <1>1, <1>3, <1>5, <2>1
      <4> QED
        BY <4>1 DEF RateInv, ThrottleKeepsUp, Shown, Fresh
    <3>2. m \in 1 .. Len(applied)
      BY <1>1, <1>3, <1>5, <2>1
    <3> QED
      BY <1>4, <3>1, <3>2
  <2>2. CASE k + every > Len(applied)
    <3>1. k + every = Len(applied')
      BY <1>1, <1>3, <1>5, <2>2
    <3>2. tick' % every \in 0 .. every - 1
      <4>1. tick' \in Nat
        BY DEF LastIsShown, MatcherAssumption
      <4> QED
        BY <1>1, <4>1, ModBasics
    <3>3. PICK m \in k + 1 .. k + every : m = Len(applied') - (tick' % every)
      BY <1>1, <1>3, <1>5, <3>1, <3>2
    <3>4. m \in 1 .. Len(applied')
      BY <1>1, <1>3, <1>5, <3>1
    <3>5. Shown(m)'
      BY <1>1, <1>5, <3>3, <3>4 DEF LastIsShown
    <3> QED
      BY <3>5
  <2> QED
    BY <1>1, <1>3, <1>5, <2>1, <2>2
<1> QED
  BY <1>1, <1>5 DEF ThrottleKeepsUp, Shown, Fresh

\* Every step of the matcher keeps the rate.
LEMMA RateStep == MatcherAssumption /\ RateInv /\ [SharedNext]_matcherVars => RateInv'
<1> SUFFICES ASSUME MatcherAssumption, RateInv, [SharedNext]_matcherVars PROVE RateInv'
  OBVIOUS
<1>1. LineInv'
  BY LineStep DEF RateInv
<1>2. LastIsShown'
  <2>1. CASE on_book
    BY <2>1, OnBookShows
  <2>2. CASE ~on_book
    <3>1. /\ every' = every /\ tick' = tick /\ applied' = applied
          /\ (conn' # "none" => conn # "none")
      BY <2>2 DEF SharedNext, Next, Connect, Disconnect, Missed, publish_top, lock,
                  publish, BreakRedis, PublishOther, matcherVars, bookVars
    <3>2. Handed \subseteq Handed'
      BY HandedStays DEF RateInv
    <3>3. LastIsShown
      BY DEF RateInv
    <3> QED
      BY <3>1, <3>2, <3>3 DEF LastIsShown, Shown
  <2> QED
    BY <2>1, <2>2
<1> QED
  BY <1>1, <1>2, WindowsAreServed DEF RateInv

(* Of any N updates in a row one is handed on, for every N and every width of
   the counter, also one that N does not divide. *)
THEOREM ThrottleKeepsItsRate ==
    ASSUME MatcherAssumption
    PROVE  Spec => []ThrottleKeepsUp
<1>1. RateInv => ThrottleKeepsUp
  BY DEF RateInv
<1> QED
  BY RateInit, RateStep, <1>1, PTL DEF Spec
=============================================================================
