----------------------------- MODULE BookStream -----------------------------
(***************************************************************************)
(* Tops of book on their way to the browsers: orderbook-matcher publishes  *)
(* them to Redis among the messages of other programs, and lqc-gateway     *)
(* takes them from there, one by one, to its hub.                          *)
(***************************************************************************)
EXTENDS GatewayHub

CONSTANTS Symbols, Levels, Wrap, Everys, Faults,
    Buffer      \* messages that pubsub.Channel() holds (100)

VARIABLES feed, link, books, tick, every, tasks, queue, conn, redis, applied,
          lost

VARIABLES
    subscribed, \* Redis has the PSUBSCRIBE of a connection of the gateway
    wire,       \* messages on their way to the gateway: their places in redis
    missed,     \* history: messages that never came to the gateway
    taken       \* history: the place in redis of each message of log

matcher == INSTANCE OrderbookMatcher

ASSUME StreamAssumption ==
    /\ Symbols \subseteq Channels
    /\ Buffer \in Nat
    /\ matcher!MatcherAssumption

matcherVars == <<feed, link, books, tick, every, tasks, queue, conn, redis,
                 applied, lost>>
pubsubVars  == <<subscribed, wire, missed, taken>>
streamVars  == <<vars, matcherVars, pubsubVars>>

\* A message is in one place, and messages come in the order of Redis.
StreamTypeOK ==
    /\ subscribed \in BOOLEAN
    /\ wire \cup missed \subseteq DOMAIN redis
    /\ taken \in Seq(DOMAIN redis)

StreamInit ==
    /\ Init
    /\ matcher!Init
    /\ subscribed = FALSE
    /\ wire = {}
    /\ missed = {}
    /\ taken = <<>>

-----------------------------------------------------------------------------
(* Redis sends a message to those that are subscribed, once.                *)

Route ==
    LET new == DOMAIN redis' \ DOMAIN redis
    IN  /\ IF subscribed
           THEN wire' = wire \cup new /\ UNCHANGED missed
           ELSE missed' = missed \cup new /\ UNCHANGED wire
        /\ UNCHANGED <<subscribed, taken>>

\* There is room within MaxMsgs for what the matcher has still to send.
RoomForOthers ==
    Len(redis) + Len(feed) + Cardinality(tasks) + Len(queue) < MaxMsgs

FromOthers(ch) ==
    /\ RoomForOthers
    /\ matcher!PublishOther(ch)
    /\ Route
    /\ UNCHANGED vars

-----------------------------------------------------------------------------
(* The pub/sub connection of the gateway and the channel behind it.         *)

\* for msg := range pubsub.Channel(), in the order in which they were sent.
FromRedis ==
    /\ \E m \in wire :
          /\ \A k \in wire : m <= k
          /\ Receive(redis[m].symbol)
          /\ wire' = wire \ {m}
          /\ taken' = Append(taken, m)
    /\ UNCHANGED <<matcherVars, subscribed, missed>>

\* PSUBSCRIBE, the first or one after go-redis has connected again.
PSubscribe ==
    /\ ~subscribed
    /\ subscribed' = TRUE
    /\ UNCHANGED <<vars, matcherVars, wire, missed, taken>>

\* The connection fails with all that the gateway has not read from it.
BreakPubSub ==
    /\ subscribed
    /\ subscribed' = FALSE
    /\ \E unread \in SUBSET wire :
          /\ \A m \in unread, k \in wire \ unread : k < m
          /\ wire' = wire \ unread
          /\ missed' = missed \cup unread
    /\ UNCHANGED <<vars, matcherVars, taken>>

\* go-redis gives up the message that the full channel has not had room for.
Overflow ==
    /\ \E m \in wire :
          /\ Cardinality({k \in wire : k < m}) = Buffer
          /\ wire' = wire \ {m}
          /\ missed' = missed \cup {m}
    /\ UNCHANGED <<vars, matcherVars, subscribed, taken>>

-----------------------------------------------------------------------------

Hub == deliver \/ \E c \in Conns : sseBridge(c) \/ Disconnect(c)

StreamNext ==
    /\ ~panicked
    /\ \/ \E ch \in Channels : FromOthers(ch)
       \/ FromRedis
       \/ PSubscribe
       \/ BreakPubSub
       \/ Overflow
       \/ Hub /\ UNCHANGED <<matcherVars, pubsubVars>>
       \/ matcher!Next /\ Route /\ UNCHANGED vars

StreamSpec == StreamInit /\ [][StreamNext]_streamVars

\* Of the gateway what GatewayHub!FairSpec says; the tasks of the matcher run,
\* Redis answers until it is silent, and what has come is taken.
StreamFairness ==
    /\ WF_streamVars(deliver /\ UNCHANGED <<matcherVars, pubsubVars>>)
    /\ \A c \in Conns :
          /\ WF_streamVars(/\ c \in done /\ (Greet(c) \/ Write(c))
                           /\ UNCHANGED <<matcherVars, pubsubVars>>)
          /\ SF_streamVars(/\ Done(c) \/ detach(c)
                           /\ UNCHANGED <<matcherVars, pubsubVars>>)
    /\ WF_streamVars(matcher!publish_top /\ Route /\ UNCHANGED vars)
    /\ WF_streamVars(FromRedis)

-----------------------------------------------------------------------------

TopsAreOfOneSnapshot == matcher!TopsAreOfOneSnapshot
OvertakesOnlyBeforeTheLock == matcher!OvertakesOnlyBeforeTheLock
ThrottleKeepsUp == matcher!ThrottleKeepsUp

(* A top that the matcher has handed on comes to the browsers: the hub offers
   it, with whatever else is published, to all that are connected to its channel
   by then, unless the matcher's connection has failed or is silent, or the
   gateway's own was not there or failed on the way. *)
TopsReachBrowsers ==
    \A n \in 1 .. MaxMsgs - 1 :
        (\E t \in tasks : t.n = n)
            ~> \/ conn \in {"broken", "silent"}
               \/ \E m \in DOMAIN redis :
                     /\ redis[m].n = n
                     /\ \/ m \in missed
                        \/ \E k \in 1 .. Begun :
                              taken[k] = m /\ (k = Len(log) => todo = {})

(* From Redis to a browser: one that is connected gets what other programs and
   the matcher publish to its channel in the order in which Redis has taken it,
   and one message that it has not got was not sent to the gateway or lost with
   its connection (subscribe.go has no way to know), is on its way, was taken
   before the browser came, is being delivered - or met a full buffer. *)
MissesAreKnown ==
    \A c \in Conns : hpc[c] \in {"greet", "select", "write"} =>
        /\ \A i, j \in DOMAIN Got(c) : i < j => taken[Got(c)[i]] < taken[Got(c)[j]]
        /\ \A m \in DOMAIN redis : redis[m].symbol = topic[c] =>
              \/ m \in missed \cup wire
              \/ \E k \in DOMAIN log :
                    /\ taken[k] = m
                    /\ \/ k <= since[c]
                       \/ k > Begun \/ (k = Len(log) /\ c \in todo)
                       \/ k \in ToSet(Got(c))
                       \/ Cardinality({i \in ToSet(Got(c)) : i < k}) >= Cap
=============================================================================
