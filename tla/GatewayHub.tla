----------------------------- MODULE GatewayHub -----------------------------
(***************************************************************************)
(* The SSE bridge of lqc-gateway: one goroutine takes messages from Redis  *)
(* and fans them out, under the hub's read lock, to the buffered channels  *)
(* of the browsers that are connected; each request runs in a goroutine of *)
(* its own that attaches, streams and detaches under the write lock.       *)
(***************************************************************************)
EXTENDS Integers, Sequences, FiniteSets, SequencesExt

CONSTANTS
    Conns,     \* requests; a browser that comes again is another request
    Channels,  \* Redis channels
    Cap,       \* capacity of a connection's channel (64)
    MaxMsgs    \* bound: messages that Redis sends

ASSUME HubAssumption == Cap \in Nat \ {0} /\ MaxMsgs \in Nat

VARIABLES
    log,      \* history: the channel of each message; a message is its index
    gpc,      \* subscribe: "range", "rlock" before deliver, "deliver" in it
    todo,     \* deliver: subscribers the loop has not come to
    subs,     \* hub.subs: a channel name to its subscribers
    chan,     \* the buffer of each connection's channel
    closed,   \* connections whose channel is closed
    panicked, \* a send on a closed channel has ended the process
    hpc,      \* sseBridge, per request
    topic,    \* its channel
    since,    \* history: messages delivered before it was attached
    hand,     \* the payload it is writing, or none
    written,  \* history: the payloads it has written
    done      \* r.Context() is done: the browser has gone

subVars  == <<log, gpc, todo>>
hubVars  == <<subs, closed>>
connVars == <<hpc, topic, since, hand, written, done>>
vars     == <<subVars, hubVars, connVars, chan, panicked>>

Nobody == "no channel"
Subs(ch) == IF ch \in DOMAIN subs THEN subs[ch] ELSE {}

TypeOK ==
    /\ log \in Seq(Channels)
    /\ gpc \in {"range", "rlock", "deliver"}
    /\ todo \subseteq Conns
    /\ DOMAIN subs \subseteq Channels
    /\ \A ch \in DOMAIN subs : subs[ch] \subseteq Conns /\ subs[ch] # {}
    /\ \A c \in Conns : /\ Len(chan[c]) <= Cap
                        /\ Len(hand[c]) <= 1
                        /\ ToSet(chan[c] \o hand[c]) \subseteq DOMAIN log
    /\ closed \subseteq Conns
    /\ panicked \in BOOLEAN
    /\ hpc \in [Conns -> {"none", "greet", "select", "write", "return", "end"}]
    /\ topic \in [Conns -> Channels \cup {Nobody}]
    /\ done \subseteq Conns

\* A request that is never made is as good as one that has ended.
Init ==
    /\ log = <<>>
    /\ gpc = "range"
    /\ todo = {}
    /\ subs = [ch \in {} |-> {}]
    /\ chan = [c \in Conns |-> <<>>]
    /\ closed = {}
    /\ panicked = FALSE
    /\ hpc \in [Conns -> {"none", "end"}]
    /\ topic = [c \in Conns |-> Nobody]
    /\ since = [c \in Conns |-> 0]
    /\ hand = [c \in Conns |-> <<>>]
    /\ written = [c \in Conns |-> <<>>]
    /\ done = {}

-----------------------------------------------------------------------------
(* subscribe and deliver.                                                   *)

\* The next message of pubsub.Channel().
Receive(ch) ==
    /\ gpc = "range"
    /\ Len(log) < MaxMsgs
    /\ log' = Append(log, ch)
    /\ gpc' = "rlock"
    /\ UNCHANGED <<todo, hubVars, connVars, chan, panicked>>

\* f.mu.RLock(): the write lock is held only within attach and detach.
RLock ==
    /\ gpc = "rlock"
    /\ gpc' = "deliver"
    /\ todo' = Subs(Last(log))
    /\ UNCHANGED <<log, hubVars, connVars, chan, panicked>>

\* (mutant) one message too few.
RoomShort(c) == Len(chan[c]) + 1 < Cap
Room(c) == Len(chan[c]) < Cap

\* (mutant) a full channel is waited for.
SendOrWait(c) ==
    /\ gpc = "deliver"
    /\ c \in todo
    /\ Room(c)
    /\ chan' = [chan EXCEPT ![c] = Append(@, Len(log))]
    /\ todo' = todo \ {c}
    /\ panicked' = (c \in closed)
    /\ UNCHANGED <<log, gpc, hubVars, connVars>>

\* One round of deliver's loop: a full channel is passed over, a closed one
\* panics, full or not.
Send(c) ==
    /\ gpc = "deliver"
    /\ c \in todo
    /\ chan' = IF Room(c) /\ c \notin closed
               THEN [chan EXCEPT ![c] = Append(@, Len(log))] ELSE chan
    /\ todo' = todo \ {c}
    /\ panicked' = (c \in closed)
    /\ UNCHANGED <<log, gpc, hubVars, connVars>>

RUnlock ==
    /\ gpc = "deliver"
    /\ todo = {}
    /\ gpc' = "range"
    /\ UNCHANGED <<log, todo, hubVars, connVars, chan, panicked>>

-----------------------------------------------------------------------------
(* sseBridge.                                                               *)

\* f.mu.Lock(): not while deliver reads.
Unread == gpc # "deliver"

\* Messages whose delivery has begun.
Begun == IF gpc = "rlock" THEN Len(log) - 1 ELSE Len(log)

\* A request with a bad channel, or that cannot be streamed.
Refuse(c) ==
    /\ hpc[c] = "none"
    /\ hpc' = [hpc EXCEPT ![c] = "end"]
    /\ UNCHANGED <<subVars, hubVars, topic, since, hand, written, done, chan,
                   panicked>>

attach(c, ch) ==
    /\ hpc[c] = "none"
    /\ Unread
    /\ subs' = [x \in DOMAIN subs \cup {ch} |->
                   IF x = ch THEN Subs(ch) \cup {c} ELSE subs[x]]
    /\ hpc' = [hpc EXCEPT ![c] = "greet"]
    /\ topic' = [topic EXCEPT ![c] = ch]
    /\ since' = [since EXCEPT ![c] = Begun]
    /\ UNCHANGED <<subVars, closed, hand, written, done, chan, panicked>>

\* ": connected to ..." is written and flushed.
Greet(c) ==
    /\ hpc[c] = "greet"
    /\ hpc' = [hpc EXCEPT ![c] = "select"]
    /\ UNCHANGED <<subVars, hubVars, topic, since, hand, written, done, chan,
                   panicked>>

\* case payload := <-c.  Only the request itself closes its channel, when it
\* has returned, so alive is always true.
Take(c) ==
    /\ hpc[c] = "select"
    /\ chan[c] # <<>>
    /\ hpc' = [hpc EXCEPT ![c] = "write"]
    /\ hand' = [hand EXCEPT ![c] = <<Head(chan[c])>>]
    /\ chan' = [chan EXCEPT ![c] = Tail(@)]
    /\ UNCHANGED <<subVars, hubVars, topic, since, written, done, panicked>>

\* "data: ..." is written and flushed; an error is not looked at.
Write(c) ==
    /\ hpc[c] = "write"
    /\ hpc' = [hpc EXCEPT ![c] = "select"]
    /\ written' = [written EXCEPT ![c] = @ \o hand[c]]
    /\ hand' = [hand EXCEPT ![c] = <<>>]
    /\ UNCHANGED <<subVars, hubVars, topic, since, done, chan, panicked>>

\* case <-ctx.Done(); select chooses at random if there is a payload too.
Done(c) ==
    /\ hpc[c] = "select"
    /\ c \in done
    /\ hpc' = [hpc EXCEPT ![c] = "return"]
    /\ UNCHANGED <<subVars, hubVars, topic, since, hand, written, done, chan,
                   panicked>>

Without(c) ==
    LET set == Subs(topic[c]) \ {c}
        rest == IF set = {} THEN DOMAIN subs \ {topic[c]} ELSE DOMAIN subs
    IN  [x \in rest |-> IF x = topic[c] THEN set ELSE subs[x]]

\* (mutants) the channel is closed without the lock; the set keeps it.
detachUnlocked(c) ==
    /\ hpc[c] = "return"
    /\ subs' = Without(c)
    /\ closed' = closed \cup {c}
    /\ hpc' = [hpc EXCEPT ![c] = "end"]
    /\ UNCHANGED <<subVars, topic, since, hand, written, done, chan, panicked>>
detachForgets(c) ==
    /\ hpc[c] = "return"
    /\ Unread
    /\ closed' = closed \cup {c}
    /\ hpc' = [hpc EXCEPT ![c] = "end"]
    /\ UNCHANGED <<subVars, subs, topic, since, hand, written, done, chan,
                   panicked>>
detach(c) ==
    /\ hpc[c] = "return"
    /\ Unread
    /\ subs' = Without(c)
    /\ closed' = closed \cup {c}
    /\ hpc' = [hpc EXCEPT ![c] = "end"]
    /\ UNCHANGED <<subVars, topic, since, hand, written, done, chan, panicked>>

\* The browser goes away.
Disconnect(c) ==
    /\ hpc[c] \notin {"none", "end"}
    /\ c \notin done
    /\ done' = done \cup {c}
    /\ UNCHANGED <<subVars, hubVars, hpc, topic, since, hand, written, chan,
                   panicked>>

-----------------------------------------------------------------------------

deliver == \/ RLock
           \/ \E c \in Conns : Send(c)
           \/ RUnlock

sseBridge(c) == \/ Refuse(c)
                \/ \E ch \in Channels : attach(c, ch)
                \/ Greet(c)
                \/ Take(c)
                \/ Write(c)
                \/ Done(c)
                \/ detach(c)

Next ==
    /\ ~panicked
    /\ \/ \E ch \in Channels : Receive(ch)
       \/ deliver
       \/ \E c \in Conns : sseBridge(c) \/ Disconnect(c)

Spec == Init /\ [][Next]_vars

\* The scheduler runs deliver.  Nothing makes a browser read, so a write need
\* not return - but one to a browser that has gone does.  select is fair to a
\* context that is done, and the write lock to a writer that waits.
FairSpec ==
    /\ Spec
    /\ WF_vars(deliver)
    /\ \A c \in Conns : /\ WF_vars(c \in done /\ (Greet(c) \/ Write(c)))
                        /\ SF_vars(Done(c) \/ detach(c))

-----------------------------------------------------------------------------

(* detach closes the channel deliver sends to; the two locks are what keeps
   the process from the panic of a send on a closed channel. *)
NeverPanics == ~panicked

\* Messages of its channel that deliver has offered to a connection.
Offered(c) ==
    {m \in since[c] + 1 .. Begun :
        log[m] = topic[c] /\ ~(m = Len(log) /\ c \in todo)}

Got(c) == written[c] \o hand[c] \o chan[c]

(* "slow consumer - drop" (subscribe.go:50) and nothing else: a connection gets
   the messages of its channel from its attachment on, in order and once, and
   one that is missing was offered when Cap earlier ones were still waiting. *)
DropsOnlyForSlowConsumers ==
    \A c \in Conns : hpc[c] \in {"greet", "select", "write"} =>
        /\ \A i, j \in DOMAIN Got(c) : i < j => Got(c)[i] < Got(c)[j]
        /\ ToSet(Got(c)) \subseteq Offered(c)
        /\ \A m \in Offered(c) \ ToSet(Got(c)) :
              Cardinality({k \in ToSet(Got(c)) : k < m}) >= Cap

(* A browser that does not read delays nobody else: whatever the connections
   do, deliver comes to its end and the next message can be taken. *)
SlowConsumersDelayNobody == (gpc # "range") ~> (gpc = "range")

(* A browser that has gone is forgotten: its goroutine ends, the hub does not
   hold its channel any more. *)
LeaversAreForgotten ==
    \A c \in Conns :
        (c \in done) ~> /\ hpc[c] = "end"
                       /\ \A ch \in Channels : c \notin Subs(ch)
=============================================================================
