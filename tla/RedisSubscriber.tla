--------------------------- MODULE RedisSubscriber ---------------------------
(***************************************************************************)
(* dwh::RedisSubscriber: main() starts a worker thread that connects to    *)
(* Redis, subscribes its patterns one by one, hands every pmessage to the  *)
(* handler, reconnects when the connection is lost, and is joined by       *)
(* stop().  Redis publishes and forgets: a message goes into the stream of *)
(* a connection only if its pattern is subscribed at that moment.          *)
(***************************************************************************)
EXTENDS Integers, Sequences

CONSTANTS
    Binance, Kis, News,  \* messages matching each of the three patterns
    Ack,                 \* the reply to a PSUBSCRIBE
    None

Patterns == <<Binance, Kis, News>>
Messages == Binance \cup Kis \cup News

ASSUME SubscriberAssumption ==
    /\ Ack \notin Messages
    /\ None \notin Messages

VARIABLES
    main,        \* the thread that calls start() and stop()
    running,     \* running_
    wpc,         \* the worker in run_loop
    link,        \* the connection: "closed", "open" or "broken"
    subscribed,  \* number of patterns Redis has registered for it
    inbox,       \* replies on their way to the worker, oldest first
    cur,         \* message the handler is working on
    sent,        \* messages published so far, in order
    dispatched   \* messages handed to the handler, in order

redisVars == <<link, subscribed, inbox>>
vars == <<main, running, wpc, link, subscribed, inbox, cur, sent, dispatched>>

Elements(s) == {s[i] : i \in DOMAIN s}

WorkerPCs == {"none", "connect", "subscribe", "reply", "test", "blocked",
              "handle", "free", "exited"}

TypeOK ==
    /\ main \in {"idle", "running", "joining", "stopped"}
    /\ running \in BOOLEAN
    /\ wpc \in WorkerPCs
    /\ link \in {"closed", "open", "broken"}
    /\ subscribed \in 0 .. Len(Patterns)
    /\ inbox \in Seq(Messages \cup {Ack})
    /\ cur \in Messages \cup {None}
    /\ sent \in Seq(Messages)
    /\ dispatched \in Seq(Messages)

Init ==
    /\ main = "idle"
    /\ running = FALSE
    /\ wpc = "none"
    /\ link = "closed"
    /\ subscribed = 0
    /\ inbox = <<>>
    /\ cur = None
    /\ sent = <<>>
    /\ dispatched = <<>>

-----------------------------------------------------------------------------
(* The other side of the connection.                                        *)

Publish(m) ==
    /\ m \notin Elements(sent)
    /\ sent' = Append(sent, m)
    /\ LET matched == /\ link = "open"
                      /\ \E i \in 1 .. subscribed : m \in Patterns[i]
       IN  inbox' = IF matched THEN Append(inbox, m) ELSE inbox
    /\ UNCHANGED <<main, running, wpc, link, subscribed, cur, dispatched>>

\* What had not yet reached this host is lost.
BreakLink ==
    /\ link = "open"
    /\ link' = "broken"
    /\ \E k \in 0 .. Len(inbox) : inbox' = SubSeq(inbox, 1, k)
    /\ UNCHANGED <<main, running, wpc, subscribed, cur, sent, dispatched>>

-----------------------------------------------------------------------------
(* start() and stop().                                                      *)

start ==
    /\ main = "idle"
    /\ main' = "running"
    /\ running' = TRUE
    /\ wpc' = "connect"
    /\ UNCHANGED <<redisVars, cur, sent, dispatched>>

stop ==
    /\ main = "running"
    /\ main' = "joining"
    /\ running' = FALSE
    /\ UNCHANGED <<wpc, redisVars, cur, sent, dispatched>>

\* (mutant) stop() returns without joining the worker.
JoinedEarly ==
    /\ main = "joining"
    /\ main' = "stopped"
    /\ UNCHANGED <<running, wpc, redisVars, cur, sent, dispatched>>

Joined ==
    /\ main = "joining"
    /\ wpc = "exited"
    /\ main' = "stopped"
    /\ UNCHANGED <<running, wpc, redisVars, cur, sent, dispatched>>

-----------------------------------------------------------------------------
(* run_loop.                                                                *)

\* (mutant) the outer loop does not test running_.
ConnectAlways ==
    /\ wpc = "connect"
    /\ wpc' = "subscribe"
    /\ link' = "open"
    /\ subscribed' = 0
    /\ inbox' = <<>>
    /\ UNCHANGED <<main, running, cur, sent, dispatched>>

\* A failed connect sleeps two seconds and comes back here: a stuttering step.
Connect ==
    /\ wpc = "connect"
    /\ IF running
       THEN /\ wpc' = "subscribe"
            /\ link' = "open"
            /\ subscribed' = 0
            /\ inbox' = <<>>
       ELSE /\ wpc' = "exited"
            /\ UNCHANGED redisVars
    /\ UNCHANGED <<main, running, cur, sent, dispatched>>

\* redisCommand, first half: PSUBSCRIBE is sent and Redis registers the
\* pattern and answers.  On a broken link the command fails and so does every
\* later one.
PSubscribe ==
    /\ wpc = "subscribe"
    /\ IF link = "open"
       THEN /\ subscribed' = subscribed + 1
            /\ inbox' = Append(inbox, Ack)
            /\ wpc' = "reply"
            /\ UNCHANGED link
       ELSE /\ wpc' = "test"
            /\ UNCHANGED redisVars
    /\ UNCHANGED <<main, running, cur, sent, dispatched>>

\* The head of the loop over the patterns.
\* (mutant) one round too few.
MorePatternsShort == subscribed < Len(Patterns) - 1
MorePatterns == subscribed < Len(Patterns)

\* What a read leaves to be read.
\* (mutant) all that has arrived goes with the reply.
UnreadNone == <<>>
Unread == Tail(inbox)

\* redisCommand, second half: the next reply of the connection, whatever it
\* is, is taken for the answer and freed.
FreeReply ==
    /\ wpc = "reply"
    /\ \/ /\ inbox # <<>>
          /\ inbox' = Unread
       \/ /\ link = "broken"
          /\ inbox = <<>>
          /\ UNCHANGED inbox
    /\ wpc' = IF MorePatterns THEN "subscribe" ELSE "test"
    /\ UNCHANGED <<main, running, link, subscribed, cur, sent, dispatched>>

\* The head of the inner loop: running_ is tested, then redisGetReply blocks.
TestRunning ==
    /\ wpc = "test"
    /\ wpc' = IF running THEN "blocked" ELSE "free"
    /\ UNCHANGED <<main, running, redisVars, cur, sent, dispatched>>

\* Only a pmessage is handed on; a late subscription reply has three elements.
redisGetReply ==
    /\ wpc = "blocked"
    /\ \/ /\ inbox # <<>>
          /\ inbox' = Unread
          /\ IF Head(inbox) \in Messages
             THEN /\ cur' = Head(inbox)
                  /\ wpc' = "handle"
             ELSE /\ wpc' = "test"
                  /\ UNCHANGED cur
       \/ /\ link = "broken"
          /\ wpc' = "free"
          /\ UNCHANGED <<inbox, cur>>
    /\ UNCHANGED <<main, running, link, subscribed, sent, dispatched>>

\* (mutants) the handler returns early; it is run again when the link broke.
on_messageLost ==
    /\ wpc = "handle"
    /\ cur' = None
    /\ wpc' = "test"
    /\ UNCHANGED <<main, running, redisVars, sent, dispatched>>

on_messageAgain ==
    /\ wpc = "handle"
    /\ dispatched' = Append(dispatched, cur)
    /\ cur' = IF link = "broken" THEN cur ELSE None
    /\ wpc' = IF link = "broken" THEN "handle" ELSE "test"
    /\ UNCHANGED <<main, running, redisVars, sent>>

on_message ==
    /\ wpc = "handle"
    /\ dispatched' = Append(dispatched, cur)
    /\ cur' = None
    /\ wpc' = "test"
    /\ UNCHANGED <<main, running, redisVars, sent>>

redisFree ==
    /\ wpc = "free"
    /\ link' = "closed"
    /\ subscribed' = 0
    /\ inbox' = <<>>
    /\ wpc' = "connect"
    /\ UNCHANGED <<main, running, cur, sent, dispatched>>

Worker == \/ Connect
          \/ PSubscribe
          \/ FreeReply
          \/ TestRunning
          \/ redisGetReply
          \/ on_message
          \/ redisFree

\* stop() has returned: the process ends.
Done == main = "stopped" /\ UNCHANGED vars

Next ==
    \/ \E m \in Messages : Publish(m)
    \/ BreakLink
    \/ start
    \/ stop
    \/ Joined
    \/ Worker
    \/ Done

Spec == Init /\ [][Next]_vars

\* The scheduler keeps running both threads; that messages are published, that
\* the link breaks or that stop() is called is nobody's duty.
FairSpec == Spec /\ WF_vars(Worker) /\ WF_vars(Joined)

-----------------------------------------------------------------------------

(* Across any number of reconnections the handler sees messages in the order
   they were published and none twice. *)
Position(m) == CHOOSE i \in DOMAIN sent : sent[i] = m
DispatchedInOrder ==
    \A i, j \in DOMAIN dispatched :
        i < j => Position(dispatched[i]) < Position(dispatched[j])

(* After stop() has returned, no handler runs: main() may destroy the store
   the handler writes to (main.cpp:90-93, 116). *)
NoHandlerAfterStop ==
    [][main = "stopped" => dispatched' = dispatched /\ wpc' = wpc]_vars

(* "dispatches each (channel, payload) pair to a callback"
   (redis_subscriber.hpp:12-13): what Redis has streamed goes to the handler,
   unless the link breaks, the subscriber is stopped, or - the one loss the
   code makes itself - it is taken for the reply to the next PSUBSCRIBE. *)
LosesOnlyWhileSubscribing ==
    [][\A m \in Messages :
          /\ m \in Elements(inbox) \cup {cur}
          /\ running
          /\ link' = "open"
          /\ wpc # "reply"
          => m \in Elements(inbox') \cup {cur'} \cup Elements(dispatched')]_vars

(* A message waiting in the stream is handled, unless the link is lost, the
   subscriber is stopped, or the worker is still subscribing. *)
WaitingIsHandled ==
    \A m \in Messages :
        (m \in Elements(inbox) /\ wpc \in {"test", "blocked", "handle"})
            ~> (m \in Elements(dispatched) \/ link # "open" \/ ~running)

(* A worker that has to connect ends up in its read loop with all three
   patterns subscribed, unless it is stopped or the link is lost once more. *)
Resubscribes ==
    (wpc = "connect" /\ running)
        ~> ((wpc = "test" /\ subscribed = Len(Patterns)) \/ link = "broken" \/ ~running)

(* stop() returns - or the worker sits in redisGetReply on a silent
   connection, where nothing wakes it. *)
StopReturns ==
    (main = "joining")
        ~> (main = "stopped" \/ (wpc = "blocked" /\ link = "open" /\ inbox = <<>>))
=============================================================================
