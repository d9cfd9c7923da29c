----------------------------- MODULE FeedClient -----------------------------
(***************************************************************************)
(* An exchange feed as both adapters write it (stock::KisClient and        *)
(* market::BinanceClient share the code of start, stop and the shape of    *)
(* run_loop): a worker thread connects a WebSocket, subscribes, parses     *)
(* each frame and publishes it to Redis, and starts over after any         *)
(* exception.  The programs around it are StockFeed and MarketFeed.        *)
(***************************************************************************)
EXTENDS Integers, Sequences

CONSTANTS
    Good, Bad, Noise,  \* frames: market data, unparsable data, anything else
    None,
    Reconnect,         \* opts.reconnect
    Closes,            \* ws.close() after the inner loop: Binance, not KIS
    Faults             \* subset of {"link", "redis"}

Frames == Good \cup Bad \cup Noise

ASSUME FeedAssumption ==
    /\ None \notin Frames
    /\ Good \cap Bad = {} /\ Good \cap Noise = {} /\ Bad \cap Noise = {}
    /\ Reconnect \in BOOLEAN /\ Closes \in BOOLEAN
    /\ Faults \subseteq {"link", "redis"}

VARIABLES
    mpc,        \* where main() is
    g_stop,     \* set by SIGINT / SIGTERM
    running,    \* running_
    thread,     \* worker_: "none" (not joinable), "live" or "finished"
    wpc,        \* where the worker is in run_loop
    ws,         \* the WebSocket: "closed", "open" or "broken"
    stream,     \* frames on their way to the worker
    cur,        \* the frame whose handler runs
    ctx,        \* the publisher's redisContext: "ok" or "err"
    arrived,    \* frames the exchange has sent, in order
    published   \* frames Redis has taken, in order

workVars == <<running, thread, wpc>>
wsVars   == <<ws, stream>>
outVars  == <<ctx, published>>
feedVars == <<mpc, g_stop, running, thread, wpc, ws, stream, cur, ctx,
              arrived, published>>

Elements(s) == {s[i] : i \in DOMAIN s}

MainPCs   == {"start", "look", "sleep", "joining", "last join", "end",
              "exited", "terminated"}
WorkerPCs == {"head", "connect", "test", "read", "handle", "closing",
              "catch"}

FeedTypeOK ==
    /\ mpc \in MainPCs
    /\ g_stop \in BOOLEAN
    /\ running \in BOOLEAN
    /\ thread \in {"none", "live", "finished"}
    /\ wpc \in WorkerPCs
    /\ ws \in {"closed", "open", "broken"}
    /\ stream \in Seq(Frames)
    /\ cur \in Frames \cup {None}
    /\ ctx \in {"ok", "err"}
    /\ arrived \in Seq(Frames)
    /\ published \in Seq(Good)

\* The publisher's constructor may fail to connect; nothing else is running.
FeedInit ==
    /\ g_stop = FALSE
    /\ running = FALSE
    /\ thread = "none"
    /\ wpc = "head"
    /\ ws = "closed"
    /\ stream = <<>>
    /\ cur = None
    /\ ctx \in (IF "redis" \in Faults THEN {"ok", "err"} ELSE {"ok"})
    /\ arrived = <<>>
    /\ published = <<>>

-----------------------------------------------------------------------------
(* The outside.                                                             *)

Arrive(f) ==
    /\ ws = "open"
    /\ f \notin Elements(arrived)
    /\ arrived' = Append(arrived, f)
    /\ stream' = Append(stream, f)
    /\ UNCHANGED <<mpc, g_stop, workVars, ws, cur, outVars>>

BreakLink ==
    /\ "link" \in Faults
    /\ ws = "open"
    /\ ws' = "broken"
    /\ \E k \in 0 .. Len(stream) : stream' = SubSeq(stream, 1, k)
    /\ UNCHANGED <<mpc, g_stop, workVars, cur, outVars, arrived>>

\* Redis goes away: the next PUBLISH sets ctx->err, and nothing clears it.
BreakRedis ==
    /\ "redis" \in Faults
    /\ ctx = "ok"
    /\ ctx' = "err"
    /\ UNCHANGED <<mpc, g_stop, workVars, wsVars, cur, arrived, published>>

Signal ==
    /\ ~g_stop
    /\ mpc \notin {"exited", "terminated"}
    /\ g_stop' = TRUE
    /\ UNCHANGED <<mpc, workVars, wsVars, cur, outVars, arrived>>

-----------------------------------------------------------------------------
(* start() and stop(), called by main(), which goes on at `to`.             *)

\* Assigning to a std::thread that is still joinable ends the program.
start(to) ==
    /\ running' = TRUE
    /\ IF running
       THEN mpc' = to /\ UNCHANGED <<thread, wpc>>
       ELSE IF thread = "none"
       THEN mpc' = to /\ thread' = "live" /\ wpc' = "head"
       ELSE mpc' = "terminated" /\ UNCHANGED <<thread, wpc>>
    /\ UNCHANGED <<g_stop, wsVars, cur, outVars, arrived>>

\* (mutant) running_ is cleared and the worker is left to end by itself.
stopAsync(join, to) ==
    /\ running' = FALSE
    /\ mpc' = to
    /\ UNCHANGED <<g_stop, thread, wpc, wsVars, cur, outVars, arrived>>
\* If running_ was set, the worker is joined at `join` first.
stop(join, to) ==
    /\ running' = FALSE
    /\ mpc' = IF running THEN join ELSE to
    /\ UNCHANGED <<g_stop, thread, wpc, wsVars, cur, outVars, arrived>>

Joined(join, to) ==
    /\ mpc = join
    /\ thread = "finished"
    /\ thread' = "none"
    /\ mpc' = to
    /\ UNCHANGED <<g_stop, running, wpc, wsVars, cur, outVars, arrived>>

\* ~KisClient calls stop() once more; then ~thread, which must not be joinable.
Destroy ==
    /\ mpc = "end"
    /\ mpc' = IF thread = "none" THEN "exited" ELSE "terminated"
    /\ UNCHANGED <<g_stop, workVars, wsVars, cur, outVars, arrived>>

-----------------------------------------------------------------------------
(* run_loop.                                                                *)

Alive(at) == thread = "live" /\ wpc = at /\ mpc \notin {"exited", "terminated"}

\* (mutant) the outer loop runs for ever.
HeadForEver ==
    /\ Alive("head")
    /\ wpc' = "connect"
    /\ UNCHANGED <<mpc, g_stop, running, thread, wsVars, cur, outVars, arrived>>
Head_ ==
    /\ Alive("head")
    /\ IF running
       THEN wpc' = "connect" /\ UNCHANGED thread
       ELSE thread' = "finished" /\ UNCHANGED wpc
    /\ UNCHANGED <<mpc, g_stop, running, wsVars, cur, outVars, arrived>>

\* Authenticate, resolve, connect, shake hands, subscribe: frames that arrive
\* meanwhile wait in the stream.
Connect ==
    /\ Alive("connect")
    /\ ws' = "open"
    /\ stream' = <<>>
    /\ wpc' = "test"
    /\ UNCHANGED <<mpc, g_stop, running, thread, cur, outVars, arrived>>

\* A failed HTTP call comes back as an empty text and its token as an empty
\* key: KIS then throws, as does any failure of the handshake itself.
ConnectFails ==
    /\ "link" \in Faults
    /\ Alive("connect")
    /\ wpc' = "catch"
    /\ UNCHANGED <<mpc, g_stop, running, thread, wsVars, cur, outVars, arrived>>

\* The head of the inner loop; leaving it destroys the WebSocket, at once or
\* after a close handshake.
Test ==
    /\ Alive("test")
    /\ IF running THEN wpc' = "read" /\ UNCHANGED wsVars
       ELSE IF Closes THEN wpc' = "closing" /\ UNCHANGED wsVars
       ELSE wpc' = "head" /\ ws' = "closed" /\ stream' = <<>>
    /\ UNCHANGED <<mpc, g_stop, running, thread, cur, outVars, arrived>>

Closed ==
    /\ Alive("closing")
    /\ ws' = "closed"
    /\ stream' = <<>>
    /\ wpc' = "head"
    /\ UNCHANGED <<mpc, g_stop, running, thread, cur, outVars, arrived>>

\* ws.close returns when the exchange has answered, or with an error.
CloseAnswered == ws = "open" /\ Closed
CloseFails    == ws = "broken" /\ Closed

\* What a read leaves in the stream.
\* (mutant) buf.clear() throws away what came with the frame.
UnreadNone == <<>>
Unread == Tail(stream)

\* The tests of a frame and its parser, which may throw.
AfterRead(f) == IF f \in Good THEN "handle"
                ELSE IF f \in Bad THEN "catch" ELSE "test"

Read ==
    /\ Alive("read")
    /\ stream # <<>>
    /\ stream' = Unread
    /\ LET f == Head(stream)
       IN  /\ cur' = IF f \in Good THEN f ELSE cur
           /\ wpc' = AfterRead(f)
    /\ UNCHANGED <<mpc, g_stop, running, thread, ws, outVars, arrived>>

ReadFails ==
    /\ Alive("read")
    /\ ws = "broken"
    /\ wpc' = "catch"
    /\ UNCHANGED <<mpc, g_stop, running, thread, wsVars, cur, outVars, arrived>>

\* One PUBLISH, unless the context has failed.
PublishFrame ==
    published' = IF ctx = "ok" THEN Append(published, cur) ELSE published

\* (mutant) the frame is kept and published again after a reconnection.
HandleAgain ==
    /\ Alive("handle")
    /\ PublishFrame
    /\ cur' = IF ws = "broken" THEN cur ELSE None
    /\ wpc' = IF ws = "broken" THEN "handle" ELSE "test"
    /\ UNCHANGED <<mpc, g_stop, running, thread, wsVars, ctx, arrived>>
Handle ==
    /\ Alive("handle")
    /\ PublishFrame
    /\ cur' = None
    /\ wpc' = "test"
    /\ UNCHANGED <<mpc, g_stop, running, thread, wsVars, ctx, arrived>>

\* The catch clause: the stack is unwound, the pause is a stuttering step.
\* (mutant) opts.reconnect is not looked at.
CatchStops ==
    /\ Alive("catch")
    /\ running' = FALSE
    /\ ws' = "closed"
    /\ stream' = <<>>
    /\ wpc' = "head"
    /\ UNCHANGED <<mpc, g_stop, thread, cur, outVars, arrived>>
Catch ==
    /\ Alive("catch")
    /\ running' = (running /\ Reconnect)
    /\ ws' = "closed"
    /\ stream' = <<>>
    /\ wpc' = "head"
    /\ UNCHANGED <<mpc, g_stop, thread, cur, outVars, arrived>>

Worker == \/ Head_
          \/ Connect
          \/ ConnectFails
          \/ Test
          \/ Read
          \/ ReadFails
          \/ Handle
          \/ CloseFails
          \/ Catch

Outside == \/ \E f \in Frames : Arrive(f)
           \/ CloseAnswered
           \/ BreakLink
           \/ BreakRedis
           \/ Signal

-----------------------------------------------------------------------------

(* No call of start() or destructor ever meets a thread that was not joined:
   the program does not end in std::terminate (kis_client.cpp:130-137). *)
NeverTerminated == mpc # "terminated"

(* Once stop() has returned and until start() is called again nothing is
   published: the session that is over sends no late tick. *)
Quiet ==
    [][~running /\ mpc \notin {"joining", "last join"}
          => published' = published]_feedVars

(* Whatever reconnections there were, Redis gets the frames in the order the
   exchange sent them, and none twice. *)
Position(f) == CHOOSE i \in DOMAIN arrived : arrived[i] = f
PublishedInOrder ==
    \A i, j \in DOMAIN published :
        i < j => Position(published[i]) < Position(published[j])

(* As long as the WebSocket and Redis hold, the market data that reaches this
   host is published: it leaves the stream only for the handler. *)
Lossless ==
    [][\A f \in Good :
          /\ f \in Elements(stream) \cup {cur}
          /\ running
          /\ ws' = "open"
          /\ ctx = "ok"
          => f \in Elements(stream') \cup {cur'} \cup Elements(published')]_feedVars

\* The worker waits for a frame, or for an answer to its close, that the
\* exchange need not send.
Silent ==
    /\ ws = "open"
    /\ (wpc = "read" /\ stream = <<>>) \/ wpc = "closing"

(* After a signal the program ends, unless the worker waits in a silent
   connection. *)
EndsOnSignal == g_stop ~> (mpc = "exited" \/ Silent)
=============================================================================
