----------------------------- MODULE FeedProofs -----------------------------
(***************************************************************************)
(* Proofs about the feed client in both programs around it, stock-feed and *)
(* market-feed: neither ends in std::terminate, nothing is published once  *)
(* stop() has returned, and what reaches Redis is in order and complete as *)
(* far as the connections hold.                                            *)
(*                                                                         *)
(* The programs differ in when main() calls start() and stop().  What the  *)
(* proofs need of that is small: AnyFeed lets main() call them whenever it *)
(* is neither joining nor at its end, and both programs are shown to be    *)
(* such feeds.                                                             *)
(*                                                                         *)
(* The last part is about the session the stock feed looks at: a scheduler *)
(* that sleeps for time_until_next is late for a change of it by less than *)
(* a second, whatever the resolution of the clock.                         *)
(***************************************************************************)
EXTENDS StockFeed, KrxSleeper, SequenceTheorems, TLAPS

Market == INSTANCE MarketFeed

\* main() may call start() or stop(), or let time pass.
Free == {"start", "look", "sleep"}

Call ==
    \/ mpc \in Free /\ start("sleep")
    \/ mpc \in Free /\ stop("joining", "sleep")
    \/ mpc \in Free /\ stop("last join", "end")
    \/ mpc \in Free /\ mpc' \in Free
          /\ UNCHANGED <<g_stop, workVars, wsVars, cur, outVars, arrived>>
    \/ Joined("joining", "sleep")
    \/ Joined("last join", "end")
    \/ Destroy

Step == Call \/ Worker \/ Outside

AnyFeed == FeedInit /\ mpc \in Free /\ [][Step]_feedVars

-----------------------------------------------------------------------------

(* The worker: without a thread it stands at the head of its loop; outside the
   inner loop there is no connection, and without one nothing is in the
   stream; a frame is in the handler exactly while the worker is in it. *)
WorkerInv ==
    /\ thread # "live" => wpc = "head"
    /\ wpc \in {"head", "connect"} => ws = "closed"
    /\ ws = "closed" => stream = <<>>
    /\ cur # None <=> wpc = "handle"
    /\ cur # None => cur \in Good

(* The thread: running_ is set only while there is one, and when main() goes on
   with running_ cleared it has been joined. *)
ThreadInv ==
    /\ running => thread = "live"
    /\ ~running /\ mpc \notin {"joining", "last join"} => thread = "none"
    /\ mpc \in {"joining", "last join", "end", "exited"} => ~running
    /\ mpc # "terminated"

\* a has a place in s ahead of b.
Before(s, a, b) ==
    \E i, j \in DOMAIN s : i < j /\ s[i] = a /\ s[j] = b

ArrivedOnce ==
    \A i, j \in DOMAIN arrived : arrived[i] = arrived[j] => i = j

PublishedPart ==
    /\ \A i \in DOMAIN published : published[i] \in Elements(arrived)
    /\ \A i, j \in DOMAIN published :
          i < j => Before(arrived, published[i], published[j])

CurPart ==
    cur # None =>
        /\ cur \in Elements(arrived)
        /\ \A i \in DOMAIN published : Before(arrived, published[i], cur)

StreamPart ==
    /\ \A k \in DOMAIN stream :
          /\ stream[k] \in Elements(arrived)
          /\ \A i \in DOMAIN published : Before(arrived, published[i], stream[k])
          /\ cur # None => Before(arrived, cur, stream[k])
    /\ \A k, l \in DOMAIN stream : k < l => Before(arrived, stream[k], stream[l])

(* What was published, then the frame in the handler, then the stream: frames
   that arrived, each ahead of those that arrived later. *)
PipeInv == ArrivedOnce /\ PublishedPart /\ CurPart /\ StreamPart

-----------------------------------------------------------------------------
(* Both programs are such feeds.                                            *)

LEMMA StockSteps == [Next]_vars => [Step]_feedVars
<1>1. CASE Main
    BY <1>1 DEF Main, Look, WakeUp, Step, Call, Free
<1> QED
    BY <1>1 DEF Next, Advance, vars, Step

LEMMA SameWorker == Market!Worker <=> Worker
<1> USE DEF Market!Alive, Alive, Market!wsVars, wsVars, Market!outVars, outVars
<1>1. Market!Head_ <=> Head_
    BY DEF Market!Head_, Head_
<1>2. Market!Connect <=> Connect
    BY DEF Market!Connect, Connect
<1>3. Market!ConnectFails <=> ConnectFails
    BY DEF Market!ConnectFails, ConnectFails
<1>4. Market!Test <=> Test
    BY DEF Market!Test, Test
<1>5. Market!Read <=> Read
    BY DEF Market!Read, Read, Market!Unread, Unread, Market!AfterRead, AfterRead
<1>6. Market!ReadFails <=> ReadFails
    BY DEF Market!ReadFails, ReadFails
<1>7. Market!Handle <=> Handle
    BY DEF Market!Handle, Handle, Market!PublishFrame, PublishFrame
<1>8. Market!CloseFails <=> CloseFails
    BY DEF Market!CloseFails, CloseFails, Market!Closed, Closed
<1>9. Market!Catch <=> Catch
    BY DEF Market!Catch, Catch
<1> QED
    BY <1>1, <1>2, <1>3, <1>4, <1>5, <1>6, <1>7, <1>8, <1>9 DEF Market!Worker, Worker

LEMMA SameOutside == Market!Outside <=> Outside
<1> USE DEF Market!workVars, workVars, Market!wsVars, wsVars, Market!outVars, outVars
<1>1. \A f : Market!Arrive(f) <=> Arrive(f)
    BY DEF Market!Arrive, Arrive, Market!Elements, Elements
<1>2. Market!CloseAnswered <=> CloseAnswered
    BY DEF Market!CloseAnswered, CloseAnswered, Market!Closed, Closed,
           Market!Alive, Alive
<1>3. Market!BreakLink <=> BreakLink
    BY DEF Market!BreakLink, BreakLink
<1>4. Market!BreakRedis <=> BreakRedis
    BY DEF Market!BreakRedis, BreakRedis
<1>5. Market!Signal <=> Signal
    BY DEF Market!Signal, Signal
<1>6. Market!Frames = Frames
    BY DEF Market!Frames, Frames
<1> QED
    BY <1>1, <1>2, <1>3, <1>4, <1>5, <1>6 DEF Market!Outside, Outside

LEMMA MarketCalls == Market!Main => Call
<1> USE DEF Market!workVars, workVars, Market!wsVars, wsVars, Market!outVars, outVars
<1>1. Market!Start => Call
    BY DEF Market!Start, Market!start, start, Call, Free
<1>2. Market!Stop => Call
    BY DEF Market!Stop, Market!stop, stop, Call, Free
<1>3. Market!Joined("last join", "end") => Call
    BY DEF Market!Joined, Joined, Call
<1>4. Market!Destroy => Call
    BY DEF Market!Destroy, Destroy, Call
<1> QED
    BY <1>1, <1>2, <1>3, <1>4 DEF Market!Main

LEMMA MarketSteps == [Market!Next]_(Market!vars) => [Step]_feedVars
<1>1. Market!vars = feedVars /\ Market!vars' = feedVars'
    BY DEF Market!vars, Market!feedVars, feedVars
<1> QED
    BY <1>1, SameWorker, SameOutside, MarketCalls DEF Market!Next, Step

(* stock-feed's main() and market-feed's are among those AnyFeed allows. *)
THEOREM ProgramsAreFeeds == (Spec => AnyFeed) /\ (Market!Spec => AnyFeed)
<1>1. Init => FeedInit /\ mpc \in Free
    BY DEF Init, Free
<1>2. Market!Init => FeedInit /\ mpc \in Free
    BY DEF Market!Init, Market!FeedInit, FeedInit, Free
<1>3. Spec => AnyFeed
    BY <1>1, StockSteps, PTL DEF Spec, AnyFeed
<1>4. Market!Spec => AnyFeed
    BY <1>2, MarketSteps, PTL DEF Market!Spec, AnyFeed
<1> QED
    BY <1>3, <1>4

-----------------------------------------------------------------------------
(* The type, and where the worker is.                                       *)

LEMMA WorkerType ==
    ASSUME FeedTypeOK, WorkerInv, Step
    PROVE  FeedTypeOK' /\ WorkerInv'
<1>e. <<>> \in Seq(Frames)
    OBVIOUS
<1>t. stream \in Seq(Frames) /\ arrived \in Seq(Frames) /\ published \in Seq(Good)
    BY DEF FeedTypeOK
<1>h. stream # <<>> => Head(stream) \in Frames /\ Tail(stream) \in Seq(Frames)
    BY <1>t
<1>s. \A k \in 0 .. Len(stream) : SubSeq(stream, 1, k) \in Seq(Frames)
    BY <1>t
<1>a. /\ \A f \in Frames : /\ Append(stream, f) \in Seq(Frames)
                           /\ Append(arrived, f) \in Seq(Frames)
      /\ \A f \in Good : Append(published, f) \in Seq(Good)
    BY <1>t
<1> USE DEF FeedTypeOK, WorkerInv, MainPCs, WorkerPCs, workVars, wsVars, outVars
<1>1. CASE Call
  <2>1. ASSUME start("sleep") PROVE FeedTypeOK' /\ WorkerInv'
    BY <2>1 DEF start
  <2>2. ASSUME NEW a \in {"joining", "last join"}, NEW b \in {"sleep", "end"}, stop(a, b)
        PROVE  FeedTypeOK' /\ WorkerInv'
    BY <2>2 DEF stop
  <2>3. ASSUME NEW a, NEW b \in {"sleep", "end"}, Joined(a, b)
        PROVE  FeedTypeOK' /\ WorkerInv'
    BY <2>3 DEF Joined
  <2>4. ASSUME mpc' \in Free, UNCHANGED <<g_stop, workVars, wsVars, cur, outVars, arrived>>
        PROVE  FeedTypeOK' /\ WorkerInv'
    BY <2>4 DEF Free
  <2>5. ASSUME Destroy PROVE FeedTypeOK' /\ WorkerInv'
    BY <2>5 DEF Destroy
  <2> QED
    BY <1>1, <2>1, <2>2, <2>3, <2>4, <2>5 DEF Call
<1>2. ASSUME NEW f \in Frames, Arrive(f)
      PROVE  FeedTypeOK' /\ WorkerInv'
  <2>1. stream' \in Seq(Frames) /\ arrived' \in Seq(Frames)
    BY <1>2, <1>a DEF Arrive
  <2> QED
    BY <1>2, <2>1 DEF Arrive
<1>3. CASE BreakLink
  <2>1. stream' \in Seq(Frames)
    BY <1>3, <1>s DEF BreakLink
  <2> QED
    BY <1>3, <2>1 DEF BreakLink
<1>4. CASE BreakRedis \/ Signal
    BY <1>4 DEF BreakRedis, Signal
<1>5. CASE Head_
    BY <1>5 DEF Head_, Alive
<1>6. CASE Connect
    BY <1>6, <1>e DEF Connect, Alive
<1>7. CASE ConnectFails \/ ReadFails
    BY <1>7 DEF ConnectFails, ReadFails, Alive
<1>8. CASE Test
    BY <1>8, <1>e DEF Test, Alive
<1>9. CASE Closed \/ Catch
    BY <1>9, <1>e DEF Closed, Catch, Alive
<1>10. CASE Read
  <2>1. Head(stream) \in Frames /\ stream' \in Seq(Frames)
    BY <1>10, <1>h DEF Read, Unread
  <2>2. None \notin Good /\ Good \subseteq Frames
    BY FeedAssumption DEF Frames
  <2>3. cur = None /\ ws # "closed"
    BY <1>10 DEF Read, Alive
  <2>4. CASE Head(stream) \in Good
    BY <1>10, <2>1, <2>2, <2>3, <2>4 DEF Read, AfterRead, Alive
  <2>5. CASE Head(stream) \notin Good
    BY <1>10, <2>1, <2>2, <2>3, <2>5 DEF Read, AfterRead, Alive
  <2> QED
    BY <2>4, <2>5
<1>11. CASE Handle
  <2>1. cur \in Good
    BY <1>11 DEF Handle, Alive
  <2>2. published' \in Seq(Good)
    BY <1>11, <1>a, <2>1 DEF Handle, PublishFrame
  <2> QED
    BY <1>11, <2>2 DEF Handle, Alive
<1> QED
    BY <1>1, <1>2, <1>3, <1>4, <1>5, <1>6, <1>7, <1>8, <1>9, <1>10, <1>11
       DEF Step, Worker, Outside, CloseFails, CloseAnswered

LEMMA FeedIsTypeCorrect == AnyFeed => [](FeedTypeOK /\ WorkerInv)
<1>1. FeedInit /\ mpc \in Free => FeedTypeOK /\ WorkerInv
  <2> SUFFICES ASSUME FeedInit, mpc \in Free
               PROVE  FeedTypeOK /\ WorkerInv
    OBVIOUS
  <2>1. <<>> \in Seq(Frames) /\ <<>> \in Seq(Good)
    OBVIOUS
  <2>2. FeedTypeOK
    BY <2>1 DEF FeedInit, FeedTypeOK, MainPCs, WorkerPCs, Free
  <2>3. WorkerInv
    BY DEF FeedInit, WorkerInv
  <2> QED
    BY <2>2, <2>3
<1>2. FeedTypeOK /\ WorkerInv /\ UNCHANGED feedVars => FeedTypeOK' /\ WorkerInv'
    BY DEF feedVars, FeedTypeOK, WorkerInv
<1>3. FeedTypeOK /\ WorkerInv /\ [Step]_feedVars => FeedTypeOK' /\ WorkerInv'
    BY <1>2, WorkerType
<1> QED
    BY <1>1, <1>3, PTL DEF AnyFeed

-----------------------------------------------------------------------------
(* The thread.                                                              *)

\* Nothing but the catch clause of a feed that may not reconnect clears running_
\* under the worker.
LEMMA ThreadStep ==
    ASSUME Reconnect = TRUE, FeedTypeOK, ThreadInv, Step
    PROVE  ThreadInv'
<1> USE DEF FeedTypeOK, ThreadInv, workVars, wsVars, outVars
<1>1. CASE Call
  <2>1. ASSUME mpc \in Free, start("sleep") PROVE ThreadInv'
    BY <2>1 DEF start, Free
  <2>2. ASSUME mpc \in Free, stop("joining", "sleep") \/ stop("last join", "end")
        PROVE  ThreadInv'
    BY <2>2 DEF stop, Free
  <2>3. ASSUME Joined("joining", "sleep") \/ Joined("last join", "end")
        PROVE  ThreadInv'
    <3>1. running' = running /\ ~running
      BY <2>3 DEF Joined
    <3>2. thread' = "none" /\ mpc' \in {"sleep", "end"}
      BY <2>3 DEF Joined
    <3> QED
      BY <3>1, <3>2
  <2>4. ASSUME mpc \in Free, mpc' \in Free,
               UNCHANGED <<g_stop, workVars, wsVars, cur, outVars, arrived>>
        PROVE  ThreadInv'
    BY <2>4 DEF Free
  <2>5. ASSUME Destroy PROVE ThreadInv'
    BY <2>5 DEF Destroy
  <2> QED
    BY <1>1, <2>1, <2>2, <2>3, <2>4, <2>5 DEF Call
<1>2. CASE Outside
  <2>1. UNCHANGED <<mpc, running, thread>>
    BY <1>2 DEF Outside, Arrive, CloseAnswered, Closed, BreakLink, BreakRedis, Signal
  <2> QED
    BY <2>1
<1>3. CASE Head_
    BY <1>3 DEF Head_, Alive
<1>4. CASE Catch
  <2>1. UNCHANGED <<mpc, running, thread>>
    BY <1>4 DEF Catch
  <2> QED
    BY <2>1
<1>5. CASE Connect \/ ConnectFails \/ Test \/ Read \/ ReadFails \/ Handle \/ CloseFails
  <2>1. UNCHANGED <<mpc, running, thread>>
    BY <1>5 DEF Connect, ConnectFails, Test, Read, ReadFails, Handle, CloseFails, Closed
  <2> QED
    BY <2>1
<1> QED
    BY <1>1, <1>2, <1>3, <1>4, <1>5 DEF Step, Worker

LEMMA ThreadAlways ==
    ASSUME Reconnect = TRUE
    PROVE  AnyFeed => []ThreadInv
<1>1. FeedInit /\ mpc \in Free => ThreadInv
    BY DEF FeedInit, ThreadInv, Free
<1>2. ThreadInv /\ UNCHANGED feedVars => ThreadInv'
  <2> SUFFICES ASSUME ThreadInv, UNCHANGED feedVars
               PROVE  ThreadInv'
    OBVIOUS
  <2>1. UNCHANGED <<mpc, running, thread>>
    BY DEF feedVars
  <2> QED
    BY <2>1 DEF ThreadInv
<1>3. FeedTypeOK /\ ThreadInv /\ [Step]_feedVars => ThreadInv'
    BY <1>2, ThreadStep
<1> QED
    BY <1>1, <1>3, FeedIsTypeCorrect, PTL DEF AnyFeed

(* As long as the feed may reconnect (Options::reconnect, which neither main()
   changes), no call of start() and no destructor meets a thread that was not
   joined: neither program ends in std::terminate. *)
THEOREM NeitherIsTerminated ==
    ASSUME Reconnect = TRUE
    PROVE  /\ Spec => []NeverTerminated
           /\ Market!Spec => []NeverTerminated
<1>1. ThreadInv => NeverTerminated
    BY DEF ThreadInv, NeverTerminated
<1>2. AnyFeed => []NeverTerminated
    BY <1>1, ThreadAlways, PTL
<1>3. Spec => []NeverTerminated
    BY <1>2, ProgramsAreFeeds, PTL
<1>4. Market!Spec => []NeverTerminated
    BY <1>2, ProgramsAreFeeds, PTL
<1> QED
    BY <1>3, <1>4

(* Once stop() has returned, and until start() is called again, nothing is
   published. *)
THEOREM StoppedIsQuiet ==
    ASSUME Reconnect = TRUE
    PROVE  (Spec => Quiet) /\ (Market!Spec => Quiet)
<1>1. ASSUME ThreadInv, [Step]_feedVars,
             ~running, mpc \notin {"joining", "last join"}
      PROVE  published' = published
  <2>1. thread # "live"
    BY <1>1 DEF ThreadInv
  <2>2. ~Handle
    BY <2>1 DEF Handle, Alive
  <2> QED
    BY <1>1, <2>2 DEF Step, Call, start, stop, Joined, Destroy, Worker, Head_,
       Connect, ConnectFails, Test, Read, ReadFails, CloseFails, Closed, Catch,
       Outside, Arrive, CloseAnswered, BreakLink, BreakRedis, Signal, outVars,
       feedVars
<1>2. ThreadInv /\ [Step]_feedVars =>
         [~running /\ mpc \notin {"joining", "last join"}
             => published' = published]_feedVars
    BY <1>1
<1>3. AnyFeed => Quiet
    BY <1>2, ThreadAlways, PTL DEF AnyFeed, Quiet
<1>4. Spec => Quiet
    BY <1>3, ProgramsAreFeeds, PTL
<1>5. Market!Spec => Quiet
    BY <1>3, ProgramsAreFeeds, PTL
<1> QED
    BY <1>4, <1>5

-----------------------------------------------------------------------------
(* Every variable of either program has its type. *)
THEOREM FeedsAreTypeCorrect ==
    (Spec => []TypeOK) /\ (Market!Spec => []FeedTypeOK)
<1> DEFINE Passing == now \in DOMAIN Moments
<1>1. Init => Passing
    BY DEF Init
<1>2. Passing /\ [Next]_vars => Passing'
  <2> SUFFICES ASSUME Passing, [Next]_vars
               PROVE  now' \in DOMAIN Moments
    OBVIOUS
  <2>1. CASE Advance
    <3>1. DOMAIN Moments = 1 .. Len(Moments) /\ Len(Moments) \in Nat
      BY MomentsAssumption
    <3> QED
      BY <2>1, <3>1 DEF Advance
  <2>2. CASE now' = now
    BY <2>2
  <2> QED
    BY <2>1, <2>2 DEF Next, Main, Look, WakeUp, vars
<1>3. Spec => []TypeOK
  <2>1. FeedTypeOK /\ Passing => TypeOK
    BY DEF TypeOK
  <2> HIDE DEF Passing
  <2>2. Spec => []Passing
    BY <1>1, <1>2, PTL DEF Spec
  <2> QED
    BY <2>1, <2>2, ProgramsAreFeeds, FeedIsTypeCorrect, PTL
<1>4. Market!Spec => []FeedTypeOK
    BY ProgramsAreFeeds, FeedIsTypeCorrect, PTL
<1> QED
    BY <1>3, <1>4

-----------------------------------------------------------------------------
(* The order.                                                               *)

LEMMA OrderOfAppend ==
    ASSUME NEW S, NEW s \in Seq(S), NEW m \in S
    PROVE  /\ \A a, b : Before(s, a, b) => Before(Append(s, m), a, b)
           /\ \A a \in Elements(s) : Before(Append(s, m), a, m)
           /\ Elements(Append(s, m)) = Elements(s) \cup {m}
<1> DEFINE t == Append(s, m)
<1>1. /\ DOMAIN t = 1 .. Len(s) + 1
      /\ DOMAIN s = 1 .. Len(s)
      /\ \A i \in DOMAIN s : i \in DOMAIN t /\ i < Len(s) + 1 /\ t[i] = s[i]
      /\ t[Len(s) + 1] = m
      /\ Len(s) + 1 \in DOMAIN t
      /\ \A i \in DOMAIN t : i \in DOMAIN s \/ i = Len(s) + 1
    OBVIOUS
<1> HIDE DEF t
<1>2. ASSUME NEW a, NEW b, Before(s, a, b)
      PROVE  Before(t, a, b)
    BY <1>1, <1>2 DEF Before
<1>3. ASSUME NEW a \in Elements(s)
      PROVE  Before(t, a, m)
    BY <1>1 DEF Before, Elements
<1>4. Elements(t) = Elements(s) \cup {m}
    BY <1>1 DEF Elements
<1> QED
    BY <1>2, <1>3, <1>4 DEF t

\* What is left of the stream comes from o places further on; nothing else
\* of the pipe moves.
LEMMA PipeThins ==
    ASSUME PipeInv, UNCHANGED <<arrived, published>>, cur' \in {cur, None},
           NEW o \in Nat,
           stream \in Seq(Frames), stream' \in Seq(Frames),
           \A k \in DOMAIN stream' :
              k + o \in DOMAIN stream /\ stream'[k] = stream[k + o]
    PROVE  PipeInv'
<1>1. \A k, l \in DOMAIN stream' : k < l => k + o < l + o
  <2>1. \A k \in DOMAIN stream' : k \in Nat
    OBVIOUS
  <2> QED
    BY <2>1
<1>2. ASSUME NEW k \in DOMAIN stream'
      PROVE  /\ stream'[k] \in Elements(arrived)
             /\ \A i \in DOMAIN published : Before(arrived, published[i], stream'[k])
             /\ cur' # None => Before(arrived, cur', stream'[k])
    BY DEF PipeInv, StreamPart
<1>3. ASSUME NEW k \in DOMAIN stream', NEW l \in DOMAIN stream', k < l
      PROVE  Before(arrived, stream'[k], stream'[l])
    BY <1>1, <1>3 DEF PipeInv, StreamPart
<1>4. StreamPart'
    BY <1>2, <1>3 DEF StreamPart
<1>5. ArrivedOnce' /\ PublishedPart' /\ CurPart'
    BY DEF PipeInv, ArrivedOnce, PublishedPart, CurPart
<1> QED
    BY <1>4, <1>5 DEF PipeInv

\* A frame enters the pipe behind everything in it.
LEMMA ArriveKeepsOrder ==
    ASSUME FeedTypeOK, PipeInv, NEW f \in Frames, Arrive(f)
    PROVE  PipeInv'
<1>1. /\ arrived \in Seq(Frames) /\ stream \in Seq(Frames)
      /\ arrived' = Append(arrived, f) /\ stream' = Append(stream, f)
      /\ f \notin Elements(arrived)
      /\ UNCHANGED <<cur, published>>
    BY DEF Arrive, FeedTypeOK, outVars
<1>2. /\ \A a, b : Before(arrived, a, b) => Before(arrived', a, b)
      /\ \A a \in Elements(arrived) : Before(arrived', a, f)
      /\ Elements(arrived') = Elements(arrived) \cup {f}
    BY <1>1, OrderOfAppend
<1>3. ArrivedOnce'
  <2>1. /\ DOMAIN arrived' = 1 .. Len(arrived) + 1
        /\ DOMAIN arrived = 1 .. Len(arrived)
        /\ \A i \in DOMAIN arrived : arrived'[i] = arrived[i] /\ arrived[i] # f
        /\ arrived'[Len(arrived) + 1] = f
        /\ Len(arrived) \in Nat
    BY <1>1 DEF Elements
  <2> QED
    BY <2>1 DEF PipeInv, ArrivedOnce
<1>4. PublishedPart' /\ CurPart'
    BY <1>1, <1>2 DEF PipeInv, PublishedPart, CurPart
<1>5. StreamPart'
  <2>1. /\ DOMAIN stream' = 1 .. Len(stream) + 1
        /\ DOMAIN stream = 1 .. Len(stream)
        /\ \A k \in DOMAIN stream : stream'[k] = stream[k]
        /\ stream'[Len(stream) + 1] = f
        /\ Len(stream) \in Nat
    BY <1>1
  <2>2. \A k \in DOMAIN stream' :
           (k \in DOMAIN stream /\ stream'[k] = stream[k]) \/ stream'[k] = f
    BY <2>1
  <2>3. ASSUME NEW k \in DOMAIN stream'
        PROVE  /\ stream'[k] \in Elements(arrived')
               /\ \A i \in DOMAIN published : Before(arrived', published[i], stream'[k])
               /\ cur # None => Before(arrived', cur, stream'[k])
    <3>1. CASE k \in DOMAIN stream /\ stream'[k] = stream[k]
      BY <3>1, <1>2 DEF PipeInv, StreamPart
    <3>2. CASE stream'[k] = f
      BY <3>2, <1>2 DEF PipeInv, PublishedPart, CurPart
    <3> QED
      BY <3>1, <3>2, <2>2
  <2>4. ASSUME NEW k \in DOMAIN stream', NEW l \in DOMAIN stream', k < l
        PROVE  Before(arrived', stream'[k], stream'[l])
    <3>1. k \in DOMAIN stream /\ stream'[k] = stream[k]
      BY <2>1, <2>4
    <3>2. CASE l \in DOMAIN stream /\ stream'[l] = stream[l]
      BY <3>1, <3>2, <2>4, <1>2 DEF PipeInv, StreamPart
    <3>3. CASE stream'[l] = f
      BY <3>1, <3>3, <1>2 DEF PipeInv, StreamPart
    <3> QED
      BY <3>2, <3>3, <2>2
  <2> QED
    BY <1>1, <2>3, <2>4 DEF StreamPart
<1> QED
    BY <1>3, <1>4, <1>5 DEF PipeInv

\* The head of the stream goes to its handler, or nowhere.
LEMMA ReadKeepsOrder ==
    ASSUME FeedTypeOK, WorkerInv, PipeInv, Read
    PROVE  PipeInv'
<1>1. /\ stream \in Seq(Frames) /\ stream # <<>>
      /\ UNCHANGED <<arrived, published>>
      /\ cur = None
      /\ stream' = Tail(stream)
      /\ cur' \in {cur, Head(stream)}
    BY DEF Read, Alive, Unread, FeedTypeOK, WorkerInv, outVars
<1>2. /\ stream' \in Seq(Frames)
      /\ Head(stream) = stream[1]
      /\ 1 \in DOMAIN stream
      /\ \A k \in DOMAIN stream' : k \in Nat /\ 1 < k + 1
      /\ \A k \in DOMAIN stream' :
            k + 1 \in DOMAIN stream /\ stream'[k] = stream[k + 1]
    BY <1>1
<1>3. CASE cur' = cur
    BY <1>1, <1>2, <1>3, PipeThins, 1 \in Nat
<1>4. CASE cur' = stream[1]
  <2>1. CurPart'
    BY <1>1, <1>2, <1>4 DEF PipeInv, StreamPart, CurPart
  <2>2. ASSUME NEW k \in DOMAIN stream'
        PROVE  /\ stream'[k] \in Elements(arrived)
               /\ \A i \in DOMAIN published : Before(arrived, published[i], stream'[k])
               /\ Before(arrived, stream[1], stream'[k])
    BY <1>2 DEF PipeInv, StreamPart
  <2>3. ASSUME NEW k \in DOMAIN stream', NEW l \in DOMAIN stream', k < l
        PROVE  Before(arrived, stream'[k], stream'[l])
    <3>1. k + 1 < l + 1
      BY <1>2, <2>3
    <3> QED
      BY <3>1, <1>2 DEF PipeInv, StreamPart
  <2>4. StreamPart'
    BY <1>1, <1>4, <2>2, <2>3 DEF StreamPart
  <2>5. ArrivedOnce' /\ PublishedPart'
    BY <1>1 DEF PipeInv, ArrivedOnce, PublishedPart
  <2> QED
    BY <2>1, <2>4, <2>5 DEF PipeInv
<1> QED
    BY <1>1, <1>2, <1>3, <1>4

\* The handler's frame joins those published, ahead of the stream, or is
\* dropped.
LEMMA HandleKeepsOrder ==
    ASSUME FeedTypeOK, WorkerInv, PipeInv, Handle
    PROVE  PipeInv'
<1>1. /\ published \in Seq(Good)
      /\ cur # None /\ cur \in Good
      /\ cur' = None
      /\ UNCHANGED <<arrived, stream>>
      /\ published' \in {published, Append(published, cur)}
      /\ stream \in Seq(Frames)
    BY DEF Handle, Alive, PublishFrame, FeedTypeOK, WorkerInv, wsVars
<1>2. CASE published' = published
  <2>1. \A k \in DOMAIN stream : k + 0 = k
    BY <1>1
  <2> QED
    BY <1>1, <1>2, <2>1, PipeThins, 0 \in Nat
<1>3. CASE published' = Append(published, cur)
  <2>1. /\ DOMAIN published' = 1 .. Len(published) + 1
        /\ DOMAIN published = 1 .. Len(published)
        /\ \A i \in DOMAIN published : published'[i] = published[i]
        /\ published'[Len(published) + 1] = cur
        /\ Len(published) \in Nat
    BY <1>1, <1>3
  <2>2. \A i \in DOMAIN published' :
           (i \in DOMAIN published /\ published'[i] = published[i]) \/ published'[i] = cur
    BY <2>1
  <2>3. ASSUME NEW i \in DOMAIN published'
        PROVE  published'[i] \in Elements(arrived)
    BY <1>1, <2>2 DEF PipeInv, PublishedPart, CurPart
  <2>4. ASSUME NEW i \in DOMAIN published', NEW j \in DOMAIN published', i < j
        PROVE  Before(arrived, published'[i], published'[j])
    <3>1. i \in DOMAIN published /\ published'[i] = published[i]
      BY <2>1, <2>4
    <3>2. CASE j \in DOMAIN published /\ published'[j] = published[j]
      BY <3>1, <3>2, <2>4 DEF PipeInv, PublishedPart
    <3>3. CASE published'[j] = cur
      BY <3>1, <3>3, <1>1 DEF PipeInv, CurPart
    <3> QED
      BY <3>2, <3>3, <2>2
  <2>5. PublishedPart'
    BY <1>1, <2>3, <2>4 DEF PublishedPart
  <2>6. ASSUME NEW k \in DOMAIN stream, NEW i \in DOMAIN published'
        PROVE  Before(arrived, published'[i], stream[k])
    BY <1>1, <2>2 DEF PipeInv, StreamPart
  <2>7. StreamPart'
    BY <1>1, <2>6 DEF PipeInv, StreamPart
  <2>8. ArrivedOnce' /\ CurPart'
    BY <1>1 DEF PipeInv, ArrivedOnce, CurPart
  <2> QED
    BY <2>5, <2>7, <2>8 DEF PipeInv
<1> QED
    BY <1>1, <1>2, <1>3

LEMMA StepKeepsOrder ==
    ASSUME FeedTypeOK, FeedTypeOK', WorkerInv, PipeInv, [Step]_feedVars
    PROVE  PipeInv'
<1>t. stream \in Seq(Frames) /\ stream' \in Seq(Frames)
    BY DEF FeedTypeOK
<1>a. \A k \in DOMAIN stream : k \in Nat /\ k + 0 = k
    BY <1>t
<1>1. ASSUME UNCHANGED <<arrived, published, cur>>, stream' = stream
      PROVE  PipeInv'
    BY <1>1, <1>t, <1>a, PipeThins, 0 \in Nat
<1>2. ASSUME UNCHANGED <<arrived, published, cur>>, stream' = <<>>
      PROVE  PipeInv'
    BY <1>2, <1>t, PipeThins, 0 \in Nat
<1>3. CASE BreakLink
  <2>1. PICK n \in 0 .. Len(stream) : stream' = SubSeq(stream, 1, n)
    BY <1>3 DEF BreakLink
  <2>2. \A k \in DOMAIN stream' : k \in DOMAIN stream /\ stream'[k] = stream[k]
    BY <1>t, <2>1
  <2>3. UNCHANGED <<arrived, published, cur>>
    BY <1>3 DEF BreakLink, outVars
  <2> QED
    BY <1>t, <1>a, <2>2, <2>3, PipeThins, 0 \in Nat
<1>4. CASE Call \/ UNCHANGED feedVars
    BY <1>1, <1>4 DEF Call, start, stop, Joined, Destroy, wsVars, outVars, feedVars
<1>5. CASE BreakRedis \/ Signal \/ Head_ \/ ConnectFails \/ ReadFails
    BY <1>1, <1>5 DEF BreakRedis, Signal, Head_, ConnectFails, ReadFails, wsVars, outVars
<1>6. CASE Connect \/ Test \/ Closed \/ Catch
    BY <1>1, <1>2, <1>6 DEF Connect, Test, Closed, Catch, wsVars, outVars
<1> QED
    BY <1>3, <1>4, <1>5, <1>6, ArriveKeepsOrder, ReadKeepsOrder, HandleKeepsOrder
       DEF Step, Worker, Outside, CloseFails, CloseAnswered

LEMMA PipeAlways == AnyFeed => []PipeInv
<1>1. FeedInit => PipeInv
    BY DEF FeedInit, PipeInv, ArrivedOnce, PublishedPart, CurPart, StreamPart
<1>2. FeedTypeOK /\ FeedTypeOK' /\ WorkerInv /\ PipeInv /\ [Step]_feedVars => PipeInv'
    BY StepKeepsOrder
<1> QED
    BY <1>1, <1>2, FeedIsTypeCorrect, PTL DEF AnyFeed

(* Over any number of reconnections Redis gets the frames in the order the
   exchange sent them, and none twice. *)
THEOREM PublishingKeepsOrder ==
    (Spec => []PublishedInOrder) /\ (Market!Spec => []PublishedInOrder)
<1>1. PipeInv => PublishedInOrder
  <2> SUFFICES ASSUME PipeInv,
                      NEW i \in DOMAIN published, NEW j \in DOMAIN published, i < j
               PROVE  Position(published[i]) < Position(published[j])
    BY DEF PublishedInOrder
  <2>1. PICK a \in DOMAIN arrived, b \in DOMAIN arrived :
           a < b /\ arrived[a] = published[i] /\ arrived[b] = published[j]
    BY DEF PipeInv, PublishedPart, Before
  <2>2. \A c \in DOMAIN arrived : Position(arrived[c]) = c
    BY DEF PipeInv, ArrivedOnce, Position
  <2>3. Position(arrived[a]) = a /\ Position(arrived[b]) = b
    BY <2>2
  <2> QED
    BY <2>1, <2>3
<1>2. AnyFeed => []PublishedInOrder
    BY <1>1, PipeAlways, PTL
<1>3. Spec => []PublishedInOrder
    BY <1>2, ProgramsAreFeeds, PTL
<1>4. Market!Spec => []PublishedInOrder
    BY <1>2, ProgramsAreFeeds, PTL
<1> QED
    BY <1>3, <1>4

-----------------------------------------------------------------------------
(* The losses.                                                              *)

(* While the WebSocket and Redis hold, market data leaves the stream only for
   the handler and the handler only for Redis. *)
THEOREM FeedIsLossless == (Spec => Lossless) /\ (Market!Spec => Lossless)
<1> DEFINE Held(f) == f \in Elements(stream) \cup {cur}
           Kept(f) == f \in Elements(stream') \cup {cur'} \cup Elements(published')
<1>1. ASSUME FeedTypeOK, WorkerInv, [Step]_feedVars, NEW f \in Good,
             Held(f), ws' = "open", ctx = "ok"
      PROVE  Kept(f)
  <2>t. /\ stream \in Seq(Frames)
        /\ published \in Seq(Good)
        /\ f # None
    BY <1>1, FeedAssumption DEF FeedTypeOK, Frames
  <2>1. ASSUME UNCHANGED <<stream, cur>>
        PROVE  Kept(f)
    BY <1>1, <2>1
  <2>2. ASSUME NEW a \in Frames, Arrive(a)
        PROVE  Kept(f)
    <3>1. stream' = Append(stream, a) /\ cur' = cur
      BY <2>2 DEF Arrive
    <3>2. Elements(stream') = Elements(stream) \cup {a}
      BY <3>1, <2>t, OrderOfAppend
    <3> QED
      BY <1>1, <3>1, <3>2
  <2>3. CASE Connect
    <3>1. stream = <<>> /\ cur = None
      BY <1>1, <2>3 DEF Connect, Alive, WorkerInv
    <3> QED
      BY <1>1, <3>1, <2>t DEF Elements
  <2>4. CASE Read
    <3>1. /\ cur = None /\ stream # <<>> /\ stream' = Tail(stream)
          /\ cur' = IF Head(stream) \in Good THEN Head(stream) ELSE cur
      BY <1>1, <2>4 DEF Read, Alive, Unread, WorkerInv
    <3>2. PICK k \in DOMAIN stream : stream[k] = f
      BY <1>1, <3>1, <2>t DEF Elements
    <3>3. CASE k = 1
      <4>1. Head(stream) = f
        BY <3>2, <3>3, <2>t
      <4> QED
        BY <3>1, <4>1
    <3>4. CASE k # 1
      <4>1. k - 1 \in DOMAIN Tail(stream) /\ Tail(stream)[k - 1] = stream[k]
        BY <3>1, <3>4, <2>t
      <4> QED
        BY <4>1, <3>1, <3>2 DEF Elements
    <3> QED
      BY <3>3, <3>4
  <2>5. CASE Handle
    <3>1. /\ published' = Append(published, cur)
          /\ stream' = stream
          /\ cur \in Good
      BY <1>1, <2>5 DEF Handle, Alive, PublishFrame, WorkerInv, wsVars
    <3>2. Elements(published') = Elements(published) \cup {cur}
      BY <3>1, <2>t, OrderOfAppend
    <3> QED
      BY <1>1, <3>1, <3>2
  <2>6. CASE Call \/ UNCHANGED feedVars
    BY <2>1, <2>6 DEF Call, start, stop, Joined, Destroy, wsVars, feedVars
  <2>7. CASE BreakRedis \/ Signal \/ Head_ \/ ConnectFails \/ ReadFails
    BY <2>1, <2>7 DEF BreakRedis, Signal, Head_, ConnectFails, ReadFails, wsVars
  <2>8. CASE Test
    BY <1>1, <2>1, <2>8 DEF Test, wsVars
  <2> QED
    BY <1>1, <2>2, <2>3, <2>4, <2>5, <2>6, <2>7, <2>8
       DEF Step, Worker, Outside, BreakLink, CloseFails, CloseAnswered, Closed, Catch
<1>2. FeedTypeOK /\ WorkerInv /\ [Step]_feedVars =>
         [\A f \in Good :
             /\ f \in Elements(stream) \cup {cur}
             /\ running
             /\ ws' = "open"
             /\ ctx = "ok"
             => f \in Elements(stream') \cup {cur'} \cup Elements(published')]_feedVars
    BY <1>1
<1>3. AnyFeed => Lossless
    BY <1>2, FeedIsTypeCorrect, PTL DEF AnyFeed, Lossless
<1>4. Spec => Lossless
    BY <1>3, ProgramsAreFeeds, PTL
<1>5. Market!Spec => Lossless
    BY <1>3, ProgramsAreFeeds, PTL
<1> QED
    BY <1>4, <1>5

-----------------------------------------------------------------------------
(* The Korean session: a scheduler that trusts time_until_next oversleeps by *)
(* less than a second, at any moment and however its clock ticks.            *)

\* The boundary a minute of the day sees next, written out.
Following(m) ==
    IF m < 510 THEN 510 ELSE IF m < 540 THEN 540 ELSE IF m < 920 THEN 920
    ELSE IF m < 930 THEN 930 ELSE IF m < 940 THEN 940
    ELSE IF m < 1080 THEN 1080 ELSE 1950

(* NextBoundary (the loop over `boundaries` in krx_session.cpp:57-64) finds the
   smallest later boundary. *)
LEMMA NextBoundaryIs ==
    ASSUME NEW m \in Int
    PROVE  NextBoundary(m) = Following(m)
<1>1. boundaries = {510, 540, 920, 930, 940, 1080}
    BY SMT DEF boundaries, Hm
<1>2. CASE m < 1080
    <2>1. Following(m) \in boundaries /\ Following(m) > m
        BY SMT, <1>1, <1>2 DEF Following
    <2>2. \A c \in boundaries : c > m => Following(m) <= c
        BY SMT, <1>1, <1>2 DEF Following
    <2>3. \A b \in boundaries :
              b > m /\ (\A c \in boundaries : c > m => b <= c)
                  => b = Following(m)
        BY SMT, <1>1, <2>1, <2>2
    <2>4. NextBoundary(m) = CHOOSE b \in boundaries :
              b > m /\ \A c \in boundaries : c > m => b <= c
        BY <2>1 DEF NextBoundary
    <2> QED
        BY <2>1, <2>2, <2>3, <2>4
<1>3. CASE m >= 1080
    <2>1. ~ \E b \in boundaries : b > m
        BY SMT, <1>1, <1>3
    <2>2. NextBoundary(m) = 24 * 60 + Hm(8, 30)
        BY <2>1 DEF NextBoundary
    <2> QED
        BY SMT, <1>3, <2>2 DEF Hm, Following
<1> QED
    BY SMT, <1>2, <1>3

(* Within the minutes up to the next boundary the session of a market day is
   the same, and so is "Closed" from 18:00 over midnight to 08:30. *)
LEMMA SessionLasts ==
    ASSUME NEW m \in Int, NEW n \in Int, m < 1440, n < 1440, 0 <= n
    PROVE  /\ m <= n /\ n < Following(m) => Session(n) = Session(m)
           /\ 1440 + n < Following(m) => /\ Session(m) = "Closed"
                                         /\ Session(n) = "Closed"
BY SMT DEF Session, Following, Hm

LEMMA DivModDay ==
    ASSUME NEW t \in Int
    PROVE  /\ t = 86400 * (t \div 86400) + (t % 86400)
           /\ t \div 86400 \in Int
           /\ t % 86400 \in Int /\ 0 <= t % 86400 /\ t % 86400 < 86400
BY SMT

LEMMA DivModMinute ==
    ASSUME NEW t \in Int
    PROVE  /\ t = 60 * (t \div 60) + (t % 60)
           /\ t \div 60 \in Int
           /\ t % 60 \in Int /\ 0 <= t % 60 /\ t % 60 < 60
BY SMT

LEMMA SameSecond ==
    ASSUME NEW q \in Int, NEW a \in Int, NEW c \in Int,
           NEW b \in Int, 0 <= b, b < 60, NEW e \in Int, 0 <= e, e < 60,
           86400 * q + (60 * a + b) = 60 * c + e
    PROVE  b = e
BY SMT

\* A moment is a day and a second of that day, and seconds make minutes.
IsMoment(t, q, m, s) ==
    /\ q \in Int /\ m \in Int /\ s \in Int
    /\ 0 <= m /\ m < 1440
    /\ 0 <= s /\ s < 60
    /\ t = 86400 * q + 60 * m + s

LEMMA Moment ==
    ASSUME NEW tick, to_time_t(tick) \in Int
    PROVE  IsMoment(to_time_t(tick), to_time_t(tick) \div Day,
                    minutes_of_day(tick), second(tick))
<1>0. PICK t \in Int : t = to_time_t(tick)
    OBVIOUS
<1>1. PICK q \in Int : q = t \div 86400
    BY DivModDay
<1>2. PICK s \in Int : s = t % 86400
    BY DivModDay
<1>3. t = 86400 * q + s /\ 0 <= s /\ s < 86400
    BY <1>1, <1>2, DivModDay
<1>4. PICK m \in Int : m = s \div 60
    BY DivModMinute
<1>5. PICK b \in Int : b = s % 60
    BY DivModMinute
<1>6. s = 60 * m + b /\ 0 <= b /\ b < 60
    BY <1>4, <1>5, DivModMinute
<1>7. PICK c \in Int : c = t \div 60
    BY DivModMinute
<1>8. PICK e \in Int : e = t % 60
    BY DivModMinute
<1>9. t = 60 * c + e /\ 0 <= e /\ e < 60
    BY <1>7, <1>8, DivModMinute
<1>10. 86400 * q + (60 * m + b) = 60 * c + e
    BY <1>3, <1>6, <1>9
<1>11. b = e
    BY <1>6, <1>9, <1>10, SameSecond
<1>12. minutes_of_day(tick) = m /\ second(tick) = e /\ t \div Day = q
    BY <1>0, <1>1, <1>2, <1>4, <1>8 DEF minutes_of_day, second, Day
<1>13. IsMoment(t, q, m, e)
    BY SMT, <1>3, <1>6, <1>9, <1>11 DEF IsMoment
<1> QED
    BY <1>0, <1>12, <1>13

(* Arithmetic of two moments in the same sleep: they are in the same day, or
   the sleep goes over midnight. *)
LEMMA SameSleep ==
    ASSUME NEW t \in Int, NEW q, NEW m, NEW s, IsMoment(t, q, m, s),
           NEW u \in Int, NEW x, NEW n, NEW z, IsMoment(u, x, n, z),
           t <= u, u < t + ((Following(m) - m) * 60 - s)
    PROVE  \/ x = q /\ m <= n /\ n < Following(m)
           \/ x = q + 1 /\ 1440 + n < Following(m)
<1>1. PICK f \in Int : f = Following(m) /\ f <= 1950
    BY SMT DEF Following
<1>2. u < 86400 * q + 60 * f
    BY SMT, <1>1 DEF IsMoment
<1>3. x = q \/ x = q + 1
    BY SMT, <1>1, <1>2 DEF IsMoment
<1> QED
    BY SMT, <1>1, <1>2, <1>3 DEF IsMoment

\* The whole seconds that a sleep from t lasts.
SleepSeconds(t) ==
    (NextBoundary(minutes_of_day(t)) - minutes_of_day(t)) * 60 - second(t)

(* The heart of it: between the whole seconds of two moments less than a sleep
   apart the state does not change. *)
LEMMA StateLasts ==
    ASSUME NEW t, NEW u, to_time_t(t) \in Int, to_time_t(u) \in Int,
           to_time_t(t) <= to_time_t(u),
           to_time_t(u) < to_time_t(t) + SleepSeconds(t)
    PROVE  state_at(u) = state_at(t)
<1> DEFINE q == to_time_t(t) \div Day
           m == minutes_of_day(t)
           x == to_time_t(u) \div Day
           n == minutes_of_day(u)
<1>1. IsMoment(to_time_t(t), q, m, second(t)) /\ IsMoment(to_time_t(u), x, n, second(u))
    BY Moment
<1>2. m \in Int /\ n \in Int /\ m < 1440 /\ n < 1440 /\ 0 <= n
    BY <1>1 DEF IsMoment
<1>3. SleepSeconds(t) = (Following(m) - m) * 60 - second(t)
    BY <1>2, NextBoundaryIs DEF SleepSeconds
<1>4. \/ x = q /\ m <= n /\ n < Following(m)
      \/ x = q + 1 /\ 1440 + n < Following(m)
    <2> HIDE DEF q, m, x, n
    <2> QED BY <1>1, <1>3, SameSleep
<1>5. CASE x = q /\ m <= n /\ n < Following(m)
    <2>1. Session(n) = Session(m)
        BY <1>2, <1>5, SessionLasts
    <2> QED
        BY <1>5, <2>1 DEF state_at, is_market_day, wday
<1>6. CASE x = q + 1 /\ 1440 + n < Following(m)
    <2>1. Session(m) = "Closed" /\ Session(n) = "Closed"
        BY <1>2, <1>6, SessionLasts
    <2> QED
        BY <2>1 DEF state_at
<1> QED
    BY <1>4, <1>5, <1>6

(* The sleep is never empty. *)
LEMMA SleepIsPositive ==
    ASSUME NEW t, to_time_t(t) \in Int
    PROVE  SleepSeconds(t) \in Int /\ 0 < SleepSeconds(t)
<1>1. IsMoment(to_time_t(t), to_time_t(t) \div Day, minutes_of_day(t), second(t))
    BY Moment
<1>2. PICK m \in Int : m = minutes_of_day(t) /\ m < 1440
    BY <1>1 DEF IsMoment
<1>3. PICK s \in Int : s = second(t) /\ s < 60
    BY <1>1 DEF IsMoment
<1>4. SleepSeconds(t) = (Following(m) - m) * 60 - s
    BY <1>2, <1>3, NextBoundaryIs DEF SleepSeconds
<1>5. Following(m) \in Int /\ m < Following(m)
    BY SMT, <1>2 DEF Following
<1> QED
    BY SMT, <1>3, <1>4, <1>5

(* Whole seconds in ticks. *)
LEMMA WholeSeconds ==
    ASSUME NEW t \in Int
    PROVE  /\ to_time_t(t) \in Int
           /\ PerSecond * to_time_t(t) <= t
           /\ t < PerSecond * to_time_t(t) + PerSecond
BY SMT, ClockAssumption DEF to_time_t

LEMMA MoreSeconds ==
    ASSUME NEW a \in Int, NEW b \in Int, a < b
    PROVE  PerSecond * a + PerSecond <= PerSecond * b
BY SMT, ClockAssumption

-----------------------------------------------------------------------------
(* The scheduler.                                                           *)

\* The state noted is the one of every moment up to the end of the sleep, or of
\* one less than a second before it.
NotedLasts ==
    /\ clock \in Int
    /\ wake \in Int
    /\ clock < wake
    /\ \A u \in Int : clock <= u /\ u < wake =>
          \E late \in 0 .. PerSecond - 1 : state_at(u - late) = noted

LEMMA LookingLasts ==
    ASSUME NEW t \in Int
    PROVE  /\ t + time_until_next(t) \in Int
           /\ t < t + time_until_next(t)
           /\ \A u \in Int : t <= u /\ u < t + time_until_next(t) =>
                 \E late \in 0 .. PerSecond - 1 : state_at(u - late) = state_at(t)
<1>1. PICK P \in Int : P = PerSecond /\ 0 < P
    BY ClockAssumption
<1>2. PICK T \in Int : T = to_time_t(t) /\ P * T <= t /\ t < P * T + P
    BY <1>1, WholeSeconds
<1>3. PICK S \in Int : S = SleepSeconds(t) /\ 0 < S
    BY <1>2, SleepIsPositive
<1>4. PICK E \in Int : E = P * (T + S)
    BY <1>1, <1>2, <1>3
<1>5. P * T + P <= E
    BY <1>1, <1>2, <1>3, <1>4, MoreSeconds
<1>6. time_until_next(t) = E - P * T
    <2>1. time_until_next(t) = S * P
        BY <1>1, <1>3 DEF time_until_next, SleepSeconds
    <2>2. S * P = P * (T + S) - P * T
        BY SMT, <1>1, <1>2, <1>3
    <2>3. QED
        BY <1>4, <2>1, <2>2
<1>7. PICK D \in Int : D = P * T
    BY <1>1, <1>2
<1>8. time_until_next(t) = E - D /\ D <= t /\ t < D + P /\ D + P <= E
    BY <1>2, <1>5, <1>6, <1>7
<1>9. t + time_until_next(t) \in Int /\ t < t + time_until_next(t)
    BY <1>1, <1>4, <1>7, <1>8
<1>10. ASSUME NEW u \in Int, t <= u, u < t + time_until_next(t)
       PROVE  \E late \in 0 .. PerSecond - 1 : state_at(u - late) = state_at(t)
    <2>1. ASSUME NEW v \in Int, t <= v, v < E PROVE state_at(v) = state_at(t)
        <3>1. PICK V \in Int : V = to_time_t(v) /\ P * V <= v /\ v < P * V + P
            BY <1>1, WholeSeconds
        <3>2. T <= V
            <4>1. V < T => P * V + P <= P * T
                BY <1>1, MoreSeconds
            <4>2. QED
                BY <1>1, <1>2, <1>7, <1>8, <2>1, <3>1, <4>1
        <3>3. V < T + S
            <4>1. T + S < V => P * (T + S) + P <= P * V
                BY <1>1, <1>2, <1>3, MoreSeconds
            <4>2. P * V \in Int
                BY <1>1
            <4>3. V # T + S
                BY <1>4, <2>1, <3>1, <4>2
            <4>4. ~ (T + S < V)
                BY <1>1, <1>4, <2>1, <3>1, <4>1, <4>2
            <4>5. QED
                BY <1>2, <1>3, <3>1, <4>3, <4>4
        <3>4. QED
            BY <1>2, <1>3, <3>1, <3>2, <3>3, StateLasts
    <2>2. CASE u < E
        <3>1. 0 \in 0 .. PerSecond - 1 /\ u - 0 = u
            BY <1>1
        <3>2. QED
            BY <1>10, <2>1, <2>2, <3>1
    <2>3. CASE u >= E
        <3>1. PICK late \in Int : late = u - E + 1
            BY <1>4
        <3>2. late \in 0 .. PerSecond - 1
            BY <1>1, <1>4, <1>7, <1>8, <1>10, <2>3, <3>1
        <3>3. u - late \in Int /\ t <= u - late /\ u - late < E
            BY <1>1, <1>4, <1>7, <1>8, <3>1
        <3>4. QED
            BY <2>1, <3>2, <3>3
    <2>4. QED
        BY <1>4, <2>2, <2>3
<1> QED
    BY <1>9, <1>10

(* Whatever the resolution of the clock, however it ticks and whenever the
   scheduler was started, while it sleeps for time_until_next the session is in the
   state it noted or was so less than a second ago. *)
THEOREM OversleepsByLessThanASecond == SleeperSpec => []NotedIsCurrent
<1>1. SleeperInit => NotedLasts
    <2> SUFFICES ASSUME SleeperInit
                 PROVE  NotedLasts
        OBVIOUS
    <2>1. clock \in Int
        <3>1. PICK b \in Int : b = 2 * Day * PerSecond
            BY SMT, ClockAssumption DEF Day
        <3>2. 0 .. b \subseteq Int
            BY SMT
        <3> QED
            BY <3>1, <3>2 DEF SleeperInit
    <2> QED
        BY <2>1, LookingLasts DEF SleeperInit, NotedLasts
<1>2. NotedLasts /\ [SleeperNext]_sleeperVars => NotedLasts'
    <2> SUFFICES ASSUME NotedLasts, [SleeperNext]_sleeperVars
                 PROVE  NotedLasts'
        OBVIOUS
    <2>1. CASE Sleep
        <3>1. clock' \in Int /\ clock <= clock' /\ clock' < wake'
            BY SMT, <2>1, SleeperAssumption, ClockAssumption DEF Sleep, NotedLasts
        <3>2. \A u \in Int : clock' <= u => clock <= u
            BY SMT, <3>1 DEF NotedLasts
        <3> QED
            BY <2>1, <3>1, <3>2 DEF Sleep, NotedLasts
    <2>2. CASE WakeOnTime
        <3>1. wake \in Int
            BY DEF NotedLasts
        <3> QED
            BY <2>2, <3>1, LookingLasts DEF WakeOnTime, Note, NotedLasts
    <2>3. CASE UNCHANGED sleeperVars
        BY <2>3 DEF sleeperVars, NotedLasts
    <2> QED
        BY <2>1, <2>2, <2>3 DEF SleeperNext
<1>3. NotedLasts => NotedIsCurrent
    <2>1. NotedLasts => /\ clock < wake
                        /\ \E late \in 0 .. PerSecond - 1 : state_at(clock - late) = noted
        BY SMT DEF NotedLasts
    <2> QED
        BY <2>1 DEF NotedIsCurrent
<1> QED
    BY <1>1, <1>2, <1>3, PTL DEF SleeperSpec
=============================================================================
