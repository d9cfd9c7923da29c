---------------------------- MODULE StreamProofs ----------------------------
(***************************************************************************)
(* The hub of the gateway, and the matcher and Redis before it.            *)
(*                                                                         *)
(* The first part speaks of the hub alone.  It never sends on a closed     *)
(* channel, for any connections, channels, buffer size and number of       *)
(* messages.  What detach closes deliver cannot be about to send to: while *)
(* deliver reads nobody detaches, and what it reads from is a map that     *)
(* holds only connections that are still open.  And a connection gets all  *)
(* of its channel, but for what found its buffer full of earlier messages. *)
(*                                                                         *)
(* The second part: what is proved of the hub and of the matcher by        *)
(* themselves holds of the two together: a step of BookStream is one of    *)
(* the hub's or leaves it alone, and is one of the matcher's, or another   *)
(* program's, or leaves the matcher alone.  Between the two, what Redis    *)
(* has taken is on its way, lost, or received in order.                    *)
(***************************************************************************)
EXTENDS BookStream, FiniteSetTheorems, SequenceTheorems, TLAPS

Live == {"greet", "select", "write", "return"}

\* The map holds a connection under its own topic only, while it is live.
SubsAreLive ==
    \A ch \in DOMAIN subs : \A c \in subs[ch] :
        c \in Conns /\ hpc[c] \in Live /\ topic[c] = ch

\* Whom deliver has still to serve is live; outside deliver there is nobody.
TodoIsLive ==
    /\ \A c \in todo : c \in Conns /\ hpc[c] \in Live
    /\ gpc # "deliver" => todo = {}

\* A channel is closed when its request ends, and at no other time.
ClosedHasEnded == \A c \in closed : c \in Conns /\ hpc[c] = "end"

HubInv ==
    /\ hpc \in [Conns -> Live \cup {"none", "end"}]
    /\ topic \in [Conns -> Channels \cup {Nobody}]
    /\ SubsAreLive
    /\ TodoIsLive
    /\ ClosedHasEnded
    /\ ~panicked

\* At the start nobody is attached and nothing is closed.
LEMMA HubInit == Init => HubInv
BY DEF Init, HubInv, SubsAreLive, TodoIsLive, ClosedHasEnded, Live

\* A request goes on within its life: nothing the invariant says can change.
LEMMA LiveSteps ==
    ASSUME HubInv, NEW c \in Conns, hpc[c] \in Live, NEW p \in Live,
           hpc' = [hpc EXCEPT ![c] = p],
           UNCHANGED <<gpc, todo, subs, closed, topic, panicked>>
    PROVE  HubInv'
BY DEF HubInv, SubsAreLive, TodoIsLive, ClosedHasEnded, Live

\* attach, hub.go:96: a live connection is entered under its own topic.
LEMMA AttachStep ==
    ASSUME HubInv, NEW c \in Conns, NEW ch \in Channels, attach(c, ch)
    PROVE  HubInv'
<1>1. hpc' \in [Conns -> Live \cup {"none", "end"}]
      /\ topic' \in [Conns -> Channels \cup {Nobody}]
  BY DEF HubInv, attach, Live
<1>2. SubsAreLive'
  <2> SUFFICES ASSUME NEW x \in DOMAIN subs', NEW d \in subs'[x]
               PROVE  d \in Conns /\ hpc'[d] \in Live /\ topic'[d] = x
    BY DEF SubsAreLive
  <2>1. CASE d = c
    <3>1. x = ch
      <4> SUFFICES ASSUME x # ch PROVE FALSE
        OBVIOUS
      <4>1. x \in DOMAIN subs /\ c \in subs[x]
        BY <2>1 DEF attach
      <4> QED
        BY <4>1 DEF HubInv, SubsAreLive, attach, Live
    <3> QED
      BY <2>1, <3>1 DEF HubInv, attach, Live
  <2>2. CASE d # c
    <3>1. x \in DOMAIN subs /\ d \in subs[x]
      BY <2>2 DEF attach, Subs
    <3> QED
      BY <2>2, <3>1 DEF HubInv, SubsAreLive, attach, Live
  <2> QED
    BY <2>1, <2>2
<1>3. TodoIsLive' /\ ClosedHasEnded' /\ ~panicked'
  BY DEF HubInv, TodoIsLive, ClosedHasEnded, attach, subVars, Live
<1> QED
  BY <1>1, <1>2, <1>3 DEF HubInv

\* detach, hub.go:109: the connection leaves the map before it is closed.
LEMMA DetachStep ==
    ASSUME HubInv, NEW c \in Conns, detach(c)
    PROVE  HubInv'
<1>1. hpc' \in [Conns -> Live \cup {"none", "end"}]
      /\ topic' \in [Conns -> Channels \cup {Nobody}]
  BY DEF HubInv, detach, Live
<1>2. SubsAreLive'
  <2> SUFFICES ASSUME NEW x \in DOMAIN subs', NEW d \in subs'[x]
               PROVE  d \in Conns /\ hpc'[d] \in Live /\ topic'[d] = x
    BY DEF SubsAreLive
  <2>1. x \in DOMAIN subs /\ d \in subs[x] /\ d # c
    BY DEF HubInv, SubsAreLive, detach, Without, Subs
  <2> QED
    BY <2>1 DEF HubInv, SubsAreLive, detach, Live
<1>3. TodoIsLive' /\ ClosedHasEnded' /\ ~panicked'
  BY DEF HubInv, TodoIsLive, ClosedHasEnded, detach, Unread, subVars, Live
<1> QED
  BY <1>1, <1>2, <1>3 DEF HubInv

\* deliver, hub.go:124: what it holds of the map stays live until it lets go.
LEMMA DeliverStep == ASSUME HubInv, deliver PROVE HubInv'
<1>1. CASE RLock
  <2>1. \A d \in Subs(Last(log)) : d \in Conns /\ hpc[d] \in Live
    BY DEF HubInv, SubsAreLive, Subs
  <2> QED
    BY <1>1, <2>1 DEF RLock, HubInv, SubsAreLive, TodoIsLive, ClosedHasEnded,
                      hubVars, connVars
<1>2. ASSUME NEW c \in Conns, Send(c) PROVE HubInv'
  <2>1. c \notin closed
    BY <1>2 DEF Send, HubInv, TodoIsLive, ClosedHasEnded, Live
  <2> QED
    BY <1>2, <2>1 DEF Send, HubInv, SubsAreLive, TodoIsLive, ClosedHasEnded,
                      hubVars, connVars
<1>3. CASE RUnlock
  BY <1>3 DEF RUnlock, HubInv, SubsAreLive, TodoIsLive, ClosedHasEnded,
              hubVars, connVars
<1> QED
  BY <1>1, <1>2, <1>3 DEF deliver

\* A request of bridge.go, at each of its points.
LEMMA RequestStep ==
    ASSUME HubInv, NEW c \in Conns, sseBridge(c) \/ Disconnect(c)
    PROVE  HubInv'
<1>1. CASE Refuse(c)
  BY <1>1 DEF Refuse, HubInv, SubsAreLive, TodoIsLive, ClosedHasEnded, Live,
              subVars, hubVars
<1>2. ASSUME NEW ch \in Channels, attach(c, ch) PROVE HubInv'
  BY <1>2, AttachStep
<1>3. CASE Greet(c)
  BY <1>3, LiveSteps DEF Greet, Live, subVars, hubVars
<1>4. CASE Take(c)
  BY <1>4, LiveSteps DEF Take, Live, subVars, hubVars
<1>5. CASE Write(c)
  BY <1>5, LiveSteps DEF Write, Live, subVars, hubVars
<1>6. CASE Done(c)
  BY <1>6, LiveSteps DEF Done, Live, subVars, hubVars
<1>7. CASE detach(c)
  BY <1>7, DetachStep
<1>8. CASE Disconnect(c)
  BY <1>8 DEF Disconnect, HubInv, SubsAreLive, TodoIsLive, ClosedHasEnded,
              subVars, hubVars
<1> QED
  BY <1>1, <1>2, <1>3, <1>4, <1>5, <1>6, <1>7, <1>8 DEF sseBridge

\* Every step of the gateway keeps the invariant.
LEMMA HubStep == HubInv /\ [Next]_vars => HubInv'
<1> SUFFICES ASSUME HubInv, [Next]_vars PROVE HubInv'
  OBVIOUS
<1>1. ASSUME NEW ch \in Channels, Receive(ch) PROVE HubInv'
  BY <1>1 DEF Receive, HubInv, SubsAreLive, TodoIsLive, ClosedHasEnded,
              hubVars, connVars
<1>2. CASE deliver
  BY <1>2, DeliverStep
<1>3. ASSUME NEW c \in Conns, sseBridge(c) \/ Disconnect(c) PROVE HubInv'
  BY <1>3, RequestStep
<1>4. CASE UNCHANGED vars
  BY <1>4 DEF vars, subVars, hubVars, connVars, HubInv, SubsAreLive, TodoIsLive,
              ClosedHasEnded
<1> QED
  BY <1>1, <1>2, <1>3, <1>4 DEF Next

(* The two locks of the hub are enough: whoever comes and goes while messages
   are delivered, no send meets a closed channel. *)
THEOREM HubNeverPanics == Spec => []NeverPanics
<1>1. HubInv => NeverPanics
  BY DEF HubInv, NeverPanics
<1> QED
  BY HubInit, HubStep, <1>1, PTL DEF Spec
-----------------------------------------------------------------------------
(* What a connection gets.                                                  *)

\* What DropsOnlyForSlowConsumers says of the messages g a connection has got
\* out of those that were offered to it.
Fits(g, offered) ==
    /\ \A i, j \in DOMAIN g : i < j => g[i] < g[j]
    /\ ToSet(g) \subseteq offered
    /\ \A m \in offered \ ToSet(g) : Cardinality({k \in ToSet(g) : k < m}) >= Cap

\* Sequences: what stands in the second part stands in the whole.
LEMMA ConcatIsLonger ==
    ASSUME NEW s \in Seq(Nat), NEW t \in Seq(Nat), NEW u \in Seq(Nat)
    PROVE  Len(s \o t \o u) >= Len(u)
<1>1. /\ s \o t \in Seq(Nat)
      /\ Len(s \o t \o u) = Len(s \o t) + Len(u)
  BY ConcatProperties
<1>2. Len(s \o t) \in Nat /\ Len(u) \in Nat
  BY <1>1, LenProperties
<1> QED
  BY <1>1, <1>2

\* Sequences: to append to the second part is to append to the whole.
LEMMA AppendToSecond ==
    ASSUME NEW s \in Seq(Nat), NEW u \in Seq(Nat), NEW n \in Nat
    PROVE  s \o Append(u, n) = Append(s \o u, n)
<1>1. s \o u \in Seq(Nat) /\ <<n>> \in Seq(Nat)
  BY ConcatProperties
<1>2. Append(u, n) = u \o <<n>> /\ Append(s \o u, n) = (s \o u) \o <<n>>
  BY <1>1, AppendIsConcat
<1>3. (s \o u) \o <<n>> = s \o (u \o <<n>>)
  BY <1>1, ConcatAssociative
<1> QED
  BY <1>2, <1>3

\* Sequences: the same of three parts: browser, hand and buffer.
LEMMA AppendToConcat ==
    ASSUME NEW s \in Seq(Nat), NEW t \in Seq(Nat), NEW u \in Seq(Nat), NEW n \in Nat
    PROVE  s \o t \o Append(u, n) = Append(s \o t \o u, n)
<1> DEFINE st == s \o t
<1>1. st \in Seq(Nat)
  BY ConcatProperties
<1> HIDE DEF st
<1>2. st \o Append(u, n) = Append(st \o u, n)
  BY <1>1, AppendToSecond
<1> QED
  BY <1>2 DEF st

\* A sequence has finitely many elements.
LEMMA FiniteRange ==
    ASSUME NEW g \in Seq(Nat)
    PROVE  IsFiniteSet(ToSet(g))
<1> DEFINE f == [i \in 1 .. Len(g) |-> g[i]]
<1>1. f \in Surjection(1 .. Len(g), ToSet(g))
  BY LenProperties DEF Surjection, ToSet
<1>2. IsFiniteSet(1 .. Len(g))
  BY FS_Interval, LenProperties
<1> QED
  BY <1>1, <1>2, FS_Surjection

\* Who was offered nothing and got nothing misses nothing.
LEMMA FitsNothing == Fits(<<>>, {})
BY DEF Fits, ToSet

\* A message is appended: the connection had room.
LEMMA FitsAppend ==
    ASSUME NEW g \in Seq(Nat), NEW offered \in SUBSET Nat, NEW n \in Nat,
           \A m \in offered : m < n, Fits(g, offered)
    PROVE  Fits(Append(g, n), offered \cup {n})
<1> DEFINE h == Append(g, n)
<1>1. /\ DOMAIN g = 1 .. Len(g) /\ DOMAIN h = 1 .. Len(g) + 1 /\ Len(g) \in Nat
      /\ \A i \in 1 .. Len(g) : h[i] = g[i]
      /\ h[Len(g) + 1] = n
  BY AppendProperties, LenProperties
<1>2. ToSet(h) = ToSet(g) \cup {n}
  <2>1. \A i \in 1 .. Len(g) + 1 : i \in 1 .. Len(g) \/ i = Len(g) + 1
    BY <1>1
  <2> QED
    BY <1>1, <2>1 DEF ToSet
<1>3. \A i \in 1 .. Len(g) : g[i] \in Nat /\ g[i] < n
  BY <1>1 DEF Fits, ToSet
<1>4. \A i, j \in DOMAIN h : i < j => h[i] < h[j]
  <2> SUFFICES ASSUME NEW i \in 1 .. Len(g) + 1, NEW j \in 1 .. Len(g) + 1, i < j
               PROVE  h[i] < h[j]
    BY <1>1
  <2>1. i \in 1 .. Len(g)
    BY <1>1
  <2>2. CASE j = Len(g) + 1
    BY <1>1, <1>3, <2>1, <2>2
  <2>3. CASE j \in 1 .. Len(g)
    BY <1>1, <2>1, <2>3 DEF Fits
  <2> QED
    BY <1>1, <2>2, <2>3
<1>5. ASSUME NEW m \in (offered \cup {n}) \ ToSet(h)
      PROVE  Cardinality({k \in ToSet(h) : k < m}) >= Cap
  <2>1. m \in offered \ ToSet(g) /\ m < n
    BY <1>2, <1>5
  <2>2. {k \in ToSet(h) : k < m} = {k \in ToSet(g) : k < m}
    BY <1>2, <2>1
  <2> QED
    BY <2>1, <2>2 DEF Fits
<1> QED
  BY <1>2, <1>4, <1>5 DEF Fits

\* A message is dropped: as many as the buffer holds are there.
LEMMA FitsDrop ==
    ASSUME NEW g \in Seq(Nat), NEW offered \in SUBSET Nat, NEW n \in Nat,
           \A m \in offered : m < n, Fits(g, offered), Len(g) >= Cap
    PROVE  Fits(g, offered \cup {n})
<1> SUFFICES Cardinality({k \in ToSet(g) : k < n}) >= Cap
  BY DEF Fits
<1> DEFINE S == {k \in ToSet(g) : k < n}
           f == [i \in 1 .. Cap |-> g[i]]
<1>1. Len(g) \in Nat /\ DOMAIN g = 1 .. Len(g) /\ Cap \in Nat
  BY LenProperties, HubAssumption
<1>2. \A i \in 1 .. Cap : i \in DOMAIN g /\ g[i] \in S /\ g[i] \in Nat
  BY <1>1 DEF Fits, ToSet
<1>3. \A i, j \in 1 .. Cap : g[i] = g[j] => i = j
  <2> SUFFICES ASSUME NEW i \in 1 .. Cap, NEW j \in 1 .. Cap, i < j
               PROVE  g[i] # g[j]
    BY <1>1
  <2> QED
    BY <1>2 DEF Fits
<1>4. f \in Injection(1 .. Cap, S)
  BY <1>2, <1>3 DEF Injection, IsInjective
<1>5. IsFiniteSet(S)
  BY FiniteRange, FS_Subset
<1>6. Cardinality(1 .. Cap) = Cap
  BY <1>1, FS_Interval
<1>7. Cardinality(1 .. Cap) <= Cardinality(S)
  BY <1>4, <1>5, FS_Injection
<1>8. Cardinality(S) \in Nat
  BY <1>5, FS_CardinalityType
<1> QED
  BY <1>1, <1>6, <1>7, <1>8
Served(c) == hpc[c] \in {"greet", "select", "write"}

\* A live connection is in the map; deliver serves those of its topic.
Registered ==
    \A c \in Conns : hpc[c] \in Live =>
        topic[c] \in DOMAIN subs /\ c \in subs[topic[c]]

TodoIsMeant == \A c \in todo : topic[c] = Last(log)

\* A connection that is not attached has got nothing, and only one that writes
\* has something in its hand.
HandsAreEmpty ==
    \A c \in Conns : /\ hpc[c] # "write" => hand[c] = <<>>
                     /\ hpc[c] = "none" => chan[c] = <<>> /\ written[c] = <<>>

BufferTypes ==
    /\ log \in Seq(Channels)
    /\ gpc \in {"range", "rlock", "deliver"}
    /\ gpc # "range" => log # <<>>
    /\ since \in [Conns -> Nat]
    /\ chan \in [Conns -> Seq(Nat)]
    /\ hand \in [Conns -> Seq(Nat)]
    /\ written \in [Conns -> Seq(Nat)]

\* Who is served in a delivery was attached before it began.
AttachedBefore == /\ \A c \in Conns : since[c] <= Begun
                  /\ \A c \in todo : since[c] < Len(log)

AllFit == \A c \in Conns : Served(c) => Fits(Got(c), Offered(c))

DropInv == /\ HubInv
           /\ BufferTypes
           /\ Registered
           /\ TodoIsMeant
           /\ HandsAreEmpty
           /\ AttachedBefore
           /\ AllFit

\* What a connection got is a sequence of message numbers.
LEMMA GotIsSeq ==
    ASSUME BufferTypes, NEW c \in Conns
    PROVE  Got(c) \in Seq(Nat)
BY ConcatProperties DEF BufferTypes, Got

\* What a connection was offered are message numbers.
LEMMA BegunIsNat ==
    ASSUME BufferTypes
    PROVE  /\ Begun \in Nat /\ Len(log) \in Nat
           /\ \A c \in Conns : Offered(c) \in SUBSET Nat
<1>1. Len(log) \in Nat /\ (log # <<>> => Len(log) > 0)
  BY EmptySeq, LenProperties DEF BufferTypes
<1>2. Begun \in Nat
  BY <1>1 DEF BufferTypes, Begun
<1> QED
  BY <1>1, <1>2 DEF Offered, BufferTypes

\* At the start nothing was received, so nothing can be missing.
LEMMA DropInit == Init => DropInv
<1> SUFFICES ASSUME Init PROVE DropInv
  OBVIOUS
<1>1. HubInv
  BY HubInit
<1>2. BufferTypes
  BY EmptySeq DEF Init, BufferTypes
<1>3. Registered /\ TodoIsMeant /\ HandsAreEmpty /\ AllFit /\ AttachedBefore
  BY EmptySeq DEF Init, Registered, TodoIsMeant, HandsAreEmpty, AllFit, Served,
                  Live, AttachedBefore, Begun
<1> QED
  BY <1>1, <1>2, <1>3 DEF DropInv

\* As long as no connection gets or is offered anything, all goes on to fit.
LEMMA AllFitSteps ==
    ASSUME AllFit,
           \A c \in Conns : Served(c)' =>
               Served(c) /\ Got(c)' = Got(c) /\ Offered(c)' = Offered(c)
    PROVE  AllFit'
BY DEF AllFit, Fits

\* A message that arrives has been offered to nobody yet.
LEMMA ReceiveDrop ==
    ASSUME DropInv, NEW ch \in Channels, Receive(ch)
    PROVE  DropInv'
<1>1. HubInv'
  BY HubStep DEF DropInv, HubInv, Next
<1>2. BufferTypes'
  BY AppendProperties DEF DropInv, BufferTypes, Receive, hubVars, connVars
<1>3. Registered' /\ TodoIsMeant' /\ HandsAreEmpty'
  BY DEF DropInv, HubInv, TodoIsLive, Registered, TodoIsMeant, HandsAreEmpty,
         Receive, hubVars, connVars
<1>4. ASSUME NEW c \in Conns PROVE Offered(c)' = Offered(c)
  <2>1. /\ gpc = "range" /\ gpc' = "rlock" /\ todo = {} /\ todo' = {}
        /\ since' = since /\ topic' = topic
    BY DEF DropInv, HubInv, TodoIsLive, Receive, connVars
  <2>2. /\ Len(log) \in Nat /\ Len(log') = Len(log) + 1
        /\ \A i \in 1 .. Len(log) : log'[i] = log[i]
    BY AppendProperties, LenProperties DEF Receive, DropInv, BufferTypes
  <2>3. Begun = Len(log) /\ Begun' = Len(log)
    BY <2>1, <2>2 DEF Begun
  <2>4. since[c] \in Nat
    BY DEF DropInv, BufferTypes
  <2>5. \A m \in since[c] + 1 .. Len(log) : log'[m] = log[m]
    BY <2>2, <2>4
  <2> QED
    BY <2>1, <2>3, <2>5 DEF Offered
<1>5. AllFit'
  BY <1>4, AllFitSteps DEF Served, Got, Receive, connVars, DropInv
<1>6. AttachedBefore'
  <2>1. Len(log) \in Nat /\ Len(log') = Len(log) + 1
    BY AppendProperties, LenProperties DEF Receive, DropInv, BufferTypes
  <2>2. Begun' = Begun
    BY <2>1 DEF Begun, Receive
  <2> QED
    BY <2>2 DEF DropInv, HubInv, TodoIsLive, AttachedBefore, Receive, connVars
<1> QED
  BY <1>1, <1>2, <1>3, <1>5, <1>6 DEF DropInv

\* deliver takes its lock: the message is meant for who is attached now.
LEMMA RLockDrop == ASSUME DropInv, RLock PROVE DropInv'
<1>1. HubInv'
  BY DeliverStep DEF DropInv, deliver
<1>2. BufferTypes'
  BY DEF DropInv, BufferTypes, RLock, hubVars, connVars
<1>3. Registered' /\ HandsAreEmpty'
  BY DEF DropInv, Registered, HandsAreEmpty, RLock, hubVars, connVars
<1>4. TodoIsMeant'
  BY DEF DropInv, HubInv, SubsAreLive, TodoIsMeant, RLock, Subs, hubVars,
         connVars, Last
<1>5. ASSUME NEW c \in Conns, Served(c)' PROVE Offered(c)' = Offered(c)
  <2>1. /\ gpc = "rlock" /\ gpc' = "deliver" /\ todo = {} /\ log' = log
        /\ todo' = Subs(Last(log)) /\ since' = since /\ topic' = topic
        /\ hpc' = hpc
    BY DEF DropInv, HubInv, TodoIsLive, RLock, connVars
  <2>2. log[Len(log)] = topic[c] => c \in todo'
    BY <1>5, <2>1 DEF DropInv, Registered, Served, Live, Subs, Last
  <2>3. Len(log) \in Nat /\ since[c] \in Nat
    BY LenProperties DEF DropInv, BufferTypes
  <2>4. Begun = Len(log) - 1 /\ Begun' = Len(log)
    BY <2>1 DEF Begun
  <2>5. \A m \in Int : m \in since[c] + 1 .. Len(log) =>
           m \in since[c] + 1 .. Len(log) - 1 \/ m = Len(log)
    BY <2>3
  <2>6. \A m \in since[c] + 1 .. Len(log) - 1 :
           m # Len(log) /\ m \in since[c] + 1 .. Len(log)
    BY <2>3
  <2>7. Offered(c) = {m \in since[c] + 1 .. Len(log) - 1 : log[m] = topic[c]}
    BY <2>1, <2>4, <2>6 DEF Offered
  <2>8. Offered(c)' = {m \in since[c] + 1 .. Len(log) :
                          log[m] = topic[c] /\ ~(m = Len(log) /\ c \in todo')}
    BY <2>1, <2>4 DEF Offered
  <2> QED
    BY <2>2, <2>5, <2>6, <2>7, <2>8
<1>6. AllFit'
  BY <1>5, AllFitSteps DEF Served, Got, RLock, connVars, DropInv
<1>7. AttachedBefore'
  <2>1. Len(log) \in Nat /\ \A c \in Conns : since[c] \in Nat
    BY LenProperties DEF DropInv, BufferTypes
  <2>2. Begun = Len(log) - 1 /\ Begun' = Len(log)
    BY DEF Begun, RLock
  <2>3. \A c \in todo' : c \in Conns
    BY <1>1 DEF HubInv, TodoIsLive
  <2>4. \A c \in Conns : since[c] < Len(log)
    BY <2>1, <2>2 DEF DropInv, AttachedBefore
  <2>5. since' = since /\ log' = log
    BY DEF RLock, connVars
  <2> QED
    BY <2>1, <2>2, <2>3, <2>4, <2>5 DEF AttachedBefore
<1> QED
  BY <1>1, <1>2, <1>3, <1>4, <1>6, <1>7 DEF DropInv

\* The message in delivery becomes one that was offered.
LEMMA OfferedBySend ==
    ASSUME DropInv, NEW d \in Conns, Send(d), NEW c \in Conns
    PROVE  /\ c # d => Offered(c)' = Offered(c)
           /\ c = d => /\ Offered(c)' = Offered(c) \cup {Len(log)}
                       /\ \A m \in Offered(c) : m < Len(log)
<1>1. /\ gpc = "deliver" /\ gpc' = gpc /\ log' = log /\ d \in todo
      /\ todo' = todo \ {d} /\ since' = since /\ topic' = topic
  BY DEF Send, connVars
<1>2. Len(log) \in Nat /\ since[c] \in Nat
  BY LenProperties DEF DropInv, BufferTypes
<1>3. Begun = Len(log) /\ Begun' = Len(log)
  BY <1>1 DEF Begun
<1>4. Offered(c) = {m \in since[c] + 1 .. Len(log) :
                       log[m] = topic[c] /\ ~(m = Len(log) /\ c \in todo)}
  BY <1>3 DEF Offered
<1>5. Offered(c)' = {m \in since[c] + 1 .. Len(log) :
                        log[m] = topic[c] /\ ~(m = Len(log) /\ c \in todo')}
  BY <1>1, <1>3 DEF Offered
<1>6. topic[d] = log[Len(log)] /\ since[d] < Len(log)
  BY <1>1 DEF DropInv, TodoIsMeant, AttachedBefore, Last
<1>7. c # d => Offered(c)' = Offered(c)
  BY <1>1, <1>4, <1>5
<1>8. ASSUME c = d
      PROVE  /\ Offered(c)' = Offered(c) \cup {Len(log)}
             /\ \A m \in Offered(c) : m < Len(log)
  <2>1. /\ \A m \in since[c] + 1 .. Len(log) : m \in Nat /\ m <= Len(log)
        /\ Len(log) \in since[c] + 1 .. Len(log)
    BY <1>2, <1>6, <1>8
  <2>2. c \notin todo' /\ c \in todo
    BY <1>1, <1>8
  <2>3. Offered(c)' = Offered(c) \cup {Len(log)}
    BY <1>4, <1>5, <1>6, <1>8, <2>1, <2>2
  <2>4. \A m \in Offered(c) : m < Len(log)
    BY <1>2, <1>4, <2>1, <2>2
  <2> QED
    BY <2>3, <2>4
<1> QED
  BY <1>7, <1>8

\* A send either appends to a buffer with room or drops at a full one.
LEMMA SendDrop ==
    ASSUME DropInv, NEW d \in Conns, Send(d)
    PROVE  DropInv'
<1>1. HubInv'
  BY DeliverStep DEF DropInv, deliver
<1>2. Len(log) \in Nat /\ Cap \in Nat
  BY LenProperties, HubAssumption DEF DropInv, BufferTypes
<1>3. BufferTypes'
  <2>1. chan' \in [Conns -> Seq(Nat)]
    BY <1>2, AppendProperties DEF DropInv, BufferTypes, Send
  <2> QED
    BY <2>1 DEF DropInv, BufferTypes, Send, connVars
<1>4. d \in todo /\ hpc[d] \in Live /\ d \notin closed
  BY DEF Send, DropInv, HubInv, TodoIsLive, ClosedHasEnded, Live
<1>5. Registered' /\ TodoIsMeant' /\ HandsAreEmpty'
  BY <1>4 DEF DropInv, Registered, TodoIsMeant, HandsAreEmpty, Send, hubVars,
              connVars, BufferTypes, Live
<1>6. AttachedBefore'
  BY DEF DropInv, AttachedBefore, Send, connVars, Begun
<1>7. AllFit'
  <2> SUFFICES ASSUME NEW c \in Conns, Served(c)'
               PROVE  Fits(Got(c)', Offered(c)')
    BY DEF AllFit, Fits
  <2>1. Served(c) /\ Fits(Got(c), Offered(c))
    BY DEF DropInv, AllFit, Served, Send, connVars
  <2>2. CASE c # d
    <3>1. Got(c)' = Got(c) /\ Offered(c)' = Offered(c)
      BY <2>2, OfferedBySend DEF Got, Send, connVars, DropInv, BufferTypes
    <3> QED
      BY <2>1, <3>1
  <2>3. CASE c = d
    <3>1. /\ Offered(c)' = Offered(c) \cup {Len(log)}
          /\ \A m \in Offered(c) : m < Len(log)
          /\ Offered(c) \in SUBSET Nat
      BY <2>3, OfferedBySend, BegunIsNat DEF DropInv
    <3>2. /\ written[c] \in Seq(Nat) /\ hand[c] \in Seq(Nat)
          /\ chan[c] \in Seq(Nat) /\ Got(c) \in Seq(Nat)
      BY GotIsSeq DEF DropInv, BufferTypes
    <3>3. CASE Room(d)
      <4>1. chan'[c] = Append(chan[c], Len(log))
        BY <1>4, <2>3, <3>3 DEF Send, DropInv, BufferTypes
      <4>2. Got(c)' = written[c] \o hand[c] \o Append(chan[c], Len(log))
        BY <4>1 DEF Got, Send, connVars
      <4>3. written[c] \o hand[c] \o Append(chan[c], Len(log))
                = Append(written[c] \o hand[c] \o chan[c], Len(log))
        <5>1. PICK w \in Seq(Nat) : w = written[c]
          BY <3>2
        <5>2. PICK h \in Seq(Nat) : h = hand[c]
          BY <3>2
        <5>3. PICK b \in Seq(Nat) : b = chan[c]
          BY <3>2
        <5>4. PICK n \in Nat : n = Len(log)
          BY <1>2
        <5>5. w \o h \o Append(b, n) = Append(w \o h \o b, n)
          BY Zenon, AppendToConcat
        <5> QED
          BY Zenon, <5>1, <5>2, <5>3, <5>4, <5>5
      <4>4. Got(c)' = Append(Got(c), Len(log))
        BY Zenon, <4>2, <4>3 DEF Got
      <4> QED
        BY <1>2, <2>1, <3>1, <3>2, <4>4, FitsAppend
    <3>4. CASE ~Room(d)
      <4>1. Got(c)' = Got(c)
        BY <3>4 DEF Got, Send, connVars
      <4>2. Len(chan[c]) >= Cap
        BY <1>2, <2>3, <3>2, <3>4, LenProperties DEF Room
      <4>3. Len(Got(c)) >= Len(chan[c])
        BY <3>2, ConcatIsLonger DEF Got
      <4>4. Len(Got(c)) >= Cap
        BY <1>2, <3>2, <4>2, <4>3, LenProperties
      <4> QED
        BY <1>2, <2>1, <3>1, <3>2, <4>1, <4>4, FitsDrop
    <3> QED
      BY <3>3, <3>4
  <2> QED
    BY <2>2, <2>3
<1> QED
  BY <1>1, <1>3, <1>5, <1>6, <1>7 DEF DropInv

\* The steps that only move a request on, or its browser away.
LEMMA SameBuffers ==
    ASSUME DropInv, HubInv', Registered',
           UNCHANGED <<subVars, topic, since, chan, hand, written>>,
           \A c \in Conns : /\ Served(c)' => Served(c)
                            /\ hpc'[c] = "none" => hpc[c] = "none"
                            /\ hpc'[c] # "write" => hpc[c] # "write"
    PROVE  DropInv'
<1>1. BufferTypes' /\ TodoIsMeant'
  BY DEF DropInv, BufferTypes, TodoIsMeant, subVars
<1>2. HandsAreEmpty'
  BY DEF DropInv, HandsAreEmpty
<1>3. AttachedBefore'
  BY DEF DropInv, AttachedBefore, Begun, subVars
<1>4. \A c \in Conns : Got(c)' = Got(c) /\ Offered(c)' = Offered(c)
  BY DEF Got, Offered, Begun, subVars
<1>5. AllFit'
  BY <1>4, AllFitSteps DEF DropInv
<1> QED
  BY <1>1, <1>2, <1>3, <1>5 DEF DropInv

\* The requests' steps that touch no buffer.
LEMMA MoveDrop ==
    ASSUME DropInv, NEW c \in Conns,
           Refuse(c) \/ Greet(c) \/ Done(c) \/ Disconnect(c)
    PROVE  DropInv'
<1>1. HubInv'
  BY RequestStep DEF DropInv, sseBridge
<1>2. hpc \in [Conns -> Live \cup {"none", "end"}]
  BY DEF DropInv, HubInv
<1>3. CASE Refuse(c)
  <2>1. Registered'
    BY <1>2, <1>3 DEF DropInv, Registered, Refuse, Live, hubVars
  <2> QED
    BY <1>1, <1>2, <1>3, <2>1, SameBuffers DEF Refuse, Served
<1>4. CASE Greet(c)
  <2>1. Registered'
    BY <1>2, <1>4 DEF DropInv, Registered, Greet, Live, hubVars
  <2> QED
    BY <1>1, <1>2, <1>4, <2>1, SameBuffers DEF Greet, Served
<1>5. CASE Done(c)
  <2>1. Registered'
    BY <1>2, <1>5 DEF DropInv, Registered, Done, Live, hubVars
  <2> QED
    BY <1>1, <1>2, <1>5, <2>1, SameBuffers DEF Done, Served
<1>6. CASE Disconnect(c)
  <2>1. Registered'
    BY <1>6 DEF DropInv, Registered, Disconnect, hubVars
  <2> QED
    BY <1>1, <1>6, <2>1, SameBuffers DEF Disconnect, Served
<1> QED
  BY <1>3, <1>4, <1>5, <1>6

\* A connection that ends keeps what it got.
LEMMA DetachDrop ==
    ASSUME DropInv, NEW c \in Conns, detach(c)
    PROVE  DropInv'
<1>1. HubInv'
  BY DetachStep DEF DropInv
<1>2. hpc \in [Conns -> Live \cup {"none", "end"}]
  BY DEF DropInv, HubInv
<1>3. Registered'
  <2> SUFFICES ASSUME NEW d \in Conns, hpc'[d] \in Live
               PROVE  topic[d] \in DOMAIN subs' /\ d \in subs'[topic[d]]
    BY DEF Registered, detach
  <2>1. d # c /\ topic[d] \in DOMAIN subs /\ d \in subs[topic[d]]
    BY <1>2 DEF detach, DropInv, Registered, Live
  <2>2. CASE topic[d] = topic[c]
    <3>1. d \in Subs(topic[c]) \ {c}
      BY <2>1, <2>2 DEF Subs
    <3> QED
      BY <2>1, <2>2, <3>1 DEF detach, Without
  <2>3. CASE topic[d] # topic[c]
    BY <2>1, <2>3 DEF detach, Without
  <2> QED
    BY <2>2, <2>3
<1> QED
  BY <1>1, <1>2, <1>3, SameBuffers DEF detach, Served

\* deliver has served everybody the message was meant for.
LEMMA RUnlockDrop == ASSUME DropInv, RUnlock PROVE DropInv'
<1>1. HubInv'
  BY DeliverStep DEF DropInv, deliver
<1>2. BufferTypes' /\ Registered' /\ TodoIsMeant' /\ HandsAreEmpty'
  BY DEF DropInv, BufferTypes, Registered, TodoIsMeant, HandsAreEmpty, RUnlock,
         hubVars, connVars
<1>3. Begun' = Begun
  BY DEF RUnlock, Begun
<1>4. AttachedBefore'
  BY <1>3 DEF DropInv, AttachedBefore, RUnlock, connVars
<1>5. \A c \in Conns : Got(c)' = Got(c) /\ Offered(c)' = Offered(c)
  BY <1>3 DEF Got, Offered, RUnlock, connVars
<1>6. AllFit'
  BY <1>5, AllFitSteps DEF DropInv, Served, RUnlock, connVars
<1> QED
  BY <1>1, <1>2, <1>4, <1>6 DEF DropInv

\* Who attaches is offered only what begins afterwards.
LEMMA AttachDrop ==
    ASSUME DropInv, NEW c \in Conns, NEW ch \in Channels, attach(c, ch)
    PROVE  DropInv'
<1>1. HubInv'
  BY AttachStep DEF DropInv
<1>2. /\ hpc \in [Conns -> Live \cup {"none", "end"}]
      /\ topic \in [Conns -> Channels \cup {Nobody}]
  BY DEF DropInv, HubInv
<1>3. Begun' = Begun /\ Begun \in Nat
  BY BegunIsNat DEF DropInv, attach, subVars, Begun
<1>4. BufferTypes'
  BY <1>3 DEF DropInv, BufferTypes, attach, subVars
<1>5. Registered'
  BY <1>2 DEF DropInv, Registered, attach, Live, Subs
<1>6. TodoIsMeant' /\ AttachedBefore'
  <2>1. todo' = {}
    BY DEF DropInv, HubInv, TodoIsLive, attach, Unread, subVars
  <2>2. \A d \in Conns : since'[d] <= Begun'
    BY <1>3 DEF DropInv, AttachedBefore, BufferTypes, attach
  <2> QED
    BY <2>1, <2>2 DEF TodoIsMeant, AttachedBefore
<1>7. HandsAreEmpty'
  BY <1>2 DEF DropInv, HandsAreEmpty, attach
<1>8. AllFit'
  <2> SUFFICES ASSUME NEW d \in Conns, Served(d)'
               PROVE  Fits(Got(d)', Offered(d)')
    BY DEF AllFit, Fits
  <2>1. CASE d # c
    <3>1. Served(d) /\ Got(d)' = Got(d) /\ Offered(d)' = Offered(d)
      BY <1>2, <1>3, <2>1 DEF Served, Got, Offered, attach, subVars, BufferTypes,
                              DropInv
    <3> QED
      BY <3>1 DEF DropInv, AllFit
  <2>2. CASE d = c
    <3>1. Got(d)' = <<>> \o <<>> \o <<>>
      BY <2>2 DEF Got, attach, DropInv, HandsAreEmpty
    <3>2. Got(d)' = <<>>
      BY <3>1, EmptySeq, ConcatEmptySeq
    <3>3. since'[d] = Begun'
      BY <1>3, <2>2 DEF attach, DropInv, BufferTypes
    <3>4. since'[d] + 1 .. Begun' = {}
      BY <1>3, <3>3
    <3>5. Offered(d)' = {}
      BY <3>4 DEF Offered
    <3> QED
      BY <3>2, <3>5, FitsNothing
  <2> QED
    BY <2>1, <2>2
<1> QED
  BY <1>1, <1>4, <1>5, <1>6, <1>7, <1>8 DEF DropInv

\* From the buffer to the hand, and from the hand to the browser.
LEMMA HeadThenTail ==
    ASSUME NEW s \in Seq(Nat), NEW t \in Seq(Nat), t # <<>>
    PROVE  s \o <<Head(t)>> \o Tail(t) = s \o <<>> \o t
<1>1. /\ Head(t) \in Nat /\ Tail(t) \in Seq(Nat) /\ <<Head(t)>> \in Seq(Nat)
      /\ Len(t) \in Nat /\ Len(t) > 0 /\ Len(Tail(t)) = Len(t) - 1
  BY HeadTailProperties, LenProperties, EmptySeq
<1>2. <<Head(t)>> \o Tail(t) = t
  BY <1>1
<1>3. (s \o <<Head(t)>>) \o Tail(t) = s \o (<<Head(t)>> \o Tail(t))
  BY <1>1, ConcatAssociative
<1>4. s \o <<>> = s
  BY ConcatEmptySeq
<1> QED
  BY <1>2, <1>3, <1>4

\* The request takes a message from its buffer.
LEMMA TakeDrop ==
    ASSUME DropInv, NEW c \in Conns, Take(c) \/ Write(c)
    PROVE  DropInv'
<1>1. HubInv'
  BY RequestStep DEF DropInv, sseBridge
<1>2. /\ hpc \in [Conns -> Live \cup {"none", "end"}]
      /\ chan[c] \in Seq(Nat) /\ hand[c] \in Seq(Nat) /\ written[c] \in Seq(Nat)
  BY DEF DropInv, HubInv, BufferTypes
<1>3. BufferTypes'
  <2>1. CASE Take(c)
    <3>1. Head(chan[c]) \in Nat /\ Tail(chan[c]) \in Seq(Nat)
      BY <1>2, <2>1, HeadTailProperties DEF Take
    <3>2. <<Head(chan[c])>> \in Seq(Nat)
      BY <3>1
    <3> QED
      BY <2>1, <3>1, <3>2 DEF DropInv, BufferTypes, Take, subVars
  <2>2. CASE Write(c)
    <3>1. written[c] \o hand[c] \in Seq(Nat) /\ <<>> \in Seq(Nat)
      BY <1>2, ConcatProperties, EmptySeq
    <3> QED
      BY <2>2, <3>1 DEF DropInv, BufferTypes, Write, subVars
  <2> QED
    BY <2>1, <2>2
<1>4. Registered' /\ HandsAreEmpty'
  BY <1>2 DEF DropInv, BufferTypes, Registered, HandsAreEmpty, Take, Write, Live,
              hubVars
<1>5. TodoIsMeant' /\ AttachedBefore'
  BY DEF DropInv, TodoIsMeant, AttachedBefore, Begun, Take, Write, subVars
<1>6. ASSUME NEW d \in Conns PROVE Got(d)' = Got(d)
  <2>1. CASE d # c
    BY <2>1 DEF Got, Take, Write, DropInv, BufferTypes
  <2>2. CASE d = c /\ Take(c)
    <3>1. hand[c] = <<>>
      BY <2>2 DEF Take, DropInv, HandsAreEmpty
    <3>2. Got(d)' = written[c] \o <<Head(chan[c])>> \o Tail(chan[c])
      BY <2>2 DEF Got, Take, DropInv, BufferTypes
    <3>3. Got(d) = written[c] \o <<>> \o chan[c]
      BY <2>2, <3>1 DEF Got
    <3> QED
      BY <1>2, <2>2, <3>2, <3>3, HeadThenTail DEF Take
  <2>3. CASE d = c /\ Write(c)
    <3>1. Got(d)' = (written[c] \o hand[c]) \o <<>> \o chan[c]
      BY <2>3 DEF Got, Write, DropInv, BufferTypes
    <3>2. (written[c] \o hand[c]) \o <<>> = written[c] \o hand[c]
      BY <1>2, ConcatProperties, ConcatEmptySeq
    <3> QED
      BY <2>3, <3>1, <3>2 DEF Got
  <2> QED
    BY <2>1, <2>2, <2>3
<1>7. \A d \in Conns : /\ Served(d)' => Served(d)
                       /\ Offered(d)' = Offered(d)
  BY <1>2 DEF Served, Offered, Begun, Take, Write, subVars
<1>8. AllFit'
  BY <1>6, <1>7, AllFitSteps DEF DropInv
<1> QED
  BY <1>1, <1>3, <1>4, <1>5, <1>8 DEF DropInv

\* Every step of the gateway keeps what is said of the drops.
LEMMA DropStep == DropInv /\ [Next]_vars => DropInv'
<1> SUFFICES ASSUME DropInv, [Next]_vars PROVE DropInv'
  OBVIOUS
<1>1. ASSUME NEW ch \in Channels, Receive(ch) PROVE DropInv'
  BY <1>1, ReceiveDrop
<1>2. CASE deliver
  BY <1>2, RLockDrop, SendDrop, RUnlockDrop DEF deliver
<1>3. ASSUME NEW c \in Conns, sseBridge(c) \/ Disconnect(c) PROVE DropInv'
  BY <1>3, MoveDrop, AttachDrop, TakeDrop, DetachDrop DEF sseBridge
<1>4. CASE UNCHANGED vars
  <2>1. HubInv'
    BY <1>4, HubStep DEF DropInv
  <2>2. Registered'
    BY <1>4 DEF DropInv, Registered, vars, hubVars, connVars
  <2> QED
    BY <1>4, <2>1, <2>2, SameBuffers DEF vars, connVars, Served
<1> QED
  BY <1>1, <1>2, <1>3, <1>4 DEF Next

(* Whatever browsers do, each gets the messages of its channel in order and
   once, and misses one only when its buffer of Cap is full of earlier ones. *)
THEOREM HubDropsOnlyForSlowConsumers == Spec => []DropsOnlyForSlowConsumers
<1>1. DropInv => DropsOnlyForSlowConsumers
  BY DEF DropInv, AllFit, Fits, Served, DropsOnlyForSlowConsumers
<1> QED
  BY DropInit, DropStep, <1>1, PTL DEF Spec

-----------------------------------------------------------------------------
(* The hub and the matcher together.                                        *)

M == INSTANCE MatcherProofs

\* The matcher and Redis do not notice the gateway.
LEMMA MatcherSteps ==
    ASSUME [StreamNext]_streamVars
    PROVE  [M!SharedNext]_(M!matcherVars)
<1>1. CASE UNCHANGED matcherVars
  BY <1>1 DEF matcherVars, M!matcherVars, M!bookVars
<1>2. ASSUME NEW ch \in Channels, FromOthers(ch) PROVE M!SharedNext
  BY <1>2 DEF FromOthers, matcher!PublishOther, matcher!Other, matcher!bookVars,
              M!SharedNext, M!PublishOther, M!Other, M!bookVars
<1>3. CASE FromRedis \/ PSubscribe \/ BreakPubSub \/ Overflow \/ UNCHANGED streamVars
  BY <1>1, <1>3 DEF FromRedis, PSubscribe, BreakPubSub, Overflow, streamVars
<1>4. CASE matcher!Next
  <2>1. M!Next
    BY <1>4
       DEF matcher!Next, matcher!Connect, matcher!Disconnect, matcher!Missed,
           matcher!on_book, matcher!apply, matcher!HasTop, matcher!top,
           matcher!Count, matcher!publish_top, matcher!lock, matcher!publish,
           matcher!BreakRedis, matcher!bookVars,
           M!Next, M!Connect, M!Disconnect, M!Missed, M!on_book, M!apply,
           M!HasTop, M!top, M!Count, M!publish_top, M!lock, M!publish,
           M!BreakRedis, M!bookVars
  <2> QED
    BY <2>1 DEF M!SharedNext
<1> QED
  BY <1>1, <1>2, <1>3, <1>4 DEF StreamNext

\* At the start they are as the matcher starts.
LEMMA MatcherStarts == StreamInit => M!Init
BY DEF StreamInit, matcher!Init, matcher!Updates, matcher!AtLeastOne,
       M!Init, M!Updates, M!AtLeastOne

(* orderbook-matcher behind its Redis is what MatcherProofs speaks of, whatever
   the gateway does with what it publishes. *)
THEOREM StreamIsMatcher == StreamSpec => M!Spec
BY MatcherStarts, MatcherSteps, PTL DEF StreamSpec, M!Spec

-----------------------------------------------------------------------------
(* The hub behind the matcher.  That a message is received on a channel of  *)
(* its own needs what the matcher's invariant says of Redis.                *)

Received == M!LineInv /\ log \in Seq(Channels) /\ wire \subseteq DOMAIN redis

\* What the gateway receives is published to one of its channels.
LEMMA ReceivedIsPublished ==
    ASSUME Received, FromRedis
    PROVE  \E ch \in Channels : Receive(ch)
<1>1. PICK m \in wire : Receive(redis[m].symbol)
  BY DEF FromRedis
<1>2. redis \in Seq(M!Messages) /\ m \in DOMAIN redis
  BY DEF Received, M!LineInv, M!Types
<1>3. ASSUME NEW x \in M!Messages PROVE x.symbol \in Channels
  BY StreamAssumption DEF M!Messages, M!Tops
<1>4. redis[m] \in M!Messages
  BY <1>2, ElementOfSeq, LenProperties
<1> QED
  BY <1>1, <1>3, <1>4

\* A step of the two together, for the hub.
LEMMA HubSteps ==
    ASSUME Received, [StreamNext]_streamVars
    PROVE  [Next]_vars
<1>1. CASE UNCHANGED streamVars
  BY <1>1 DEF streamVars
<1>2. CASE StreamNext
  <2>1. ~panicked
    BY <1>2 DEF StreamNext
  <2>2. CASE FromRedis
    BY <2>1, <2>2, ReceivedIsPublished DEF Next
  <2>3. CASE UNCHANGED vars
    BY <2>3
  <2>4. CASE \/ \E ch \in Channels : FromOthers(ch)
             \/ PSubscribe \/ BreakPubSub \/ Overflow
    BY <2>3, <2>4 DEF FromOthers, PSubscribe, BreakPubSub, Overflow
  <2>5. CASE Hub
    BY <2>1, <2>5 DEF Hub, Next
  <2> QED
    BY <1>2, <2>2, <2>3, <2>4, <2>5 DEF StreamNext
<1> QED
  BY <1>1, <1>2

\* What a step does to the messages: one more, one received, some lost, or none.
One(x) ==
    /\ redis' = Append(redis, x)
    /\ wire' \cup missed' = wire \cup missed \cup {Len(redis) + 1}
    /\ wire' \subseteq wire \cup {Len(redis) + 1}
    /\ UNCHANGED <<taken, log>>

Lost ==
    /\ wire' \cup missed' = wire \cup missed
    /\ wire' \subseteq wire
    /\ UNCHANGED <<redis, taken, log>>

\* Redis appends: then its new place is the next one.
LEMMA RouteOne ==
    ASSUME redis \in Seq(M!Messages), NEW x, redis' = Append(redis, x),
           Route, UNCHANGED vars
    PROVE  One(x)
<1>1. DOMAIN redis' \ DOMAIN redis = {Len(redis) + 1}
  BY AppendProperties, LenProperties
<1> QED
  BY <1>1 DEF Route, One, vars, subVars

\* Redis is left alone: then nothing sets out.
LEMMA RouteNone == ASSUME redis' = redis, Route, UNCHANGED vars PROVE Lost
BY DEF Route, Lost, vars, subVars

\* The matcher publishes, or does something else.
LEMMA RouteMatcher ==
    ASSUME redis \in Seq(M!Messages), matcher!Next, Route, UNCHANGED vars
    PROVE  (\E x : One(x)) \/ Lost
<1>1. redis' = redis \/ \E x : redis' = Append(redis, x)
  BY DEF matcher!Next, matcher!Connect, matcher!Disconnect, matcher!Missed,
         matcher!on_book, matcher!publish_top, matcher!lock, matcher!publish,
         matcher!BreakRedis
<1> QED
  BY <1>1, RouteOne, RouteNone

LEMMA MessageSteps ==
    ASSUME Received, [StreamNext]_streamVars
    PROVE  FromRedis \/ (\E x : One(x)) \/ Lost
<1>1. redis \in Seq(M!Messages)
  BY DEF Received, M!LineInv, M!Types
<1>2. ASSUME NEW ch \in Channels, FromOthers(ch) PROVE \E x : One(x)
  <2>1. redis' = Append(redis, matcher!Other(ch)) /\ Route /\ UNCHANGED vars
    BY <1>2 DEF FromOthers, matcher!PublishOther
  <2> QED
    BY <1>1, <2>1, RouteOne
<1>3. CASE BreakPubSub \/ Overflow
  BY <1>3 DEF BreakPubSub, Overflow, Lost, matcherVars, vars, subVars
<1>4. CASE PSubscribe \/ UNCHANGED streamVars
  BY <1>4 DEF PSubscribe, Lost, streamVars, pubsubVars, matcherVars, vars, subVars
<1>5. CASE Hub /\ UNCHANGED <<matcherVars, pubsubVars>>
  <2>1. CASE deliver
    BY <1>5, <2>1 DEF deliver, RLock, Send, RUnlock, Lost, pubsubVars, matcherVars
  <2>2. ASSUME NEW c \in Conns, sseBridge(c) \/ Disconnect(c) PROVE log' = log
    BY <2>2 DEF sseBridge, Disconnect, Refuse, attach, Greet, Take, Write, Done,
                detach, subVars
  <2> QED
    BY <1>5, <2>1, <2>2 DEF Hub, Lost, pubsubVars, matcherVars
<1> QED
  BY <1>1, <1>2, <1>3, <1>4, <1>5, RouteMatcher DEF StreamNext

\* Messages come on channels, and come to stay.
LEMMA ReceivedStep == Received /\ [StreamNext]_streamVars => Received'
<1> SUFFICES ASSUME Received, [StreamNext]_streamVars PROVE Received'
  OBVIOUS
<1>1. M!LineInv'
  BY MatcherSteps, M!LineStep DEF Received
<1>2. CASE FromRedis
  <2>1. ASSUME NEW ch \in Channels, Receive(ch) PROVE log' \in Seq(Channels)
    BY <2>1, AppendProperties DEF Receive, Received
  <2>2. wire' \subseteq wire /\ redis' = redis
    BY <1>2 DEF FromRedis, matcherVars
  <2> QED
    BY <1>1, <1>2, <2>1, <2>2, ReceivedIsPublished DEF Received
<1>3. ASSUME NEW x, One(x) PROVE Received'
  <2>1. redis \in Seq(M!Messages) /\ redis' \in Seq(M!Messages)
    BY <1>1 DEF Received, M!LineInv, M!Types
  <2>2. DOMAIN redis' = DOMAIN redis \cup {Len(redis) + 1}
    BY <1>3, <2>1, AppendProperties, LenProperties DEF One
  <2> QED
    BY <1>1, <1>3, <2>2 DEF One, Received
<1>4. CASE Lost
  BY <1>1, <1>4 DEF Lost, Received
<1> QED
  BY <1>2, <1>3, <1>4, MessageSteps

(* The gateway behind the matcher is the one the first part of this module speaks of. *)
THEOREM StreamIsHub == StreamSpec => Spec
<1>1. StreamInit => Init /\ Received
  BY MatcherStarts, M!LineInit, EmptySeq DEF StreamInit, Received, Init
<1>2. Received /\ [StreamNext]_streamVars => [Next]_vars
  BY HubSteps
<1> QED
  BY <1>1, <1>2, ReceivedStep, PTL DEF StreamSpec, Spec

-----------------------------------------------------------------------------

(* No send meets a closed channel, whatever the matcher publishes. *)
THEOREM StreamNeverPanics == StreamSpec => []NeverPanics
BY StreamIsHub, HubNeverPanics, PTL

-----------------------------------------------------------------------------
(* From Redis to a browser.  Every message of Redis is on its way, lost, or *)
(* taken, and what is taken comes in the order of Redis.                    *)

InOrder ==
    /\ \A i, j \in DOMAIN taken : i < j => taken[i] < taken[j]
    /\ \A i \in DOMAIN taken, m \in wire : taken[i] < m

Accounted ==
    \A m \in DOMAIN redis :
        m \in missed \cup wire \/ \E k \in DOMAIN taken : taken[k] = m

TakenIsLogged ==
    /\ taken \in Seq(Nat)
    /\ Len(taken) = Len(log)
    /\ \A k \in DOMAIN taken :
          taken[k] \in DOMAIN redis /\ log[k] = redis[taken[k]].symbol

WireInv == Received /\ InOrder /\ Accounted /\ TakenIsLogged

\* At the start Redis has had no message.
LEMMA WireInit == StreamInit => WireInv
BY MatcherStarts, M!LineInit, EmptySeq
   DEF StreamInit, WireInv, Received, InOrder, Accounted, TakenIsLogged, Init,
       matcher!Init

\* One message more: it is the last one.
LEMMA OneWire == ASSUME WireInv, Received', NEW x, One(x) PROVE WireInv'
<1>1. redis \in Seq(M!Messages) /\ Len(redis) \in Nat
  BY LenProperties DEF WireInv, Received, M!LineInv, M!Types
<1>2. /\ DOMAIN redis = 1 .. Len(redis)
      /\ DOMAIN redis' = 1 .. Len(redis) + 1
      /\ \A m \in DOMAIN redis : redis'[m] = redis[m]
  BY <1>1, AppendProperties, LenProperties DEF One
<1>3. InOrder'
  BY <1>1, <1>2 DEF One, WireInv, InOrder, TakenIsLogged
<1>4. Accounted'
  BY <1>1, <1>2 DEF One, WireInv, Accounted
<1>5. TakenIsLogged'
  BY <1>1, <1>2 DEF One, WireInv, TakenIsLogged
<1> QED
  BY <1>3, <1>4, <1>5 DEF WireInv

\* The first message on its way is taken, and logged with its channel.
LEMMA TakeWire == ASSUME WireInv, Received', FromRedis PROVE WireInv'
<1>1. PICK m \in wire : /\ \A k \in wire : m <= k
                       /\ Receive(redis[m].symbol)
                       /\ wire' = wire \ {m}
                       /\ taken' = Append(taken, m)
  BY DEF FromRedis
<1>2. redis' = redis /\ missed' = missed
  BY DEF FromRedis, matcherVars
<1>3. redis \in Seq(M!Messages)
  BY DEF WireInv, Received, M!LineInv, M!Types
<1>4. m \in DOMAIN redis /\ wire \subseteq Nat /\ m \in Nat
  BY <1>3, LenProperties DEF WireInv, Received
<1>5. /\ taken \in Seq(Nat) /\ Len(taken) = Len(log) /\ Len(log) \in Nat
      /\ log \in Seq(Channels) /\ log' = Append(log, redis[m].symbol)
  BY <1>1, LenProperties DEF WireInv, Received, TakenIsLogged, Receive
<1>6. /\ taken' \in Seq(Nat) /\ Len(taken') = Len(log) + 1
      /\ DOMAIN taken = 1 .. Len(log) /\ DOMAIN taken' = 1 .. Len(log) + 1
      /\ \A i \in 1 .. Len(log) : taken'[i] = taken[i]
      /\ taken'[Len(log) + 1] = m
  BY <1>1, <1>4, <1>5, AppendProperties, LenProperties
<1>7. /\ Len(log') = Len(log) + 1
      /\ \A i \in 1 .. Len(log) : log'[i] = log[i]
      /\ log'[Len(log) + 1] = redis[m].symbol
  <2> DEFINE ch == redis[m].symbol
  <2>1. log \in Seq(Channels \cup {ch}) /\ ch \in Channels \cup {ch}
    BY <1>5, SeqMonotonic
  <2> HIDE DEF ch
  <2>2. log' = Append(log, ch)
    BY <1>5 DEF ch
  <2>3. /\ Len(Append(log, ch)) = Len(log) + 1
        /\ \A i \in 1 .. Len(log) : Append(log, ch)[i] = log[i]
        /\ Append(log, ch)[Len(log) + 1] = ch
    BY <2>1, AppendProperties
  <2> QED
    BY <2>2, <2>3 DEF ch
<1>8. InOrder'
  <2>1. ASSUME NEW i \in DOMAIN taken', NEW j \in DOMAIN taken', i < j
        PROVE  taken'[i] < taken'[j]
    BY <1>1, <1>5, <1>6, <2>1 DEF WireInv, InOrder
  <2>2. ASSUME NEW i \in DOMAIN taken', NEW k \in wire' PROVE taken'[i] < k
    BY <1>1, <1>4, <1>5, <1>6, <2>2 DEF WireInv, InOrder
  <2> QED
    BY <2>1, <2>2 DEF InOrder
<1>9. Accounted'
  <2>1. ASSUME NEW k \in DOMAIN redis PROVE
           k \in missed' \cup wire' \/ \E i \in DOMAIN taken' : taken'[i] = k
    <3>1. CASE k = m
      <4>1. Len(log) + 1 \in DOMAIN taken'
        BY <1>5, <1>6
      <4> QED
        BY <1>6, <3>1, <4>1
    <3>2. CASE k \in missed \cup wire /\ k # m
      BY <1>1, <1>2, <3>2
    <3>3. ASSUME NEW i \in DOMAIN taken, taken[i] = k
          PROVE  \E j \in DOMAIN taken' : taken'[j] = k
      <4>1. i \in 1 .. Len(log) /\ i \in DOMAIN taken'
        BY <1>5, <1>6
      <4>2. taken'[i] = k
        BY <1>6, <3>3, <4>1
      <4> QED
        BY <4>1, <4>2
    <3> QED
      BY <3>1, <3>2, <3>3 DEF WireInv, Accounted
  <2> QED
    BY <1>2, <2>1 DEF Accounted
<1>10. TakenIsLogged'
  <2>1. ASSUME NEW k \in DOMAIN taken'
        PROVE  taken'[k] \in DOMAIN redis /\ log'[k] = redis[taken'[k]].symbol
    <3>1. CASE k = Len(log) + 1
      BY <1>4, <1>6, <1>7, <3>1
    <3>2. CASE k \in 1 .. Len(log)
      BY <1>6, <1>7, <3>2 DEF WireInv, TakenIsLogged
    <3> QED
      BY <1>5, <1>6, <3>1, <3>2
  <2> QED
    BY <1>2, <1>6, <1>7, <2>1 DEF TakenIsLogged
<1> QED
  BY <1>8, <1>9, <1>10 DEF WireInv

LEMMA WireStep == WireInv /\ [StreamNext]_streamVars => WireInv'
<1> SUFFICES ASSUME WireInv, [StreamNext]_streamVars PROVE WireInv'
  OBVIOUS
<1>1. Received'
  BY ReceivedStep DEF WireInv
<1>2. CASE Lost
  BY <1>1, <1>2 DEF Lost, WireInv, InOrder, Accounted, TakenIsLogged
<1> QED
  BY <1>1, <1>2, OneWire, TakeWire, MessageSteps DEF WireInv

(* What a browser has not got of its channel the pub/sub connection of the
   gateway has not brought, or has not brought yet, or the browser came after it,
   or its buffer was full; and what it has got comes in the order of Redis. *)
THEOREM StreamMissesAreKnown == StreamSpec => []MissesAreKnown
<1>1. WireInv /\ DropInv => MissesAreKnown
  <2> SUFFICES ASSUME WireInv, DropInv, NEW c \in Conns,
                      hpc[c] \in {"greet", "select", "write"}
               PROVE  /\ \A i, j \in DOMAIN Got(c) :
                            i < j => taken[Got(c)[i]] < taken[Got(c)[j]]
                      /\ \A m \in DOMAIN redis : redis[m].symbol = topic[c] =>
                            \/ m \in missed \cup wire
                            \/ \E k \in DOMAIN log :
                                  /\ taken[k] = m
                                  /\ \/ k <= since[c]
                                     \/ k > Begun \/ (k = Len(log) /\ c \in todo)
                                     \/ k \in ToSet(Got(c))
                                     \/ Cardinality({i \in ToSet(Got(c)) : i < k})
                                            >= Cap
    BY DEF MissesAreKnown
  <2>1. Fits(Got(c), Offered(c))
    BY DEF DropInv, AllFit, Served
  <2>2. /\ DOMAIN taken = 1 .. Len(log) /\ DOMAIN log = 1 .. Len(log)
        /\ Len(log) \in Nat /\ since[c] \in Nat
    BY LenProperties DEF WireInv, TakenIsLogged, Received, DropInv, BufferTypes
  <2>3. Begun \in Int /\ Begun <= Len(log)
    BY <2>2 DEF Begun
  <2>4. Offered(c) \subseteq DOMAIN taken
    BY <2>2, <2>3 DEF Offered
  <2>5. ASSUME NEW i \in DOMAIN Got(c), NEW j \in DOMAIN Got(c), i < j
        PROVE  taken[Got(c)[i]] < taken[Got(c)[j]]
    <3>1. Got(c)[i] \in ToSet(Got(c)) /\ Got(c)[j] \in ToSet(Got(c))
      BY DEF ToSet
    <3>2. Got(c)[i] \in DOMAIN taken /\ Got(c)[j] \in DOMAIN taken
      BY <2>1, <2>4, <3>1 DEF Fits
    <3>3. Got(c)[i] < Got(c)[j]
      BY <2>1, <2>5 DEF Fits
    <3> QED
      BY <3>2, <3>3 DEF WireInv, InOrder
  <2>6. ASSUME NEW m \in DOMAIN redis, redis[m].symbol = topic[c],
               m \notin missed \cup wire
        PROVE  \E k \in DOMAIN log :
                  /\ taken[k] = m
                  /\ \/ k <= since[c]
                     \/ k > Begun \/ (k = Len(log) /\ c \in todo)
                     \/ k \in ToSet(Got(c))
                     \/ Cardinality({i \in ToSet(Got(c)) : i < k}) >= Cap
    <3>1. PICK k \in DOMAIN taken : taken[k] = m
      BY <2>6 DEF WireInv, Accounted
    <3>2. log[k] = topic[c] /\ k \in DOMAIN log /\ k \in Nat
      BY <2>2, <2>6, <3>1 DEF WireInv, TakenIsLogged
    <3>3. ASSUME ~(k <= since[c]), ~(k > Begun), ~(k = Len(log) /\ c \in todo)
          PROVE  k \in Offered(c)
      BY <2>2, <2>3, <3>2, <3>3 DEF Offered
    <3>4. k \in Offered(c) => \/ k \in ToSet(Got(c))
                             \/ Cardinality({i \in ToSet(Got(c)) : i < k}) >= Cap
      BY <2>1 DEF Fits
    <3> QED
      BY <3>1, <3>2, <3>3, <3>4
  <2> QED
    BY <2>5, <2>6
<1>2. Spec => []DropInv
  BY DropInit, DropStep, PTL DEF Spec
<1>3. StreamSpec => []WireInv
  BY WireInit, WireStep, PTL DEF StreamSpec
<1> QED
  BY StreamIsHub, <1>1, <1>2, <1>3, PTL

(* Among the messages of other programs, too, tops overtake one another only on
   their way to the lock. *)
THEOREM StreamOvertakingIsBounded == StreamSpec => []OvertakesOnlyBeforeTheLock
<1>1. M!OvertakesOnlyBeforeTheLock => OvertakesOnlyBeforeTheLock
  BY DEF M!OvertakesOnlyBeforeTheLock, OvertakesOnlyBeforeTheLock,
         matcher!OvertakesOnlyBeforeTheLock
<1> QED
  BY StreamIsMatcher, M!OvertakingIsBounded, <1>1, PTL

(* What Redis has of the matcher are the tops of single snapshots, each once. *)
THEOREM StreamTopsAreGenuine ==
    ASSUME IsFiniteSet(Levels)
    PROVE  StreamSpec => []TopsAreOfOneSnapshot
<1>1. M!TopsAreOfOneSnapshot => TopsAreOfOneSnapshot
  BY DEF M!TopsAreOfOneSnapshot, M!Best, TopsAreOfOneSnapshot,
         matcher!TopsAreOfOneSnapshot, matcher!Best
<1>2. M!MatcherAssumption
  BY StreamAssumption DEF matcher!MatcherAssumption, M!MatcherAssumption
<1>3. M!Spec => []M!TopsAreOfOneSnapshot
  <2>1. M!IsFiniteSet(Levels)
    BY DEF IsFiniteSet, M!IsFiniteSet
  <2> QED
    BY <1>2, <2>1, M!TopsAreGenuine
<1> QED
  BY StreamIsMatcher, <1>1, <1>3, PTL

(* The tops among the messages come at their rate. *)
THEOREM StreamKeepsItsRate == StreamSpec => []ThrottleKeepsUp
<1>1. M!ThrottleKeepsUp => ThrottleKeepsUp
  BY DEF M!ThrottleKeepsUp, M!Handed, M!ToSet, M!HasTop, M!apply, ThrottleKeepsUp,
         matcher!ThrottleKeepsUp, matcher!Handed, matcher!ToSet, matcher!HasTop,
         matcher!apply
<1>2. M!MatcherAssumption
  BY StreamAssumption DEF matcher!MatcherAssumption, M!MatcherAssumption
<1>3. M!Spec => []M!ThrottleKeepsUp
  BY <1>2, M!ThrottleKeepsItsRate
<1> QED
  BY StreamIsMatcher, <1>1, <1>3, PTL
=============================================================================
