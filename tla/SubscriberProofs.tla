-------------------------- MODULE SubscriberProofs --------------------------
(***************************************************************************)
(* Proofs about RedisSubscriber: the handler sees messages in the order    *)
(* they were published, nothing is handled once stop() has returned, and   *)
(* the only message a live connection loses is the one taken for the reply *)
(* to a PSUBSCRIBE.                                                        *)
(*                                                                         *)
(* The order is that of a pipe: what was dispatched, then the message in   *)
(* the handler, then the stream of the connection.  Publishing adds to its *)
(* far end, the worker moves messages along it, and every loss - the link, *)
(* a reconnection, a reply taken for another - cuts something out of it    *)
(* and turns nothing round.                                                *)
(***************************************************************************)
EXTENDS RedisSubscriber, SequenceTheorems, TLAPS

\* a has a place in s ahead of b.
Before(s, a, b) ==
    \E i, j \in DOMAIN s : i < j /\ s[i] = a /\ s[j] = b

\* The messages of the stream, by place: the rest are replies.
Arriving == {k \in DOMAIN inbox : inbox[k] # Ack}

-----------------------------------------------------------------------------

(* The worker: the thread of main() and the worker's agree on whether it is
   running; without a connection nothing is in the stream; a message is in the
   handler exactly while the worker is in it; and a pattern is left to
   subscribe whenever PSUBSCRIBE is about to be sent. *)
WorkerInv ==
    /\ main = "idle" => wpc = "none"
    /\ main = "stopped" => wpc = "exited"
    /\ wpc \in {"none", "connect", "exited"} => link = "closed"
    /\ link = "closed" => inbox = <<>>
    /\ cur # None <=> wpc = "handle"
    /\ wpc = "subscribe" => subscribed < Len(Patterns)

SentOnce ==
    \A i, j \in DOMAIN sent : sent[i] = sent[j] => i = j

DispatchedPart ==
    /\ \A i \in DOMAIN dispatched : dispatched[i] \in Elements(sent)
    /\ \A i, j \in DOMAIN dispatched :
          i < j => Before(sent, dispatched[i], dispatched[j])

CurPart ==
    cur # None =>
        /\ cur \in Elements(sent)
        /\ \A i \in DOMAIN dispatched : Before(sent, dispatched[i], cur)

InboxPart ==
    /\ \A k \in Arriving :
          /\ inbox[k] \in Elements(sent)
          /\ \A i \in DOMAIN dispatched : Before(sent, dispatched[i], inbox[k])
          /\ cur # None => Before(sent, cur, inbox[k])
    /\ \A k, l \in Arriving : k < l => Before(sent, inbox[k], inbox[l])

(* The pipe holds published messages only, each of them ahead of those that
   were published later. *)
PipeInv == SentOnce /\ DispatchedPart /\ CurPart /\ InboxPart

SubscriberInv == TypeOK /\ WorkerInv /\ PipeInv

-----------------------------------------------------------------------------
(* Sequences.                                                               *)

LEMMA OrderOfAppend ==
    ASSUME NEW S, NEW s \in Seq(S), NEW m \in S
    PROVE  /\ \A a, b : Before(s, a, b) => Before(Append(s, m), a, b)
           /\ \A a \in Elements(s) : Before(Append(s, m), a, m)
           /\ Elements(s) \subseteq Elements(Append(s, m))
           /\ m \in Elements(Append(s, m))
<1> DEFINE t == Append(s, m)
<1>1. /\ DOMAIN t = 1 .. Len(s) + 1
      /\ DOMAIN s = 1 .. Len(s)
      /\ \A i \in DOMAIN s : i \in DOMAIN t /\ i < Len(s) + 1 /\ t[i] = s[i]
      /\ t[Len(s) + 1] = m
      /\ Len(s) + 1 \in DOMAIN t
    OBVIOUS
<1> HIDE DEF t
<1>2. ASSUME NEW a, NEW b, Before(s, a, b)
      PROVE  Before(t, a, b)
    BY <1>1, <1>2 DEF Before
<1>3. ASSUME NEW a \in Elements(s)
      PROVE  Before(t, a, m) /\ a \in Elements(t)
    BY <1>1 DEF Before, Elements
<1>4. m \in Elements(t)
    BY <1>1 DEF Elements
<1> QED
    BY <1>2, <1>3, <1>4 DEF t

\* A step that leaves the rest of the pipe alone and takes messages out of the
\* stream keeps its part: what is left comes from o places further on.
LEMMA InboxThins ==
    ASSUME InboxPart, UNCHANGED <<sent, dispatched>>, cur' \in {cur, None},
           NEW o \in Nat,
           inbox \in Seq(Messages \cup {Ack}),
           inbox' \in Seq(Messages \cup {Ack}),
           \A k \in Arriving' : k + o \in DOMAIN inbox /\ inbox'[k] = inbox[k + o]
    PROVE  InboxPart'
<1>1. \A k \in Arriving' : k \in Nat /\ k + o \in Arriving /\ inbox'[k] = inbox[k + o]
    BY DEF Arriving
<1>2. \A k, l \in Arriving' : k < l => k + o < l + o
    BY <1>1
<1>3. ASSUME NEW k \in Arriving'
      PROVE  /\ inbox'[k] \in Elements(sent)
             /\ \A i \in DOMAIN dispatched : Before(sent, dispatched[i], inbox'[k])
             /\ cur' # None => Before(sent, cur', inbox'[k])
    BY <1>1 DEF InboxPart
<1>4. ASSUME NEW k \in Arriving', NEW l \in Arriving', k < l
      PROVE  Before(sent, inbox'[k], inbox'[l])
    BY <1>1, <1>2, <1>4 DEF InboxPart
<1> QED
    BY <1>3, <1>4 DEF InboxPart

-----------------------------------------------------------------------------
(* The type.                                                                *)

THEOREM SubscriberIsTypeCorrect == Spec => [](TypeOK /\ WorkerInv)
<1>1. Init => TypeOK /\ WorkerInv
  <2>1. Len(Patterns) = 3
    BY DEF Patterns
  <2> QED
    <3>1. Init => TypeOK
      <4>1. <<>> \in Seq(Messages \cup {Ack}) /\ <<>> \in Seq(Messages)
        OBVIOUS
      <4>2. 0 \in 0 .. Len(Patterns)
        BY <2>1
      <4> QED
        BY <4>1, <4>2 DEF Init, TypeOK, WorkerPCs
    <3>2. Init => WorkerInv
      BY <2>1 DEF Init, WorkerInv
    <3> QED
      BY <3>1, <3>2
<1>2. TypeOK /\ WorkerInv /\ [Next]_vars => TypeOK' /\ WorkerInv'
  <2> SUFFICES ASSUME TypeOK, WorkerInv, [Next]_vars
               PROVE  TypeOK' /\ WorkerInv'
    OBVIOUS
  <2> USE DEF TypeOK, WorkerInv, WorkerPCs, redisVars
  <2>l. Len(Patterns) = 3
    BY DEF Patterns
  <2>1. ASSUME NEW m \in Messages, Publish(m)
        PROVE  TypeOK' /\ WorkerInv'
    BY <2>1, <2>l DEF Publish
  <2>2. CASE BreakLink
    BY <2>2, <2>l DEF BreakLink
  <2>3. CASE start
    BY <2>3, <2>l DEF start
  <2>4. CASE stop
    BY <2>4, <2>l DEF stop
  <2>5. CASE Joined
    BY <2>5, <2>l DEF Joined
  <2>6. CASE Connect
    <3>1. CASE running
      BY <2>6, <3>1, <2>l DEF Connect
    <3>2. CASE ~running
      BY <2>6, <3>2, <2>l DEF Connect
    <3> QED
      BY <3>1, <3>2
  <2>7. CASE PSubscribe
    <3>1. CASE link = "open"
      <4>1. inbox' \in Seq(Messages \cup {Ack})
        <5>1. inbox' = Append(inbox, Ack)
          BY <2>7, <3>1 DEF PSubscribe
        <5>2. inbox \in Seq(Messages \cup {Ack}) /\ Ack \in Messages \cup {Ack}
          OBVIOUS
        <5> QED
          BY <5>1, <5>2, AppendProperties
      <4> QED
        BY <2>7, <3>1, <4>1, <2>l DEF PSubscribe
    <3>2. CASE link # "open"
      BY <2>7, <3>2, <2>l DEF PSubscribe
    <3> QED
      BY <3>1, <3>2
  <2>8. CASE FreeReply
    BY <2>8, <2>l DEF FreeReply, Unread, MorePatterns
  <2>9. CASE TestRunning
    BY <2>9, <2>l DEF TestRunning
  <2>10. CASE redisGetReply
    <3>1. CASE inbox # <<>> /\ inbox' = Unread
      <4>1. Head(inbox) \in Messages \cup {Ack} /\ inbox' \in Seq(Messages \cup {Ack})
        BY <3>1 DEF Unread
      <4> QED
        BY <2>10, <3>1, <4>1, <2>l, SubscriberAssumption DEF redisGetReply
    <3>2. CASE link = "broken" /\ UNCHANGED <<inbox, cur>> /\ wpc' = "free"
      BY <2>10, <3>2, <2>l DEF redisGetReply
    <3> QED
      BY <2>10, <3>1, <3>2 DEF redisGetReply
  <2>11. CASE on_message
    BY <2>11, <2>l DEF on_message
  <2>12. CASE redisFree
    BY <2>12, <2>l DEF redisFree
  <2>13. CASE UNCHANGED vars
    BY <2>13, <2>l DEF vars
  <2> QED
    BY <2>1, <2>2, <2>3, <2>4, <2>5, <2>6, <2>7, <2>8, <2>9, <2>10, <2>11,
       <2>12, <2>13 DEF Next, Worker, Done
<1> QED
    BY <1>1, <1>2, PTL DEF Spec

-----------------------------------------------------------------------------
(* The order.                                                               *)

LEMMA InitPipe == Init => PipeInv
  BY DEF Init, PipeInv, SentOnce, DispatchedPart, CurPart, InboxPart, Arriving

\* A step inside this host that neither publishes nor dispatches.
LEMMA PipeThins ==
    ASSUME PipeInv, UNCHANGED <<sent, dispatched>>, cur' \in {cur, None},
           NEW o \in Nat,
           inbox \in Seq(Messages \cup {Ack}),
           inbox' \in Seq(Messages \cup {Ack}),
           \A k \in Arriving' : k + o \in DOMAIN inbox /\ inbox'[k] = inbox[k + o]
    PROVE  PipeInv'
<1>1. InboxPart'
    BY InboxThins DEF PipeInv
<1>2. SentOnce' /\ DispatchedPart'
    BY DEF PipeInv, SentOnce, DispatchedPart
<1>3. CurPart'
    BY DEF PipeInv, CurPart
<1> QED
    BY <1>1, <1>2, <1>3 DEF PipeInv

\* What is published enters the pipe behind everything in it, or not at all.
LEMMA PublishKeepsOrder ==
    ASSUME TypeOK, PipeInv, NEW m \in Messages, Publish(m)
    PROVE  PipeInv'
<1>1. /\ sent \in Seq(Messages)
      /\ sent' = Append(sent, m)
      /\ m \notin Elements(sent)
      /\ UNCHANGED <<cur, dispatched>>
      /\ inbox' \in {inbox, Append(inbox, m)}
      /\ inbox \in Seq(Messages \cup {Ack})
      /\ m \in Messages \cup {Ack}
    BY DEF Publish, TypeOK
<1>2. /\ \A a, b : Before(sent, a, b) => Before(sent', a, b)
      /\ \A a \in Elements(sent) : Before(sent', a, m)
      /\ Elements(sent) \subseteq Elements(sent')
      /\ m \in Elements(sent')
    BY <1>1, OrderOfAppend
<1>3. SentOnce'
  <2>1. /\ DOMAIN sent' = 1 .. Len(sent) + 1
        /\ DOMAIN sent = 1 .. Len(sent)
        /\ \A i \in DOMAIN sent : sent'[i] = sent[i] /\ sent[i] # m
        /\ sent'[Len(sent) + 1] = m
    BY <1>1 DEF Elements
  <2>2. Len(sent) \in Nat
    BY <1>1
  <2> QED
    BY <2>1, <2>2 DEF PipeInv, SentOnce
<1>4. DispatchedPart'
    BY <1>1, <1>2 DEF PipeInv, DispatchedPart
<1>5. CurPart'
    BY <1>1, <1>2 DEF PipeInv, CurPart
<1>6. InboxPart'
  <2>1. CASE inbox' = inbox
    BY <1>1, <1>2, <2>1 DEF PipeInv, InboxPart, Arriving
  <2>2. CASE inbox' = Append(inbox, m)
    <3>1. \A k \in Arriving' :
             \/ k \in Arriving /\ inbox'[k] = inbox[k]
             \/ k = Len(inbox) + 1 /\ inbox'[k] = m
      BY <1>1, <2>2 DEF Arriving
    <3>2. \A k \in Arriving : k \in 1 .. Len(inbox)
      BY <1>1 DEF Arriving
    <3>3. Len(inbox) \in Nat
      BY <1>1
    <3>4. \A k \in Arriving : inbox[k] \in Elements(sent)
      BY DEF PipeInv, InboxPart
    <3>5. ASSUME NEW k \in Arriving'
          PROVE  /\ inbox'[k] \in Elements(sent')
                 /\ \A i \in DOMAIN dispatched : Before(sent', dispatched[i], inbox'[k])
                 /\ cur # None => Before(sent', cur, inbox'[k])
      <4>1. CASE k \in Arriving /\ inbox'[k] = inbox[k]
        BY <4>1, <1>2 DEF PipeInv, InboxPart
      <4>2. CASE inbox'[k] = m
        BY <4>2, <1>2 DEF PipeInv, DispatchedPart, CurPart
      <4> QED
        BY <4>1, <4>2, <3>1
    <3>6. ASSUME NEW k \in Arriving', NEW l \in Arriving', k < l
          PROVE  Before(sent', inbox'[k], inbox'[l])
      <4>1. k \in Arriving /\ inbox'[k] = inbox[k]
        BY <3>1, <3>2, <3>3, <3>6
      <4>2. CASE l \in Arriving /\ inbox'[l] = inbox[l]
        BY <4>1, <4>2, <3>6, <1>2 DEF PipeInv, InboxPart
      <4>3. CASE inbox'[l] = m
        BY <4>1, <4>3, <3>4, <1>2
      <4> QED
        BY <4>2, <4>3, <3>1
    <3> QED
      BY <1>1, <3>5, <3>6 DEF InboxPart
  <2> QED
    BY <1>1, <2>1, <2>2
<1> QED
    BY <1>3, <1>4, <1>5, <1>6 DEF PipeInv

\* The head of the stream goes to the handler: everything dispatched is ahead
\* of it, and so is it of the rest.
LEMMA ReadKeepsOrder ==
    ASSUME TypeOK, WorkerInv, PipeInv, redisGetReply
    PROVE  PipeInv'
<1>1. /\ inbox \in Seq(Messages \cup {Ack})
      /\ UNCHANGED <<sent, dispatched>>
      /\ wpc = "blocked"
      /\ cur = None
    BY DEF redisGetReply, TypeOK, WorkerInv
<1>2. CASE UNCHANGED <<inbox, cur>>
    BY <1>1, <1>2, PipeThins, \A k \in Arriving : k + 0 = k /\ k \in DOMAIN inbox DEF Arriving
<1>3. CASE inbox # <<>> /\ inbox' = Tail(inbox)
  <2>1. /\ inbox' \in Seq(Messages \cup {Ack})
        /\ Head(inbox) = inbox[1]
        /\ Head(inbox) \in Messages \cup {Ack}
        /\ 1 \in DOMAIN inbox
        /\ \A k \in DOMAIN inbox' :
              k \in Nat /\ 1 < k + 1 /\ k + 1 \in DOMAIN inbox /\ inbox'[k] = inbox[k + 1]
    BY <1>1, <1>3
  <2>2. \A k \in Arriving' : k + 1 \in DOMAIN inbox /\ inbox'[k] = inbox[k + 1]
    BY <2>1 DEF Arriving
  <2>3. CASE Head(inbox) \notin Messages
    <3>1. cur' = cur
      BY <1>3, <2>3, <1>1 DEF redisGetReply
    <3> QED
      BY <1>1, <2>1, <2>2, <3>1, PipeThins
  <2>4. CASE Head(inbox) \in Messages
    <3>1. cur' = inbox[1] /\ 1 \in Arriving /\ cur' # None
      <4>1. cur' = Head(inbox)
        BY <1>2, <1>3, <2>4, <1>1, SubscriberAssumption DEF redisGetReply
      <4> QED
        BY <4>1, <2>1, <2>4, SubscriberAssumption DEF Arriving
    <3>2. CurPart'
      BY <3>1, <1>1 DEF PipeInv, InboxPart, CurPart
    <3>3. \A k \in Arriving' : k \in Nat /\ k + 1 \in Arriving /\ inbox'[k] = inbox[k + 1] /\ 1 < k + 1
      BY <2>1 DEF Arriving
    <3>4. InboxPart'
      <4>1. ASSUME NEW k \in Arriving'
            PROVE  /\ inbox'[k] \in Elements(sent)
                   /\ \A i \in DOMAIN dispatched : Before(sent, dispatched[i], inbox'[k])
                   /\ Before(sent, inbox[1], inbox'[k])
        BY <3>1, <3>3 DEF PipeInv, InboxPart
      <4>2. ASSUME NEW k \in Arriving', NEW l \in Arriving', k < l
            PROVE  Before(sent, inbox'[k], inbox'[l])
        <5>1. k + 1 < l + 1
          BY <3>3, <4>2
        <5> QED
          BY <5>1, <3>3 DEF PipeInv, InboxPart
      <4> QED
        BY <1>1, <3>1, <4>1, <4>2 DEF InboxPart
    <3>5. SentOnce' /\ DispatchedPart'
      BY <1>1 DEF PipeInv, SentOnce, DispatchedPart
    <3> QED
      BY <3>2, <3>4, <3>5 DEF PipeInv
  <2> QED
    BY <2>3, <2>4
<1> QED
    BY <1>2, <1>3 DEF redisGetReply, Unread

\* The handler's message joins those dispatched, ahead of the stream.
LEMMA HandlerKeepsOrder ==
    ASSUME TypeOK, WorkerInv, PipeInv, on_message
    PROVE  PipeInv'
<1>1. /\ dispatched \in Seq(Messages)
      /\ cur # None
      /\ cur \in Messages
      /\ dispatched' = Append(dispatched, cur)
      /\ cur' = None
      /\ UNCHANGED <<sent, inbox>>
    BY DEF on_message, TypeOK, WorkerInv, redisVars
<1>2. /\ DOMAIN dispatched' = 1 .. Len(dispatched) + 1
      /\ DOMAIN dispatched = 1 .. Len(dispatched)
      /\ \A i \in DOMAIN dispatched : dispatched'[i] = dispatched[i]
      /\ dispatched'[Len(dispatched) + 1] = cur
      /\ Len(dispatched) \in Nat
    BY <1>1
<1>3. \A i \in DOMAIN dispatched' :
         \/ i \in DOMAIN dispatched /\ dispatched'[i] = dispatched[i]
         \/ i = Len(dispatched) + 1 /\ dispatched'[i] = cur
    BY <1>2
<1>4. DispatchedPart'
  <2>1. ASSUME NEW i \in DOMAIN dispatched'
        PROVE  dispatched'[i] \in Elements(sent)
    BY <1>1, <1>3 DEF PipeInv, DispatchedPart, CurPart
  <2>2. ASSUME NEW i \in DOMAIN dispatched', NEW j \in DOMAIN dispatched', i < j
        PROVE  Before(sent, dispatched'[i], dispatched'[j])
    <3>1. i \in DOMAIN dispatched /\ dispatched'[i] = dispatched[i]
      BY <1>2, <2>2
    <3>2. CASE j \in DOMAIN dispatched /\ dispatched'[j] = dispatched[j]
      BY <3>1, <3>2, <2>2 DEF PipeInv, DispatchedPart
    <3>3. CASE dispatched'[j] = cur
      BY <3>1, <3>3, <1>1 DEF PipeInv, CurPart
    <3> QED
      BY <3>2, <3>3, <1>3
  <2> QED
    BY <1>1, <2>1, <2>2 DEF DispatchedPart
<1>5. InboxPart'
  <2>1. ASSUME NEW k \in Arriving, NEW i \in DOMAIN dispatched'
        PROVE  Before(sent, dispatched'[i], inbox[k])
    BY <1>1, <1>3 DEF PipeInv, InboxPart
  <2> QED
    BY <1>1, <2>1 DEF PipeInv, InboxPart, Arriving
<1>6. SentOnce' /\ CurPart'
    BY <1>1 DEF PipeInv, SentOnce, CurPart
<1> QED
    BY <1>4, <1>5, <1>6 DEF PipeInv

LEMMA StepKeepsOrder ==
    ASSUME TypeOK, TypeOK', WorkerInv, PipeInv, [Next]_vars
    PROVE  PipeInv'
<1>t. inbox \in Seq(Messages \cup {Ack}) /\ inbox' \in Seq(Messages \cup {Ack})
    BY DEF TypeOK
<1>a. \A k \in DOMAIN inbox : k \in Nat /\ k + 0 = k
    BY <1>t
<1>1. ASSUME UNCHANGED <<sent, dispatched, cur>>, inbox' = inbox
      PROVE  PipeInv'
    BY <1>1, <1>t, <1>a, PipeThins DEF Arriving
<1>2. ASSUME UNCHANGED <<sent, dispatched, cur>>, inbox' = <<>>
      PROVE  PipeInv'
  <2>1. Arriving' = {}
    BY <1>2 DEF Arriving
  <2> QED
    BY <1>2, <1>t, <2>1, PipeThins, 0 \in Nat
<1>3. ASSUME UNCHANGED <<sent, dispatched, cur>>, inbox' = Append(inbox, Ack)
      PROVE  PipeInv'
  <2>1. \A k \in Arriving' : k \in DOMAIN inbox /\ inbox'[k] = inbox[k]
    BY <1>3, <1>t DEF Arriving
  <2> QED
    BY <1>3, <1>t, <1>a, <2>1, PipeThins, 0 \in Nat
<1>4. CASE BreakLink
  <2>1. PICK n \in 0 .. Len(inbox) : inbox' = SubSeq(inbox, 1, n)
    BY <1>4 DEF BreakLink
  <2>2. \A k \in DOMAIN inbox' : k \in DOMAIN inbox /\ inbox'[k] = inbox[k]
    BY <1>t, <2>1
  <2> QED
    BY <1>4, <1>t, <1>a, <2>2, PipeThins, 0 \in Nat DEF BreakLink, Arriving
<1>5. CASE FreeReply
  <2>1. CASE inbox' = inbox
    BY <1>5, <2>1, <1>1 DEF FreeReply
  <2>2. CASE inbox # <<>> /\ inbox' = Tail(inbox)
    <3>1. \A k \in DOMAIN inbox' : k + 1 \in DOMAIN inbox /\ inbox'[k] = inbox[k + 1]
      BY <1>t, <2>2
    <3> QED
      BY <1>5, <1>t, <3>1, PipeThins, 1 \in Nat DEF FreeReply, Arriving
  <2> QED
    BY <1>5, <2>1, <2>2 DEF FreeReply, Unread
<1>6. CASE PSubscribe \/ Connect
    BY <1>6, <1>1, <1>2, <1>3 DEF PSubscribe, Connect, redisVars
<1>7. CASE start \/ stop \/ Joined \/ TestRunning \/ UNCHANGED vars
    BY <1>7, <1>1 DEF start, stop, Joined, TestRunning, redisVars, vars
<1>8. CASE redisFree
    BY <1>8, <1>2 DEF redisFree
<1> QED
    BY <1>4, <1>5, <1>6, <1>7, <1>8, PublishKeepsOrder, ReadKeepsOrder,
       HandlerKeepsOrder DEF Next, Worker, Done

LEMMA PipeAlways == Spec => []SubscriberInv
<1>1. Init => PipeInv
    BY InitPipe
<1>2. TypeOK /\ TypeOK' /\ WorkerInv /\ PipeInv /\ [Next]_vars => PipeInv'
    BY StepKeepsOrder
<1> QED
    BY <1>1, <1>2, SubscriberIsTypeCorrect, PTL DEF Spec, SubscriberInv

(* The handler sees messages in the order they were published and none twice,
   across any number of reconnections (on_message called from run_loop). *)
THEOREM DispatchKeepsOrder == Spec => []DispatchedInOrder
<1>1. SubscriberInv => DispatchedInOrder
  <2> SUFFICES ASSUME SubscriberInv,
                      NEW i \in DOMAIN dispatched, NEW j \in DOMAIN dispatched, i < j
               PROVE  Position(dispatched[i]) < Position(dispatched[j])
    BY DEF DispatchedInOrder
  <2>1. PICK a \in DOMAIN sent, b \in DOMAIN sent :
           a < b /\ sent[a] = dispatched[i] /\ sent[b] = dispatched[j]
    BY DEF SubscriberInv, PipeInv, DispatchedPart, Before
  <2>2. \A c \in DOMAIN sent : Position(sent[c]) = c
    BY DEF SubscriberInv, PipeInv, SentOnce, Position
  <2>3. Position(sent[a]) = a /\ Position(sent[b]) = b
    BY <2>2
  <2> QED
    BY <2>1, <2>3
<1> QED
    BY <1>1, PipeAlways, PTL

-----------------------------------------------------------------------------
(* What a step may never do.                                                *)

(* Once stop() has returned the worker has left run_loop: no handler runs any
   more, and main() may destroy what the handler writes to. *)
THEOREM StopIsFinal == Spec => NoHandlerAfterStop
<1>1. ASSUME WorkerInv, [Next]_vars, main = "stopped"
      PROVE  dispatched' = dispatched /\ wpc' = wpc
    BY <1>1 DEF WorkerInv, Next, Publish, BreakLink, start, stop, Joined, Worker,
       Connect, PSubscribe, FreeReply, TestRunning, redisGetReply, on_message,
       redisFree, Done, vars
<1>2. WorkerInv /\ [Next]_vars =>
         [main = "stopped" => dispatched' = dispatched /\ wpc' = wpc]_vars
    BY <1>1
<1> QED
    BY <1>2, SubscriberIsTypeCorrect, PTL DEF Spec, NoHandlerAfterStop

(* A message that reached the stream of a live connection stays in it, or goes
   to the handler, or has been handled: redisGetReply drops none, on_message
   drops none and a reconnection throws none away - only the read that takes a
   message for the reply to a PSUBSCRIBE does. *)
THEOREM OnlySubscribingLoses == Spec => LosesOnlyWhileSubscribing
<1> DEFINE Held(m) == m \in Elements(inbox) \cup {cur}
           Kept(m) == m \in Elements(inbox') \cup {cur'} \cup Elements(dispatched')
<1>1. ASSUME TypeOK, WorkerInv, [Next]_vars, NEW m \in Messages,
             Held(m), link' = "open", wpc # "reply"
      PROVE  Kept(m)
  <2>t. /\ inbox \in Seq(Messages \cup {Ack})
        /\ dispatched \in Seq(Messages)
        /\ cur \in Messages \cup {None}
        /\ m # None
    BY <1>1, SubscriberAssumption DEF TypeOK
  <2>1. ASSUME UNCHANGED <<inbox, cur>>
        PROVE  Kept(m)
    BY <1>1, <2>1
  <2>2. ASSUME NEW a \in Messages \cup {Ack}, inbox' = Append(inbox, a), cur' = cur
        PROVE  Kept(m)
    BY <1>1, <2>2, <2>t, OrderOfAppend
  <2>3. ASSUME NEW a \in Messages, Publish(a)
        PROVE  Kept(m)
    BY <2>3, <2>1, <2>2 DEF Publish
  <2>4. CASE Connect
    <3>1. link = "closed" /\ wpc # "handle" /\ inbox = <<>> /\ cur = None
      BY <1>1, <2>4 DEF Connect, WorkerInv
    <3> QED
      BY <1>1, <3>1, <2>t DEF Elements
  <2>5. CASE PSubscribe
    BY <2>5, <2>1, <2>2 DEF PSubscribe, redisVars
  <2>6. CASE redisGetReply
    <3>1. cur = None
      BY <1>1, <2>6 DEF redisGetReply, WorkerInv
    <3>2. CASE UNCHANGED <<inbox, cur>>
      BY <3>2, <2>1
    <3>3. CASE inbox # <<>> /\ inbox' = Tail(inbox) /\ ~UNCHANGED <<inbox, cur>>
      <4>1. PICK k \in DOMAIN inbox : inbox[k] = m
        BY <1>1, <3>1, <2>t DEF Elements
      <4>2. CASE k = 1
        <5>1. Head(inbox) = m
          BY <4>1, <4>2, <2>t
        <5> QED
          BY <5>1, <2>6, <3>3 DEF redisGetReply
      <4>3. CASE k # 1
        <5>1. k - 1 \in DOMAIN Tail(inbox) /\ Tail(inbox)[k - 1] = inbox[k]
          BY <4>3, <3>3, <2>t
        <5> QED
          BY <5>1, <4>1, <3>3 DEF Elements
      <4> QED
        BY <4>2, <4>3
    <3> QED
      BY <2>6, <3>2, <3>3 DEF redisGetReply, Unread
  <2>7. CASE on_message
    <3>1. /\ dispatched' = Append(dispatched, cur)
          /\ inbox' = inbox
          /\ cur \in Messages
      BY <1>1, <2>7, <2>t DEF on_message, WorkerInv, redisVars
    <3>2. cur \in Elements(dispatched')
      BY <3>1, <2>t, OrderOfAppend
    <3> QED
      BY <1>1, <3>1, <3>2
  <2>8. CASE start \/ stop \/ Joined \/ TestRunning \/ UNCHANGED vars
    BY <2>8, <2>1 DEF start, stop, Joined, TestRunning, redisVars, vars
  <2> QED
    BY <1>1, <2>3, <2>4, <2>5, <2>6, <2>7, <2>8
       DEF Next, Worker, Done, BreakLink, FreeReply, redisFree
<1>2. TypeOK /\ WorkerInv /\ [Next]_vars =>
         [\A m \in Messages :
             /\ m \in Elements(inbox) \cup {cur}
             /\ running
             /\ link' = "open"
             /\ wpc # "reply"
             => m \in Elements(inbox') \cup {cur'} \cup Elements(dispatched')]_vars
    BY <1>1
<1> QED
    BY <1>2, SubscriberIsTypeCorrect, PTL DEF Spec, LosesOnlyWhileSubscribing
=============================================================================
