--------------------------- MODULE MessagingProofs ---------------------------
(***************************************************************************)
(* Proofs about Messaging, for any messages and consumers, and any bounds. *)
(***************************************************************************)
EXTENDS Messaging, FiniteSetTheorems, TLAPS

LEMMA Bounds == /\ MaxRetries \in Nat /\ Prefetch \in Nat /\ LastConn \in Nat \ {0}
                /\ MaxFaults \in Nat /\ 1 \in Conns /\ Conns \subseteq Nat
  BY BoundsAssumption DEF Conns

LEMMA MoreType ==
  ASSUME NEW n \in 0 .. MaxRetries
  PROVE  More(n) \in 0 .. MaxRetries /\ More(n) >= n
  BY Bounds DEF More

(***************************************************************************)
(* Types.                                                                  *)
(***************************************************************************)
PublisherType ==
  /\ mu \in Msgs \cup {None} /\ conn \in Conns /\ dialled \in Conns
  /\ open \subseteq Conns /\ chan \subseteq open
  /\ call \in [Msgs -> {"new", "waiting", "send", "reconnect", "ok", "err"}]
  /\ attempt \in 0 .. MaxRetries /\ closed \in BOOLEAN
  /\ trouble \in [Msgs -> 0 .. MaxRetries]

BrokerType ==
  /\ shut \subseteq Conns /\ wire \in [Conns -> Seq(Msgs)] /\ ready \subseteq Msgs
  /\ unacked \in [Consumers -> SUBSET Msgs]
  /\ acked \subseteq Msgs /\ dead \subseteq Msgs /\ lost \subseteq Msgs
  /\ faults \in 0 .. MaxFaults

ConsumerType ==
  /\ stage \in [Consumers -> {"new", "open", "loop", "ack", "nack", "returned"}]
  /\ up \in [Consumers -> BOOLEAN] /\ qos \in [Consumers -> Nat \cup {None}]
  /\ inbox \in [Consumers -> Seq(Msgs)] /\ job \in [Consumers -> Msgs \cup {None}]
  /\ ranOk \subseteq Msgs /\ ranErr \subseteq Msgs

\* An acknowledgement is sent for a message, which a handler has run on with the
\* result that decides which one.
Jobs ==
  \A k \in Consumers : /\ stage[k] = "ack"  => job[k] \in ranOk
                       /\ stage[k] = "nack" => job[k] \in ranErr

TInv == PublisherType /\ BrokerType /\ ConsumerType /\ Jobs

LEMMA TypeParts == TypeOK <=> PublisherType /\ BrokerType /\ ConsumerType
  BY DEF TypeOK, PublisherType, BrokerType, ConsumerType

LEMMA TInvInit == Init => TInv
  <1> SUFFICES ASSUME Init PROVE TInv
    OBVIOUS
  <1>1. PublisherType
    <2>1. trouble \in [Msgs -> 0 .. MaxRetries] /\ attempt \in 0 .. MaxRetries
      BY Bounds DEF Init
    <2>4. closed \in BOOLEAN
      BY Zenon DEF Init
    <2>2. call \in [Msgs -> {"new", "waiting", "send", "reconnect", "ok", "err"}]
      BY DEF Init
    <2>3. /\ mu \in Msgs \cup {None} /\ conn \in Conns /\ dialled \in Conns
          /\ open \subseteq Conns /\ chan \subseteq open
      BY Bounds DEF Init
    <2> QED
      BY <2>1, <2>2, <2>3, <2>4 DEF PublisherType
  <1>2. BrokerType
    <2>1. [c \in Conns |-> <<>>] \in [Conns -> Seq(Msgs)]
      OBVIOUS
    <2> QED
      BY <2>1, Bounds DEF Init, BrokerType
  <1>3. ConsumerType
    <2>1. [k \in Consumers |-> <<>>] \in [Consumers -> Seq(Msgs)]
      OBVIOUS
    <2> QED
      BY <2>1 DEF Init, ConsumerType
  <1>4. Jobs
    BY DEF Init, Jobs
  <1> QED
    BY <1>1, <1>2, <1>3, <1>4 DEF TInv

LEMMA SameConsumers == TInv /\ UNCHANGED consumers => ConsumerType' /\ Jobs'
  BY DEF TInv, consumers, ConsumerType, Jobs

LEMMA SameBroker == TInv /\ UNCHANGED <<broker, faults>> => BrokerType'
  BY DEF TInv, broker, BrokerType

LEMMA SamePublisher == TInv /\ UNCHANGED publisher => PublisherType'
  BY DEF TInv, publisher, PublisherType

\* The steps of the calls and of Close.
LEMMA TypeCall ==
  ASSUME TInv, ClosePublisher \/ \E m \in Msgs : Publish(m) \/ TakeMutex(m) \/ Calling(m)
  PROVE  TInv'
  <1> USE DEF TInv, Phase
  <1>1. ASSUME NEW m \in Msgs, Publish(m) PROVE TInv'
    <2>1. PublisherType'
      BY <1>1 DEF Publish, PublisherType
    <2> QED
      BY <1>1, <2>1, SameBroker, SameConsumers DEF Publish
  <1>2. ASSUME NEW m \in Msgs, TakeMutex(m) PROVE TInv'
    <2>1. PublisherType'
      <3>1. mu' \in Msgs \cup {None} /\ attempt' \in 0 .. MaxRetries
        BY <1>2, Bounds DEF TakeMutex
      <3>3. closed' \in BOOLEAN
        BY <1>2, Zenon DEF TakeMutex
      <3>2. call' \in [Msgs -> {"new", "waiting", "send", "reconnect", "ok", "err"}]
        BY <1>2 DEF TakeMutex, PublisherType
      <3> QED
        BY <1>2, <3>1, <3>2, <3>3 DEF TakeMutex, PublisherType
    <2> QED
      BY <1>2, <2>1, SameBroker, SameConsumers DEF TakeMutex
  <1>3. ASSUME NEW m \in Msgs, Send(m) PROVE TInv'
    <2> USE DEF Send, ReturnFrom
    <2>1. PublisherType'
      <3>1. trouble' \in [Msgs -> 0 .. MaxRetries]
        BY <1>3, Bounds DEF PublisherType
      <3>2. call' \in [Msgs -> {"new", "waiting", "send", "reconnect", "ok", "err"}]
        BY <1>3 DEF PublisherType
      <3>3. attempt' \in 0 .. MaxRetries /\ mu' \in Msgs \cup {None}
        BY <1>3, Bounds DEF PublisherType
      <3> QED
        BY <1>3, <3>1, <3>2, <3>3 DEF PublisherType
    <2>2. BrokerType'
      <3>1. conn \in Conns /\ wire[conn] \in Seq(Msgs)
        BY DEF PublisherType, BrokerType
      <3>2. Append(wire[conn], m) \in Seq(Msgs)
        BY <3>1
      <3>3. wire' \in [Conns -> Seq(Msgs)]
        BY <1>3, <3>1, <3>2 DEF BrokerType
      <3> QED
        BY <1>3, <3>3 DEF BrokerType
    <2> QED
      BY <1>3, <2>1, <2>2, SameConsumers
  <1>4. ASSUME NEW m \in Msgs, Reconnect(m) PROVE TInv'
    <2>1. PublisherType'
      <3>1. attempt' \in 0 .. MaxRetries /\ mu' \in Msgs \cup {None}
        BY <1>4, Bounds DEF Reconnect, TryAgain, ReturnFrom, PublisherType
      <3>2. call' \in [Msgs -> {"new", "waiting", "send", "reconnect", "ok", "err"}]
        BY <1>4 DEF Reconnect, TryAgain, ReturnFrom, PublisherType
      <3>3. trouble' \in [Msgs -> 0 .. MaxRetries]
        BY <1>4, MoreType DEF Reconnect, PublisherType
      <3>4. conn' \in Conns /\ dialled' \in Conns /\ open' \subseteq Conns
            /\ chan' \subseteq open'
        <4>1. CASE UNCHANGED <<dialled, conn, open, chan>>
          BY <4>1 DEF PublisherType
        <4>2. CASE dialled < LastConn
          <5>1. dialled + 1 \in Conns
            BY <4>2, Bounds DEF Conns, PublisherType
          <5> QED
            BY <1>4, <4>1, <5>1 DEF Reconnect, PublisherType
        <4> QED
          BY <1>4, <4>1, <4>2 DEF Reconnect
      <3>5. closed' \in BOOLEAN
        BY <1>4 DEF Reconnect, PublisherType
      <3> QED
        BY <3>1, <3>2, <3>3, <3>4, <3>5 DEF PublisherType
    <2> QED
      BY <1>4, <2>1, SameBroker, SameConsumers DEF Reconnect
  <1>5. CASE ClosePublisher
    <2>1. PublisherType'
      BY <1>5 DEF ClosePublisher, PublisherType
    <2> QED
      BY <1>5, <2>1, SameBroker, SameConsumers DEF ClosePublisher
  <1> QED
    BY <1>1, <1>2, <1>3, <1>4, <1>5 DEF Calling

LEMMA TroubledType ==
  ASSUME TInv, NEW c, Troubled(c)
  PROVE  /\ trouble' \in [Msgs -> 0 .. MaxRetries]
         /\ \A m \in Msgs : trouble'[m] = IF mu = m /\ c = conn /\ c \in chan
                                          THEN More(trouble[m]) ELSE trouble[m]
  <1>1. \A m \in Msgs : trouble[m] \in 0 .. MaxRetries
    BY DEF TInv, PublisherType
  <1>2. \A m \in Msgs : More(trouble[m]) \in 0 .. MaxRetries
    BY <1>1, MoreType
  <1> QED
    BY <1>1, <1>2 DEF Troubled

\* The steps of the broker and the network.
LEMMA TypeBroker ==
  ASSUME TInv, NEW c \in Conns, BrokerReads(c) \/ ChannelCloses(c) \/ ConnectionFails(c)
  PROVE  TInv'
  <1> USE DEF TInv
  <1>1. CASE BrokerReads(c)
    <2>1. wire[c] \in Seq(Msgs) /\ wire[c] # <<>>
      BY <1>1 DEF BrokerReads, BrokerType
    <2>2. Head(wire[c]) \in Msgs /\ Tail(wire[c]) \in Seq(Msgs)
      BY <2>1
    <2>3. BrokerType'
      BY <1>1, <2>2 DEF BrokerReads, BrokerType
    <2> QED
      BY <1>1, <2>3, SamePublisher, SameConsumers DEF BrokerReads
  <1>2. CASE ChannelCloses(c)
    <2>1. PublisherType'
      BY <1>2, TroubledType DEF ChannelCloses, PublisherType
    <2> QED
      BY <1>2, <2>1, SameBroker, SameConsumers DEF ChannelCloses
  <1>3. CASE ConnectionFails(c)
    <2>1. PICK n \in 0 .. Len(wire[c]) :
            /\ wire' = [wire EXCEPT ![c] = SubSeq(@, 1, n)]
            /\ lost' = lost \cup ToSet(SubSeq(wire[c], n + 1, Len(wire[c])))
      BY <1>3 DEF ConnectionFails
    <2>2. wire[c] \in Seq(Msgs) /\ n \in Nat
      BY DEF BrokerType
    <2>3. /\ SubSeq(wire[c], 1, n) \in Seq(Msgs)
          /\ SubSeq(wire[c], n + 1, Len(wire[c])) \in Seq(Msgs)
      BY <2>2
    <2>4. ToSet(SubSeq(wire[c], n + 1, Len(wire[c]))) \subseteq Msgs
      BY <2>3 DEF ToSet
    <2>5. BrokerType'
      <3>1. faults' \in 0 .. MaxFaults
        BY <1>3, Bounds DEF ConnectionFails, Fault, BrokerType
      <3> QED
        BY <1>3, <2>1, <2>3, <2>4, <3>1 DEF ConnectionFails, BrokerType
    <2>6. PublisherType'
      BY <1>3, TroubledType DEF ConnectionFails, PublisherType
    <2> QED
      BY <1>3, <2>5, <2>6, SameConsumers DEF ConnectionFails
  <1> QED
    BY <1>1, <1>2, <1>3

LEMMA Requeued ==
  ASSUME TInv, NEW k \in Consumers, Requeue(k)
  PROVE  ready' \subseteq Msgs /\ unacked' \in [Consumers -> SUBSET Msgs]
  BY DEF TInv, BrokerType, Requeue

LEMMA Discarded ==
  ASSUME TInv, NEW k \in Consumers, Discard(k), UNCHANGED <<ranOk, ranErr>>
  PROVE  ConsumerType' /\ Jobs'
  <1>1. ConsumerType'
    BY DEF TInv, ConsumerType, Discard, Goto
  <1>2. Jobs'
    BY DEF TInv, ConsumerType, Jobs, Discard, Goto
  <1> QED
    BY <1>1, <1>2

\* The steps of a consumer, and what happens to it.
LEMMA TypeConsumer ==
  ASSUME TInv, NEW k \in Consumers,
         \/ \E m \in Msgs : Deliver(k, m)
         \/ Consuming(k) \/ ConsumerCut(k) \/ Cancelled(k) \/ Crash(k)
  PROVE  TInv'
  <1> USE DEF TInv
  <1>f. Fault => faults' \in 0 .. MaxFaults
    BY Bounds DEF Fault, BrokerType
  <1>1. CASE \E m \in Msgs : Deliver(k, m)
    <2>1. BrokerType'
      BY <1>1 DEF Deliver, BrokerType
    <2>2. ConsumerType'
      <3>1. PICK m \in Msgs : inbox' = [inbox EXCEPT ![k] = Append(@, m)]
        BY <1>1 DEF Deliver
      <3>2. Append(inbox[k], m) \in Seq(Msgs)
        BY DEF ConsumerType
      <3> QED
        BY <1>1, <3>1, <3>2 DEF Deliver, ConsumerType
    <2>3. Jobs'
      BY <1>1 DEF Deliver, Jobs
    <2> QED
      BY <1>1, <2>1, <2>2, <2>3, SamePublisher DEF Deliver
  <1>2. CASE NewConsumer(k)
    <2>1. ConsumerType'
      BY <1>2 DEF NewConsumer, Goto, ConsumerType
    <2>2. Jobs'
      BY <1>2 DEF NewConsumer, Goto, ConsumerType, Jobs
    <2> QED
      BY <1>2, <2>1, <2>2, SamePublisher, SameBroker DEF NewConsumer
  <1>3. CASE Consume(k)
    <2>1. ConsumerType'
      BY <1>3, Bounds DEF Consume, Goto, ConsumerType
    <2>2. Jobs'
      BY <1>3 DEF Consume, Goto, ConsumerType, Jobs
    <2> QED
      BY <1>3, <2>1, <2>2, SamePublisher, SameBroker DEF Consume
  <1>4. CASE Handle(k)
    <2>1. inbox[k] \in Seq(Msgs) /\ inbox[k] # <<>>
      BY <1>4 DEF Handle, ConsumerType
    <2>2. Head(inbox[k]) \in Msgs /\ Tail(inbox[k]) \in Seq(Msgs)
      BY <2>1
    <2>3. ConsumerType'
      BY <1>4, <2>2 DEF Handle, Goto, ConsumerType
    <2>4. Jobs'
      BY <1>4, <2>2 DEF Handle, Goto, ConsumerType, Jobs
    <2> QED
      BY <1>4, <2>3, <2>4, SamePublisher, SameBroker DEF Handle
  <1>5. CASE Settle(k)
    <2>1. job[k] \in Msgs
      BY <1>5 DEF Settle, Jobs, ConsumerType
    <2>2. BrokerType'
      BY <1>5, <2>1 DEF Settle, BrokerType
    <2>3. ConsumerType'
      BY <1>5 DEF Settle, Goto, ConsumerType
    <2>4. Jobs'
      BY <1>5 DEF Settle, Goto, ConsumerType, Jobs
    <2> QED
      BY <1>5, <2>2, <2>3, <2>4, SamePublisher DEF Settle
  <1>6. CASE ChannelGone(k)
    <2>1. ConsumerType'
      BY <1>6 DEF ChannelGone, Goto, ConsumerType
    <2>2. Jobs'
      BY <1>6 DEF ChannelGone, Goto, ConsumerType, Jobs
    <2> QED
      BY <1>6, <2>1, <2>2, SamePublisher, SameBroker DEF ChannelGone
  <1>7. CASE CloseConsumer(k)
    <2>1. BrokerType'
      BY <1>7, Requeued DEF CloseConsumer, Discard, BrokerType
    <2> QED
      BY <1>7, <2>1, Discarded, SamePublisher DEF CloseConsumer
  <1>8. CASE ConsumerCut(k)
    <2>1. BrokerType'
      BY <1>8, <1>f, Requeued DEF ConsumerCut, BrokerType
    <2>2. ConsumerType'
      BY <1>8 DEF ConsumerCut, ConsumerType
    <2>3. Jobs'
      BY <1>8 DEF ConsumerCut, Jobs
    <2> QED
      BY <1>8, <2>1, <2>2, <2>3, SamePublisher DEF ConsumerCut
  <1>9. CASE Cancelled(k)
    <2>1. BrokerType'
      BY <1>9, <1>f DEF Cancelled, broker, BrokerType
    <2>2. ConsumerType'
      BY <1>9 DEF Cancelled, Goto, ConsumerType
    <2>3. Jobs'
      BY <1>9 DEF Cancelled, Goto, ConsumerType, Jobs
    <2> QED
      BY <1>9, <2>1, <2>2, <2>3, SamePublisher DEF Cancelled
  <1>10. CASE Crash(k)
    <2>1. BrokerType'
      BY <1>10, <1>f, Requeued DEF Crash, Discard, BrokerType
    <2> QED
      BY <1>10, <2>1, Discarded, SamePublisher DEF Crash
  <1> QED
    BY <1>1, <1>2, <1>3, <1>4, <1>5, <1>6, <1>7, <1>8, <1>9, <1>10 DEF Consuming

LEMMA TInvNext == TInv /\ [Next]_vars => TInv'
  <1> SUFFICES ASSUME TInv, [Next]_vars PROVE TInv'
    OBVIOUS
  <1>1. CASE Next
    BY <1>1, TypeCall, TypeBroker, TypeConsumer DEF Next
  <1>2. CASE UNCHANGED vars
    BY <1>2, SamePublisher, SameBroker, SameConsumers DEF vars, TInv
  <1> QED
    BY <1>1, <1>2

LEMMA TInvAlways == Spec => []TInv
  BY TInvInit, TInvNext, PTL DEF Spec

\* Type correctness of the publisher, the broker and the consumers (publisher.go 13-30,
\* consumer.go 13-36).
THEOREM Typing == Spec => []TypeOK
  <1>1. TInv => TypeOK
    BY TypeParts DEF TInv
  <1> QED
    BY <1>1, TInvAlways, PTL

(***************************************************************************)
(* Acknowledgements.                                                       *)
(***************************************************************************)
\* Whatever crashes and whatever is delivered again, a message leaves the queue for
\* good only after a handler has run on it, with the result that its acknowledgement
\* says (consumer.go 58-67).
THEOREM AcksAreEarned == Spec => []AckIsEarned
  <1>1. Init => AckIsEarned
    BY DEF Init, AckIsEarned
  <1>2. TInv /\ AckIsEarned /\ [Next]_vars => AckIsEarned'
    <2> SUFFICES ASSUME TInv, AckIsEarned, [Next]_vars PROVE AckIsEarned'
      OBVIOUS
    <2>1. ranOk \subseteq ranOk' /\ ranErr \subseteq ranErr'
      BY DEF Next, vars, Publish, TakeMutex, Calling, Send, Reconnect, ClosePublisher,
             BrokerReads, ChannelCloses, ConnectionFails, Deliver, Consuming, NewConsumer,
             Consume, Handle, Settle, ChannelGone, CloseConsumer, ConsumerCut, Cancelled,
             Crash, consumers
    <2>2. ASSUME NEW k \in Consumers, Settle(k) PROVE AckIsEarned'
      BY <2>1, <2>2 DEF Settle, AckIsEarned, TInv, Jobs
    <2>3. ASSUME ~ \E k \in Consumers : Settle(k) PROVE UNCHANGED <<acked, dead>>
      BY <2>3 DEF Next, vars, Publish, TakeMutex, Calling, Send, Reconnect, ClosePublisher,
             BrokerReads, ChannelCloses, ConnectionFails, Deliver, Consuming, NewConsumer,
             Consume, Handle, ChannelGone, CloseConsumer, ConsumerCut, Cancelled,
             Crash, broker
    <2> QED
      BY <2>1, <2>2, <2>3 DEF AckIsEarned
  <1> QED
    BY <1>1, <1>2, TInvAlways, PTL DEF Spec

(***************************************************************************)
(* Retries.                                                                *)
(***************************************************************************)
\* At most one call is between Lock and Unlock, and it is the one that mu names.
Holder == \A m \in Msgs : call[m] \in {"send", "reconnect"} <=> mu = m

\* Each attempt but one is owed to a failure during the call: the one that is not
\* has found the channel broken when the call began.
Tally ==
  \A m \in Msgs :
    /\ call[m] = "reconnect" => conn \notin chan /\ trouble[m] >= attempt
    /\ call[m] = "send" /\ conn \in chan => trouble[m] + 1 >= attempt
    /\ call[m] = "send" /\ conn \notin chan => trouble[m] >= attempt
    /\ call[m] = "err" => trouble[m] >= MaxRetries

RInv == TInv /\ Holder /\ Tally

\* A channel or a connection that goes is a failure of the call that is using it.
LEMMA TallyTroubled ==
  ASSUME RInv, NEW c \in Conns, Troubled(c), chan' = chan \ {c},
         UNCHANGED <<mu, conn, call, attempt>>
  PROVE  Holder' /\ Tally'
  <1>1. Holder'
    BY DEF RInv, Holder
  <1>2. ASSUME NEW m \in Msgs
        PROVE  /\ trouble[m] \in 0 .. MaxRetries /\ attempt \in 0 .. MaxRetries
               /\ trouble'[m] \in 0 .. MaxRetries /\ trouble'[m] >= trouble[m]
               /\ mu = m /\ c = conn /\ c \in chan /\ trouble[m] < MaxRetries
                    => trouble'[m] = trouble[m] + 1
               /\ mu = m /\ c = conn /\ c \in chan /\ trouble[m] = MaxRetries
                    => trouble'[m] = MaxRetries
    BY <1>2, TroubledType, MoreType, Bounds DEF RInv, TInv, PublisherType, More
  <1>3. ASSUME NEW m \in Msgs
        PROVE  /\ call'[m] = "reconnect" => conn' \notin chan' /\ trouble'[m] >= attempt'
               /\ call'[m] = "send" /\ conn' \in chan' => trouble'[m] + 1 >= attempt'
               /\ call'[m] = "send" /\ conn' \notin chan' => trouble'[m] >= attempt'
               /\ call'[m] = "err" => trouble'[m] >= MaxRetries
    BY <1>2, <1>3, Bounds DEF RInv, Holder, Tally
  <1> QED
    BY <1>1, <1>3 DEF Tally

LEMMA RInvInit == Init => RInv
  <1> SUFFICES ASSUME Init PROVE RInv
    OBVIOUS
  <1>1. Holder /\ Tally
    BY MsgsAssumption DEF Init, Holder, Tally
  <1> QED
    BY <1>1, TInvInit DEF RInv

LEMMA RInvNext == RInv /\ [Next]_vars => RInv'
  <1> SUFFICES ASSUME RInv, [Next]_vars PROVE Holder' /\ Tally'
    BY TInvNext DEF RInv
  <1>t. /\ None \notin Msgs /\ attempt \in 0 .. MaxRetries /\ MaxRetries \in Nat
        /\ call \in [Msgs -> {"new", "waiting", "send", "reconnect", "ok", "err"}]
        /\ trouble \in [Msgs -> 0 .. MaxRetries]
    BY MsgsAssumption, Bounds DEF RInv, TInv, PublisherType
  <1> USE DEF RInv, Phase
  <1>1. ASSUME NEW m \in Msgs, Publish(m) PROVE Holder' /\ Tally'
    BY <1>1, <1>t DEF Publish, Holder, Tally
  <1>2. ASSUME NEW m \in Msgs, TakeMutex(m) PROVE Holder' /\ Tally'
    BY <1>2, <1>t DEF TakeMutex, Holder, Tally
  <1>3. ASSUME NEW m \in Msgs, Send(m) PROVE Holder' /\ Tally'
    <2>1. Holder'
      BY <1>3, <1>t DEF Send, ReturnFrom, Holder
    <2>2. Tally'
      BY <1>3, <1>t DEF Send, ReturnFrom, Holder, Tally
    <2> QED
      BY <2>1, <2>2
  <1>4. ASSUME NEW m \in Msgs, Reconnect(m) PROVE Holder' /\ Tally'
    <2>1. Holder'
      BY <1>4, <1>t DEF Reconnect, TryAgain, ReturnFrom, Holder
    <2>2. Tally'
      <3>1. mu = m /\ trouble[m] >= attempt /\ trouble[m] \in Nat /\ attempt \in Nat
        BY <1>4, <1>t DEF Reconnect, Holder, Tally
      <3>2. \A n \in Msgs \ {m} : /\ call[n] \notin {"send", "reconnect"}
                                  /\ call'[n] = call[n] /\ trouble'[n] = trouble[n]
        BY <1>4, <1>t, <3>1 DEF Reconnect, TryAgain, ReturnFrom, Holder
      <3>3. CASE UNCHANGED trouble /\ conn' \in chan'
        BY <1>4, <1>t, <3>1, <3>2, <3>3 DEF Reconnect, TryAgain, ReturnFrom, Tally
      <3>4. CASE trouble' = [trouble EXCEPT ![m] = More(@)] /\ UNCHANGED <<conn, chan>>
        <4>1. \/ trouble'[m] = trouble[m] + 1
              \/ trouble[m] >= MaxRetries /\ trouble'[m] = trouble[m]
          BY <1>t, <3>4 DEF More
        <4>2. conn' \notin chan'
          BY <1>4, <3>4 DEF Reconnect, Tally
        <4> QED
          BY <1>4, <1>t, <3>1, <3>2, <4>1, <4>2 DEF Reconnect, TryAgain, ReturnFrom, Tally
      <3> QED
        BY <1>4, <3>3, <3>4 DEF Reconnect
    <2> QED
      BY <2>1, <2>2
  <1>5. CASE ClosePublisher
    <2>1. \A m \in Msgs : call[m] \notin {"send", "reconnect"}
      BY <1>5, <1>t DEF ClosePublisher, Holder
    <2> QED
      BY <1>5, <2>1 DEF ClosePublisher, Holder, Tally
  <1>6. ASSUME NEW c \in Conns, ChannelCloses(c) \/ ConnectionFails(c) PROVE Holder' /\ Tally'
    BY <1>6, TallyTroubled DEF ChannelCloses, ConnectionFails
  <1>7. CASE UNCHANGED <<mu, call, conn, chan, attempt, trouble>>
    BY <1>7 DEF Holder, Tally
  <1>8. CASE \E c \in Conns : BrokerReads(c)
    BY <1>7, <1>8 DEF BrokerReads, publisher
  <1>9. CASE \E k \in Consumers : \/ \E m \in Msgs : Deliver(k, m)
                                  \/ Consuming(k)
                                  \/ ConsumerCut(k) \/ Cancelled(k) \/ Crash(k)
    BY <1>7, <1>9 DEF Deliver, Consuming, NewConsumer, Consume, Handle, Settle,
       ChannelGone, CloseConsumer, ConsumerCut, Cancelled, Crash, publisher
  <1>10. CASE UNCHANGED vars
    BY <1>7, <1>10 DEF vars, publisher
  <1> QED
    BY <1>1, <1>2, <1>3, <1>4, <1>5, <1>6, <1>8, <1>9, <1>10 DEF Next, Calling

\* An error of Publish takes as many failures during the call as there are retries: one
\* that finds the channel already broken delivers its message all the same, for every
\* number of retries, connections and callers (publisher.go 63-76).
THEOREM ErrorsAreEarned == Spec => []RetriesHelp
  <1>1. RInv => RetriesHelp
    BY DEF RInv, Tally, RetriesHelp
  <1> QED
    BY <1>1, RInvInit, RInvNext, PTL DEF Spec

(***************************************************************************)
(* Where a message is.                                                     *)
(***************************************************************************)
At(m, c, i) == i \in 1 .. Len(wire[c]) /\ wire[c][i] = m
Written(m)  == \E c \in Conns : \E i \in Nat : At(m, c, i)
Held(m)     == \E k \in Consumers : m \in unacked[k]
Placed(m)   == m \in ready \/ m \in acked \/ m \in dead \/ m \in lost

OnWireOnce(m) ==
  \A c \in Conns, d \in Conns : \A i \in Nat, j \in Nat :
     At(m, c, i) /\ At(m, d, j) => c = d /\ i = j

HeldOnce(m) == \A k \in Consumers, l \in Consumers :
                  m \in unacked[k] /\ m \in unacked[l] => k = l

Apart(m) == /\ Written(m) => ~Held(m) /\ ~Placed(m)
            /\ Held(m) => ~Placed(m)
            /\ m \in ready => m \notin acked /\ m \notin dead /\ m \notin lost
            /\ m \in acked => m \notin dead /\ m \notin lost
            /\ m \in dead  => m \notin lost

\* A message is at one place, and there because Publish has returned nil.
OnePlace(m) == /\ OnWireOnce(m) /\ HeldOnce(m) /\ Apart(m)
               /\ (Written(m) \/ Held(m) \/ Placed(m)) <=> call[m] = "ok"

\* While its channel is open, what a consumer has in hand is what the broker waits
\* for, each delivery once; a consumer that is made has nothing in hand.
HandOf(k) ==
  /\ stage[k] = "new" => ~up[k] /\ inbox[k] = <<>>
  /\ stage[k] \in {"ack", "nack"} <=> job[k] # None
  /\ up[k] => /\ job[k] # None => job[k] \in unacked[k]
              /\ \A i \in 1 .. Len(inbox[k]) : /\ inbox[k][i] \in unacked[k]
                                               /\ inbox[k][i] # job[k]
              /\ \A i, j \in 1 .. Len(inbox[k]) : inbox[k][i] = inbox[k][j] => i = j

InHand == \A k \in Consumers : HandOf(k)

PInv == TInv /\ InHand /\ \A m \in Msgs : OnePlace(m)

\* Nothing moves.
LEMMA Unmoved ==
  ASSUME NEW m \in Msgs, OnePlace(m),
         UNCHANGED <<wire, ready, unacked, acked, dead, lost>>,
         call'[m] = "ok" <=> call[m] = "ok"
  PROVE  OnePlace(m)'
  BY DEF OnePlace, OnWireOnce, HeldOnce, Apart, Written, Held, Placed, At

\* What is left of a wire is where it was, but for an offset.
LEMMA Rest ==
  ASSUME TInv, NEW c \in Conns, NEW s \in Seq(Msgs), NEW o \in Nat,
         Len(s) + o <= Len(wire[c]),
         \A i \in 1 .. Len(s) : s[i] = wire[c][i + o],
         wire' = [wire EXCEPT ![c] = s],
         NEW m \in Msgs, OnWireOnce(m)
  PROVE  /\ OnWireOnce(m)'
         /\ Written(m)' <=> \/ \E d \in Conns \ {c} : \E i \in Nat : At(m, d, i)
                            \/ \E i \in 1 .. Len(s) : wire[c][i + o] = m
  <1>1. wire'[c] = s /\ \A d \in Conns \ {c} : wire'[d] = wire[d]
    BY DEF TInv, BrokerType
  <1>2. wire[c] \in Seq(Msgs) /\ Len(wire[c]) \in Nat /\ Len(s) \in Nat
    BY DEF TInv, BrokerType
  <1>3. ASSUME NEW i \in Nat PROVE At(m, c, i)' => At(m, c, i + o)
    BY <1>1, <1>2 DEF At
  <1>4. ASSUME NEW d \in Conns \ {c}, NEW i \in Nat PROVE At(m, d, i)' <=> At(m, d, i)
    BY <1>1 DEF At
  <1>5. OnWireOnce(m)'
    <2> SUFFICES ASSUME NEW d \in Conns, NEW e \in Conns, NEW i \in Nat, NEW j \in Nat,
                        At(m, d, i)', At(m, e, j)'
                 PROVE  d = e /\ i = j
      BY DEF OnWireOnce
    <2>1. CASE d = c /\ e = c
      <3>1. At(m, c, i + o) /\ At(m, c, j + o) /\ i + o \in Nat /\ j + o \in Nat
        BY <1>3, <2>1
      <3>2. i + o = j + o
        BY <3>1 DEF OnWireOnce
      <3> QED
        BY <2>1, <3>2
    <2>2. CASE d = c /\ e # c
      <3>1. At(m, c, i + o) /\ At(m, e, j) /\ i + o \in Nat
        BY <1>3, <1>4, <2>2
      <3> QED
        BY <2>2, <3>1 DEF OnWireOnce
    <2>3. CASE d # c /\ e = c
      <3>1. At(m, d, i) /\ At(m, c, j + o) /\ j + o \in Nat
        BY <1>3, <1>4, <2>3
      <3> QED
        BY <2>3, <3>1 DEF OnWireOnce
    <2>4. CASE d # c /\ e # c
      BY <1>4, <2>4 DEF OnWireOnce
    <2> QED
      BY <2>1, <2>2, <2>3, <2>4
  <1>6. (\E i \in Nat : At(m, c, i)') <=> \E i \in 1 .. Len(s) : wire[c][i + o] = m
    BY <1>1, <1>2 DEF At
  <1>7. Written(m)' <=> \E d \in Conns : \E i \in Nat : At(m, d, i)'
    BY DEF Written
  <1> QED
    BY <1>4, <1>5, <1>6, <1>7

\* A message that is not written yet is written.
LEMMA SentOnce ==
  ASSUME PInv, NEW n \in Msgs, Send(n), NEW m \in Msgs
  PROVE  OnePlace(m)'
  <1> USE DEF PInv
  <1>1. CASE conn \notin chan
    <2>1. UNCHANGED <<wire, ready, unacked, acked, dead, lost>>
      BY <1>1 DEF Send
    <2>2. call'[m] = "ok" <=> call[m] = "ok"
      BY <1>1 DEF Send, Phase, TInv, PublisherType
    <2> QED
      BY <2>1, <2>2, Unmoved
  <1>2. CASE conn \in chan
    <2>1. /\ call[n] = "send" /\ call' = [call EXCEPT ![n] = "ok"]
          /\ wire' = [wire EXCEPT ![conn] = Append(@, n)]
          /\ UNCHANGED <<ready, unacked, acked, dead, lost>>
      BY <1>2 DEF Send, ReturnFrom, Phase
    <2>2. conn \in Conns /\ wire[conn] \in Seq(Msgs)
          /\ call \in [Msgs -> {"new", "waiting", "send", "reconnect", "ok", "err"}]
      BY DEF TInv, PublisherType, BrokerType
    <2>3. /\ wire'[conn] = Append(wire[conn], n)
          /\ \A d \in Conns \ {conn} : wire'[d] = wire[d]
      BY <2>1, <2>2 DEF TInv, BrokerType
    <2>4. ASSUME NEW d \in Conns, NEW i \in Nat
          PROVE  At(m, d, i)' <=> At(m, d, i) \/ (m = n /\ d = conn /\ i = Len(wire[conn]) + 1)
      <3>1. CASE d # conn
        BY <2>3, <3>1 DEF At
      <3>2. CASE d = conn
        <4>1. Len(wire'[conn]) = Len(wire[conn]) + 1 /\ Len(wire[conn]) \in Nat
          BY <2>2, <2>3
        <4>2. /\ wire'[conn][Len(wire[conn]) + 1] = n
              /\ i \in 1 .. Len(wire[conn]) => wire'[conn][i] = wire[conn][i]
          BY <2>2, <2>3
        <4>3. At(m, d, i)' <=> i \in 1 .. Len(wire[conn]) + 1 /\ wire'[conn][i] = m
          BY <3>2, <4>1 DEF At
        <4> QED
          BY <3>2, <4>1, <4>2, <4>3 DEF At
      <3> QED
        BY <3>1, <3>2
    <2>5. CASE m # n
      <3>1. \A d \in Conns, i \in Nat : At(m, d, i)' <=> At(m, d, i)
        BY <2>4, <2>5
      <3>2. (Written(m)' <=> Written(m)) /\ (OnWireOnce(m)' <=> OnWireOnce(m))
        BY <3>1 DEF Written, OnWireOnce
      <3>3. call'[m] = call[m]
        BY <2>1, <2>2, <2>5
      <3> QED
        BY <2>1, <3>2, <3>3 DEF OnePlace, HeldOnce, Apart, Held, Placed
    <2>6. CASE m = n
      <3>1. ~Written(m) /\ ~Held(m) /\ ~Placed(m)
        BY <2>1, <2>6 DEF OnePlace
      <3>2. \A d \in Conns, i \in Nat : ~At(m, d, i)
        BY <3>1 DEF Written
      <3>3. \A d \in Conns, i \in Nat : At(m, d, i)' <=> d = conn /\ i = Len(wire[conn]) + 1
        BY <2>4, <2>6, <3>2
      <3>4. Written(m)' /\ OnWireOnce(m)'
        BY <2>2, <3>3 DEF Written, OnWireOnce
      <3>5. call'[m] = "ok"
        BY <2>1, <2>2, <2>6
      <3> QED
        BY <2>1, <3>1, <3>4, <3>5 DEF OnePlace, HeldOnce, Apart, Held, Placed
    <2> QED
      BY <2>5, <2>6
  <1> QED
    BY <1>1, <1>2

\* The broker takes the next message off a wire.
LEMMA ReadOnce ==
  ASSUME PInv, NEW c \in Conns, BrokerReads(c), NEW m \in Msgs
  PROVE  OnePlace(m)'
  <1> USE DEF PInv
  <1> DEFINE h == Head(wire[c])
  <1>1. /\ wire[c] \in Seq(Msgs) /\ wire[c] # <<>> /\ h = wire[c][1]
        /\ Tail(wire[c]) \in Seq(Msgs) /\ Len(Tail(wire[c])) + 1 = Len(wire[c])
        /\ \A i \in 1 .. Len(Tail(wire[c])) : Tail(wire[c])[i] = wire[c][i + 1]
    BY DEF BrokerReads, TInv, BrokerType
  <1>2. /\ OnWireOnce(m)'
        /\ Written(m)' <=> \/ \E d \in Conns \ {c} : \E i \in Nat : At(m, d, i)
                           \/ \E i \in 1 .. Len(Tail(wire[c])) : wire[c][i + 1] = m
    <2>1. wire' = [wire EXCEPT ![c] = Tail(wire[c])] /\ OnWireOnce(m)
      BY DEF BrokerReads, OnePlace
    <2>2. 1 \in Nat /\ Len(Tail(wire[c])) + 1 <= Len(wire[c])
      BY <1>1
    <2> QED
      BY <1>1, <2>1, <2>2, Rest
  <1>3. UNCHANGED <<call, unacked, acked, dead>>
    BY DEF BrokerReads, publisher
  <1>4. CASE m # h
    <2>1. Written(m)' <=> Written(m)
      <3>1. (\E i \in Nat : At(m, c, i)) <=> \E i \in 1 .. Len(Tail(wire[c])) : wire[c][i + 1] = m
        <4>1. ASSUME NEW i \in Nat, At(m, c, i)
              PROVE  \E j \in 1 .. Len(Tail(wire[c])) : wire[c][j + 1] = m
          <5>1. i # 1 /\ i \in 1 .. Len(wire[c]) /\ wire[c][i] = m
            BY <1>1, <1>4, <4>1 DEF At
          <5>2. i - 1 \in 1 .. Len(Tail(wire[c])) /\ (i - 1) + 1 = i
            BY <1>1, <5>1
          <5> QED
            BY <5>1, <5>2
        <4>2. ASSUME NEW j \in 1 .. Len(Tail(wire[c])), wire[c][j + 1] = m
              PROVE  \E i \in Nat : At(m, c, i)
          BY <1>1, <4>2 DEF At
        <4> QED
          BY <4>1, <4>2
      <3> QED
        BY <1>2, <3>1 DEF Written
    <2>2. (m \in ready' <=> m \in ready) /\ (m \in lost' <=> m \in lost)
      BY <1>4 DEF BrokerReads
    <2> QED
      BY <1>2, <1>3, <2>1, <2>2 DEF OnePlace, HeldOnce, Apart, Held, Placed
  <1>5. CASE m = h
    <2>1. At(m, c, 1)
      BY <1>1, <1>5 DEF At
    <2>2. Written(m) /\ ~Held(m) /\ ~Placed(m) /\ call[m] = "ok"
      BY <2>1 DEF Written, OnePlace, Apart
    <2>3. ~Written(m)'
      <3>1. \A d \in Conns, i \in Nat : At(m, d, i) => d = c /\ i = 1
        BY <2>1 DEF OnePlace, OnWireOnce
      <3>2. ASSUME NEW i \in 1 .. Len(Tail(wire[c])), wire[c][i + 1] = m PROVE FALSE
        <4>1. At(m, c, i + 1) /\ i + 1 \in Nat /\ i + 1 # 1
          BY <1>1, <3>2 DEF At
        <4> QED
          BY <3>1, <4>1
      <3> QED
        BY <1>2, <3>1, <3>2
    <2>4. \/ m \in ready' /\ m \notin lost'
          \/ m \in lost' /\ m \notin ready'
      BY <1>5, <2>2 DEF BrokerReads, Placed
    <2> QED
      BY <1>2, <1>3, <2>2, <2>3, <2>4 DEF OnePlace, HeldOnce, Apart, Held, Placed
  <1> QED
    BY <1>4, <1>5

\* What is behind the cut is lost, what is before it stays.
LEMMA CutOnce ==
  ASSUME PInv, NEW c \in Conns, ConnectionFails(c), NEW m \in Msgs
  PROVE  OnePlace(m)'
  <1> USE DEF PInv
  <1>1. PICK n \in 0 .. Len(wire[c]) :
          /\ wire' = [wire EXCEPT ![c] = SubSeq(@, 1, n)]
          /\ lost' = lost \cup ToSet(SubSeq(wire[c], n + 1, Len(wire[c])))
    BY DEF ConnectionFails
  <1> DEFINE s == SubSeq(wire[c], 1, n)
             r == SubSeq(wire[c], n + 1, Len(wire[c]))
  <1>2. wire[c] \in Seq(Msgs) /\ Len(wire[c]) \in Nat /\ n \in Nat /\ n <= Len(wire[c])
    BY DEF TInv, BrokerType
  <1>3. s \in Seq(Msgs) /\ Len(s) = n /\ \A i \in 1 .. n : s[i] = wire[c][i]
    BY <1>2
  <1>4. m \in ToSet(r) <=> \E i \in n + 1 .. Len(wire[c]) : wire[c][i] = m
    <2>1. Len(r) = Len(wire[c]) - n /\ DOMAIN r = 1 .. Len(r)
          /\ \A i \in 1 .. Len(r) : r[i] = wire[c][n + i]
      BY <1>2
    <2>2. m \in ToSet(r) <=> \E i \in 1 .. Len(r) : wire[c][n + i] = m
      BY <2>1 DEF ToSet
    <2>3. ASSUME NEW i \in 1 .. Len(r), wire[c][n + i] = m
          PROVE  \E j \in n + 1 .. Len(wire[c]) : wire[c][j] = m
      <3>1. n + i \in n + 1 .. Len(wire[c])
        BY <1>2, <2>1
      <3> QED
        BY <2>3, <3>1
    <2>4. ASSUME NEW j \in n + 1 .. Len(wire[c]), wire[c][j] = m
          PROVE  \E i \in 1 .. Len(r) : wire[c][n + i] = m
      <3>1. j - n \in 1 .. Len(r) /\ n + (j - n) = j
        BY <1>2, <2>1
      <3> QED
        BY <2>4, <3>1
    <2> QED
      BY <2>2, <2>3, <2>4
  <1>5. UNCHANGED <<call, unacked, acked, dead, ready>>
    BY DEF ConnectionFails
  <1> HIDE DEF s, r
  <1>6. /\ OnWireOnce(m)'
        /\ Written(m)' <=> \/ \E d \in Conns \ {c} : \E i \in Nat : At(m, d, i)
                           \/ \E i \in 1 .. n : wire[c][i] = m
    <2>1. wire' = [wire EXCEPT ![c] = s] /\ OnWireOnce(m)
      BY <1>1 DEF OnePlace, s
    <2>2. /\ 0 \in Nat /\ Len(s) + 0 <= Len(wire[c])
          /\ \A i \in 1 .. Len(s) : s[i] = wire[c][i + 0]
      BY <1>2, <1>3
    <2>3. (\E i \in 1 .. Len(s) : wire[c][i + 0] = m) <=> \E i \in 1 .. n : wire[c][i] = m
      BY <1>2, <1>3
    <2> QED
      BY <1>3, <2>1, <2>2, <2>3, Rest
  <1>7. lost' = lost \cup ToSet(r)
    BY <1>1 DEF r
  <1>8. CASE \E i \in n + 1 .. Len(wire[c]) : wire[c][i] = m
    <2>1. PICK i \in n + 1 .. Len(wire[c]) : wire[c][i] = m
      BY <1>8
    <2>2. At(m, c, i) /\ i \in Nat
      BY <1>2, <2>1 DEF At
    <2>3. Written(m) /\ ~Held(m) /\ ~Placed(m) /\ call[m] = "ok"
      BY <2>2 DEF Written, OnePlace, Apart
    <2>4. \A d \in Conns, j \in Nat : At(m, d, j) => d = c /\ j = i
      BY <2>2 DEF OnePlace, OnWireOnce
    <2>5. \A j \in 1 .. n : wire[c][j] # m
      <3>1. ASSUME NEW j \in 1 .. n, wire[c][j] = m PROVE FALSE
        <4>1. At(m, c, j) /\ j \in Nat /\ j # i
          BY <1>2, <3>1 DEF At
        <4> QED
          BY <2>4, <4>1
      <3> QED
        BY <3>1
    <2>6. ~Written(m)' /\ m \in lost'
      BY <1>4, <1>6, <1>7, <1>8, <2>4, <2>5
    <2> QED
      BY <1>5, <1>6, <2>3, <2>6 DEF OnePlace, HeldOnce, Apart, Held, Placed
  <1>9. CASE ~ \E i \in n + 1 .. Len(wire[c]) : wire[c][i] = m
    <2>1. Written(m)' <=> Written(m)
      <3>1. (\E i \in Nat : At(m, c, i)) <=> \E i \in 1 .. n : wire[c][i] = m
        BY <1>2, <1>9 DEF At
      <3> QED
        BY <1>6, <3>1 DEF Written
    <2>2. m \in lost' <=> m \in lost
      BY <1>4, <1>7, <1>9
    <2> QED
      BY <1>5, <1>6, <2>1, <2>2 DEF OnePlace, HeldOnce, Apart, Held, Placed
  <1> QED
    BY <1>8, <1>9

LEMMA SameWire ==
  ASSUME NEW m \in Msgs, UNCHANGED wire
  PROVE  (Written(m)' <=> Written(m)) /\ (OnWireOnce(m)' <=> OnWireOnce(m))
  BY DEF Written, OnWireOnce, At

\* What the broker waits for was ready, and is again when it is put back.
LEMMA DeliveredOnce ==
  ASSUME PInv, NEW k \in Consumers, NEW n \in Msgs, Deliver(k, n), NEW m \in Msgs
  PROVE  OnePlace(m)'
  <1>1. /\ n \in ready /\ ready' = ready \ {n}
        /\ unacked' = [unacked EXCEPT ![k] = @ \cup {n}]
        /\ UNCHANGED <<call, wire, acked, dead, lost>>
    BY DEF Deliver, publisher
  <1>2. \A l \in Consumers : m \in unacked'[l] <=> m \in unacked[l] \/ (l = k /\ m = n)
    BY <1>1 DEF PInv, TInv, BrokerType
  <1>3. OnePlace(m)
    BY DEF PInv
  <1>4. CASE m = n
    <2>1. ~Written(m) /\ ~Held(m) /\ m \notin acked /\ m \notin dead /\ m \notin lost
          /\ call[m] = "ok"
      BY <1>1, <1>3, <1>4 DEF OnePlace, Apart, Placed
    <2>2. Held(m)' /\ HeldOnce(m)'
      BY <1>2, <1>4, <2>1 DEF Held, HeldOnce
    <2> QED
      BY <1>1, <1>3, <1>4, <2>1, <2>2, SameWire DEF OnePlace, Apart, Placed
  <1>5. CASE m # n
    <2>1. (Held(m)' <=> Held(m)) /\ (HeldOnce(m)' <=> HeldOnce(m))
      BY <1>2, <1>5 DEF Held, HeldOnce
    <2> QED
      BY <1>1, <1>3, <1>5, <2>1, SameWire DEF OnePlace, Apart, Placed
  <1> QED
    BY <1>4, <1>5

LEMMA RequeuedOnce ==
  ASSUME PInv, NEW k \in Consumers, Requeue(k), NEW m \in Msgs,
         UNCHANGED <<call, wire, acked, dead, lost>>
  PROVE  OnePlace(m)'
  <1>1. ready' = ready \cup unacked[k]
    BY DEF Requeue
  <1>2. \A l \in Consumers : m \in unacked'[l] <=> m \in unacked[l] /\ l # k
    BY DEF Requeue, PInv, TInv, BrokerType
  <1>3. OnePlace(m)
    BY DEF PInv
  <1>4. CASE m \in unacked[k]
    <2>1. Held(m) /\ ~Written(m) /\ ~Placed(m) /\ call[m] = "ok"
      BY <1>3, <1>4 DEF OnePlace, Apart, Held
    <2>2. ~Held(m)' /\ HeldOnce(m)'
      BY <1>2, <1>3, <1>4 DEF OnePlace, HeldOnce, Held
    <2> QED
      BY <1>1, <1>3, <1>4, <2>1, <2>2, SameWire DEF OnePlace, Apart, Placed
  <1>5. CASE m \notin unacked[k]
    <2>1. (Held(m)' <=> Held(m)) /\ (HeldOnce(m)' <=> HeldOnce(m))
      BY <1>2, <1>5 DEF Held, HeldOnce
    <2> QED
      BY <1>1, <1>3, <1>5, <2>1, SameWire DEF OnePlace, Apart, Placed
  <1> QED
    BY <1>4, <1>5

\* Ack and Nack settle what the broker waits for, or nothing.
LEMMA SettledOnce ==
  ASSUME PInv, NEW k \in Consumers, Settle(k), NEW m \in Msgs
  PROVE  OnePlace(m)'
  <1>3. OnePlace(m)
    BY DEF PInv
  <1>1. CASE up[k]
    <2>1. /\ unacked' = [unacked EXCEPT ![k] = @ \ {job[k]}]
          /\ acked' = IF stage[k] = "ack" THEN acked \cup {job[k]} ELSE acked
          /\ dead' = IF stage[k] = "nack" THEN dead \cup {job[k]} ELSE dead
          /\ UNCHANGED <<call, wire, ready, lost>> /\ stage[k] \in {"ack", "nack"}
      BY <1>1 DEF Settle, publisher
    <2>2. job[k] \in unacked[k]
      BY <1>1, <2>1, MsgsAssumption DEF PInv, InHand, HandOf
    <2>3. \A l \in Consumers :
             m \in unacked'[l] <=> m \in unacked[l] /\ ~(l = k /\ m = job[k])
      BY <2>1 DEF PInv, TInv, BrokerType
    <2>4. CASE m = job[k]
      <3>1. Held(m) /\ ~Written(m) /\ ~Placed(m) /\ call[m] = "ok"
        BY <1>3, <2>2, <2>4 DEF OnePlace, Apart, Held
      <3>2. ~Held(m)' /\ HeldOnce(m)'
        BY <1>3, <2>2, <2>3, <2>4 DEF OnePlace, HeldOnce, Held
      <3> QED
        BY <1>3, <2>1, <2>4, <3>1, <3>2, SameWire DEF OnePlace, Apart, Placed
    <2>5. CASE m # job[k]
      <3>1. (Held(m)' <=> Held(m)) /\ (HeldOnce(m)' <=> HeldOnce(m))
        BY <2>3, <2>5 DEF Held, HeldOnce
      <3> QED
        BY <1>3, <2>1, <2>5, <3>1, SameWire DEF OnePlace, Apart, Placed
    <2> QED
      BY <2>4, <2>5
  <1>2. CASE ~up[k]
    BY <1>2, <1>3, Unmoved DEF Settle, publisher
  <1> QED
    BY <1>1, <1>2

\* The steps that move messages, and the ones that move none.
LEMMA OnePlaceNext ==
  ASSUME PInv, [Next]_vars, NEW m \in Msgs
  PROVE  OnePlace(m)'
  <1>u. OnePlace(m)
    BY DEF PInv
  <1>c. \A n \in Msgs : call[n] \in {"new", "waiting", "send", "reconnect", "ok", "err"}
    BY DEF PInv, TInv, PublisherType
  <1>1. ASSUME NEW n \in Msgs, Publish(n) \/ TakeMutex(n) \/ Reconnect(n) PROVE OnePlace(m)'
    <2>1. UNCHANGED <<wire, ready, unacked, acked, dead, lost>>
      BY <1>1 DEF Publish, TakeMutex, Reconnect, broker
    <2>2. call[n] # "ok" /\ \E v \in {"waiting", "send", "err"} : call' = [call EXCEPT ![n] = v]
      BY <1>1 DEF Publish, TakeMutex, Reconnect, TryAgain, ReturnFrom, Phase
    <2>3. call'[m] = "ok" <=> call[m] = "ok"
      BY <2>2 DEF PInv, TInv, PublisherType
    <2> QED
      BY <1>u, <2>1, <2>3, Unmoved
  <1>2. ASSUME NEW n \in Msgs, Send(n) PROVE OnePlace(m)'
    BY <1>2, SentOnce
  <1>3. ASSUME NEW c \in Conns, BrokerReads(c) \/ ConnectionFails(c) PROVE OnePlace(m)'
    BY <1>3, ReadOnce, CutOnce
  <1>4. ASSUME NEW k \in Consumers, NEW n \in Msgs, Deliver(k, n) PROVE OnePlace(m)'
    BY <1>4, DeliveredOnce
  <1>5. ASSUME NEW k \in Consumers, Settle(k) PROVE OnePlace(m)'
    BY <1>5, SettledOnce
  <1>6. ASSUME NEW k \in Consumers, CloseConsumer(k) \/ ConsumerCut(k) \/ Crash(k)
        PROVE  OnePlace(m)'
    BY <1>6, RequeuedOnce DEF CloseConsumer, ConsumerCut, Crash, Discard, publisher
  <1>7. CASE UNCHANGED <<call, wire, ready, unacked, acked, dead, lost>>
    BY <1>u, <1>7, Unmoved
  <1>8. CASE ClosePublisher
    BY <1>7, <1>8 DEF ClosePublisher, broker
  <1>9. ASSUME NEW c \in Conns, ChannelCloses(c) PROVE OnePlace(m)'
    BY <1>7, <1>9 DEF ChannelCloses, broker
  <1>10. ASSUME NEW k \in Consumers,
                NewConsumer(k) \/ Consume(k) \/ Handle(k) \/ ChannelGone(k) \/ Cancelled(k)
         PROVE  OnePlace(m)'
    BY <1>7, <1>10
       DEF NewConsumer, Consume, Handle, ChannelGone, Cancelled, publisher, broker
  <1>11. CASE UNCHANGED vars
    BY <1>7, <1>11 DEF vars, publisher, broker
  <1> QED
    BY <1>1, <1>2, <1>3, <1>4, <1>5, <1>6, <1>8, <1>9, <1>10, <1>11
    DEF Next, Calling, Consuming

LEMMA SameHand ==
  ASSUME NEW k \in Consumers, HandOf(k), stage'[k] = stage[k], up'[k] = up[k],
         inbox'[k] = inbox[k], job'[k] = job[k], unacked'[k] = unacked[k]
  PROVE  HandOf(k)'
  BY DEF HandOf

\* The stage of a consumer that is not at work changes.
LEMMA NextStage ==
  ASSUME PInv, NEW k \in Consumers, NEW v \in {"open", "loop", "returned"},
         stage[k] \notin {"ack", "nack"}, stage' = [stage EXCEPT ![k] = v],
         UNCHANGED <<inbox, job, unacked>>,
         up'[k] => up[k] \/ inbox[k] = <<>>
  PROVE  HandOf(k)'
  <1>1. stage'[k] = v
    BY DEF PInv, TInv, ConsumerType
  <1>2. HandOf(k) /\ job[k] = None
    BY DEF PInv, InHand, HandOf
  <1> QED
    BY <1>1, <1>2 DEF HandOf

LEMMA HandNext ==
  ASSUME PInv, [Next]_vars, NEW k \in Consumers
  PROVE  HandOf(k)'
  <1>u. HandOf(k)
    BY DEF PInv, InHand
  <1>t. /\ stage \in [Consumers -> {"new", "open", "loop", "ack", "nack", "returned"}]
        /\ up \in [Consumers -> BOOLEAN] /\ inbox[k] \in Seq(Msgs)
        /\ inbox \in [Consumers -> Seq(Msgs)] /\ job \in [Consumers -> Msgs \cup {None}]
        /\ unacked \in [Consumers -> SUBSET Msgs] /\ None \notin Msgs
    BY MsgsAssumption DEF PInv, TInv, ConsumerType, BrokerType
  <1>1. CASE UNCHANGED <<stage, up, inbox, job, unacked>>
    BY <1>u, <1>1, SameHand
  <1>2. CASE ClosePublisher \/ \E m \in Msgs : Publish(m) \/ TakeMutex(m) \/ Calling(m)
    BY <1>1, <1>2 DEF ClosePublisher, Publish, TakeMutex, Calling, Send, Reconnect,
                      broker, consumers
  <1>3. CASE \E c \in Conns : BrokerReads(c) \/ ChannelCloses(c) \/ ConnectionFails(c)
    BY <1>1, <1>3 DEF BrokerReads, ChannelCloses, ConnectionFails, broker, consumers
  <1>4. ASSUME NEW l \in Consumers \ {k},
               \/ \E m \in Msgs : Deliver(l, m)
               \/ Consuming(l) \/ ConsumerCut(l) \/ Cancelled(l) \/ Crash(l)
        PROVE  HandOf(k)'
    <2>1. /\ stage'[k] = stage[k] /\ up'[k] = up[k] /\ inbox'[k] = inbox[k]
          /\ job'[k] = job[k] /\ unacked'[k] = unacked[k]
      <3>1. CASE \E m \in Msgs : Deliver(l, m)
        BY <1>t, <3>1 DEF Deliver
      <3>2. CASE NewConsumer(l) \/ Consume(l) \/ Handle(l) \/ ChannelGone(l) \/ Cancelled(l)
        BY <1>t, <3>2 DEF NewConsumer, Consume, Handle, ChannelGone, Cancelled, Goto, broker
      <3>3. CASE Settle(l)
        BY <1>t, <3>3 DEF Settle, Goto
      <3>4. CASE CloseConsumer(l) \/ ConsumerCut(l) \/ Crash(l)
        BY <1>t, <3>4 DEF CloseConsumer, ConsumerCut, Crash, Discard, Requeue, Goto
      <3> QED
        BY <1>4, <3>1, <3>2, <3>3, <3>4 DEF Consuming
    <2> QED
      BY <1>u, <2>1, SameHand
  <1>5. ASSUME NEW m \in Msgs, Deliver(k, m) PROVE HandOf(k)'
    <2>1. /\ up[k] /\ m \in ready /\ UNCHANGED <<stage, up, job>>
          /\ unacked' = [unacked EXCEPT ![k] = @ \cup {m}]
          /\ inbox' = [inbox EXCEPT ![k] = Append(@, m)]
      BY <1>5 DEF Deliver
    <2>2. m \notin unacked[k]
      <3>1. OnePlace(m) /\ Placed(m)
        BY <2>1 DEF PInv, Placed
      <3> QED
        BY <3>1 DEF OnePlace, Apart, Held
    <2>3. unacked'[k] = unacked[k] \cup {m} /\ inbox'[k] = Append(inbox[k], m)
      BY <1>t, <2>1
    <2>4. job[k] # m
      BY <1>t, <1>u, <2>1, <2>2 DEF HandOf
    <2>5. /\ Len(inbox'[k]) = Len(inbox[k]) + 1 /\ inbox'[k][Len(inbox[k]) + 1] = m
          /\ \A i \in 1 .. Len(inbox[k]) : inbox'[k][i] = inbox[k][i]
          /\ Len(inbox[k]) \in Nat
      BY <1>t, <2>3
    <2>6. \A i \in 1 .. Len(inbox'[k]) : \/ i \in 1 .. Len(inbox[k])
                                         \/ i = Len(inbox[k]) + 1
      BY <2>5
    <2>7. /\ \A i \in 1 .. Len(inbox[k]) : inbox[k][i] \in unacked[k] /\ inbox[k][i] # job[k]
          /\ \A i, j \in 1 .. Len(inbox[k]) : inbox[k][i] = inbox[k][j] => i = j
      BY <1>u, <2>1 DEF HandOf
    <2>8. \A i \in 1 .. Len(inbox'[k]) : inbox'[k][i] \in unacked'[k] /\ inbox'[k][i] # job'[k]
      BY <2>1, <2>3, <2>4, <2>5, <2>6, <2>7
    <2>9. \A i, j \in 1 .. Len(inbox'[k]) : inbox'[k][i] = inbox'[k][j] => i = j
      BY <2>2, <2>5, <2>6, <2>7
    <2> QED
      BY <1>t, <1>u, <2>1, <2>3, <2>8, <2>9 DEF HandOf
  <1>6. CASE NewConsumer(k)
    <2>1. /\ stage[k] = "new" /\ stage' = [stage EXCEPT ![k] = "open"]
          /\ UNCHANGED <<inbox, job, unacked>>
      BY <1>6 DEF NewConsumer, Goto, broker
    <2> QED
      BY <1>u, <2>1, NextStage DEF HandOf
  <1>7. CASE Consume(k)
    <2>1. /\ stage[k] = "open" /\ UNCHANGED <<up, inbox, job, unacked>>
          /\ \E v \in {"loop", "returned"} : stage' = [stage EXCEPT ![k] = v]
      BY <1>7 DEF Consume, Goto, broker
    <2> QED
      BY <2>1, NextStage
  <1>8. CASE ChannelGone(k) \/ Cancelled(k)
    <2>1. /\ stage[k] = "loop" /\ UNCHANGED <<up, inbox, job, unacked>>
          /\ stage' = [stage EXCEPT ![k] = "returned"]
      BY <1>8 DEF ChannelGone, Cancelled, Goto, broker
    <2> QED
      BY <2>1, NextStage
  <1>9. CASE Handle(k)
    <2>1. /\ stage[k] = "loop" /\ inbox[k] # <<>> /\ UNCHANGED <<up, unacked>>
          /\ job'[k] = Head(inbox[k]) /\ inbox'[k] = Tail(inbox[k])
          /\ stage'[k] \in {"ack", "nack"}
      BY <1>9, <1>t DEF Handle, Goto, broker
    <2>2. /\ Head(inbox[k]) = inbox[k][1] /\ Head(inbox[k]) \in Msgs
          /\ Len(Tail(inbox[k])) = Len(inbox[k]) - 1 /\ Len(inbox[k]) \in Nat \ {0}
          /\ \A i \in 1 .. Len(Tail(inbox[k])) : Tail(inbox[k])[i] = inbox[k][i + 1]
      BY <1>t, <2>1
    <2>3. ASSUME up[k]
          PROVE  /\ job'[k] \in unacked'[k]
                 /\ \A i \in 1 .. Len(inbox'[k]) : /\ inbox'[k][i] \in unacked'[k]
                                                   /\ inbox'[k][i] # job'[k]
                 /\ \A i, j \in 1 .. Len(inbox'[k]) : inbox'[k][i] = inbox'[k][j] => i = j
      <3>1. /\ \A i \in 1 .. Len(inbox[k]) : inbox[k][i] \in unacked[k]
            /\ \A i, j \in 1 .. Len(inbox[k]) : inbox[k][i] = inbox[k][j] => i = j
        BY <1>u, <2>3 DEF HandOf
      <3>2. \A i \in 1 .. Len(inbox'[k]) :
               i + 1 \in 1 .. Len(inbox[k]) /\ i + 1 # 1 /\ inbox'[k][i] = inbox[k][i + 1]
        BY <2>1, <2>2
      <3>3. 1 \in 1 .. Len(inbox[k])
        BY <2>2
      <3>4. \A i \in 1 .. Len(inbox'[k]) : inbox'[k][i] \in unacked'[k] /\ inbox'[k][i] # job'[k]
        BY <2>1, <2>2, <3>1, <3>2, <3>3
      <3>5. \A i, j \in 1 .. Len(inbox'[k]) : inbox'[k][i] = inbox'[k][j] => i = j
        <4> SUFFICES ASSUME NEW i \in 1 .. Len(inbox'[k]), NEW j \in 1 .. Len(inbox'[k]),
                            inbox'[k][i] = inbox'[k][j]
                     PROVE  i = j
          OBVIOUS
        <4>1. i + 1 = j + 1
          BY <3>1, <3>2
        <4> QED
          BY <2>1, <2>2, <4>1
      <3> QED
        BY <2>1, <2>2, <3>1, <3>3, <3>4, <3>5
    <2> QED
      BY <1>t, <2>1, <2>2, <2>3 DEF HandOf
  <1>10. CASE Settle(k)
    <2>1. /\ stage[k] \in {"ack", "nack"} /\ stage'[k] = "loop" /\ job'[k] = None
          /\ up[k] => unacked'[k] = unacked[k] \ {job[k]}
          /\ UNCHANGED <<up, inbox>>
      BY <1>10, <1>t DEF Settle, Goto
    <2>2. \A i \in 1 .. Len(inbox[k]) : inbox[k][i] \in Msgs
      BY <1>t
    <2> QED
      BY <1>t, <1>u, <2>1, <2>2 DEF HandOf
  <1>11. CASE ConsumerCut(k)
    <2>1. ~up'[k] /\ UNCHANGED <<stage, inbox, job>>
      BY <1>11, <1>t DEF ConsumerCut
    <2> QED
      BY <1>u, <2>1 DEF HandOf
  <1>12. CASE CloseConsumer(k) \/ Crash(k)
    <2>1. ~up'[k] /\ stage'[k] = "new" /\ inbox'[k] = <<>> /\ job'[k] = None
      BY <1>12, <1>t DEF CloseConsumer, Crash, Discard, Goto
    <2> QED
      BY <2>1 DEF HandOf
  <1>13. CASE UNCHANGED vars
    BY <1>1, <1>13 DEF vars, broker, consumers
  <1> QED
    BY <1>2, <1>3, <1>4, <1>5, <1>6, <1>7, <1>8, <1>9, <1>10, <1>11, <1>12, <1>13
    DEF Next, Consuming

LEMMA PInvInit == Init => PInv
  <1> SUFFICES ASSUME Init PROVE PInv
    OBVIOUS
  <1>1. InHand
    BY DEF Init, InHand, HandOf
  <1>2. \A m \in Msgs : OnePlace(m)
    BY DEF Init, OnePlace, OnWireOnce, HeldOnce, Apart, Written, Held, Placed, At
  <1> QED
    BY <1>1, <1>2, TInvInit DEF PInv

LEMMA PInvNext == PInv /\ [Next]_vars => PInv'
  <1> SUFFICES ASSUME PInv, [Next]_vars PROVE PInv'
    OBVIOUS
  <1>1. TInv'
    BY TInvNext DEF PInv
  <1>2. InHand'
    BY HandNext DEF InHand
  <1>3. \A m \in Msgs : OnePlace(m)'
    BY OnePlaceNext
  <1> QED
    BY <1>1, <1>2, <1>3 DEF PInv

\* One place is one member of Places.
LEMMA CountPlaces ==
  ASSUME PInv, NEW m \in Msgs
  PROVE  Cardinality(Places(m)) = IF call[m] = "ok" THEN 1 ELSE 0
  <1>u. OnePlace(m)
    BY DEF PInv
  <1>w. \A c \in Conns : wire[c] \in Seq(Msgs) /\ DOMAIN wire[c] = 1 .. Len(wire[c])
    BY DEF PInv, TInv, BrokerType
  <1>1. ASSUME NEW p
        PROVE  p \in Places(m) <=>
                 \/ \E c \in Conns : \E i \in Nat : At(m, c, i) /\ p = <<"wire", c, i>>
                 \/ \E k \in Consumers : m \in unacked[k] /\ p = <<"unacked", k>>
                 \/ m \in ready /\ p = <<"ready">>
                 \/ m \in acked /\ p = <<"acked">>
                 \/ m \in dead  /\ p = <<"dead">>
                 \/ m \in lost  /\ p = <<"lost">>
    <2>1. (\E c \in Conns : p \in {<<"wire", c, i>> : i \in {j \in DOMAIN wire[c] : wire[c][j] = m}})
            <=> \E c \in Conns : \E i \in Nat : At(m, c, i) /\ p = <<"wire", c, i>>
      BY <1>w DEF At
    <2>2. p \in {<<"unacked", k>> : k \in {x \in Consumers : m \in unacked[x]}}
            <=> \E k \in Consumers : m \in unacked[k] /\ p = <<"unacked", k>>
      OBVIOUS
    <2> DEFINE W == UNION {{<<"wire", c, i>> : i \in {j \in DOMAIN wire[c] : wire[c][j] = m}} :
                             c \in Conns}
               U == {<<"unacked", k>> : k \in {x \in Consumers : m \in unacked[x]}}
    <2>3. p \in W <=> \E c \in Conns : \E i \in Nat : At(m, c, i) /\ p = <<"wire", c, i>>
      BY <2>1
    <2>4. Places(m) = W \cup U \cup (IF m \in ready THEN {<<"ready">>} ELSE {})
                            \cup (IF m \in acked THEN {<<"acked">>} ELSE {})
                            \cup (IF m \in dead  THEN {<<"dead">>}  ELSE {})
                            \cup (IF m \in lost  THEN {<<"lost">>}  ELSE {})
      BY DEF Places
    <2> HIDE DEF W, U
    <2>5. p \in U <=> \E k \in Consumers : m \in unacked[k] /\ p = <<"unacked", k>>
      BY <2>2 DEF U
    <2>6. p \in Places(m) <=> \/ p \in W \/ p \in U
                              \/ m \in ready /\ p = <<"ready">>
                              \/ m \in acked /\ p = <<"acked">>
                              \/ m \in dead  /\ p = <<"dead">>
                              \/ m \in lost  /\ p = <<"lost">>
      BY <2>4
    <2> QED
      BY <2>3, <2>5, <2>6
  <1>2. CASE ~Written(m) /\ ~Held(m) /\ ~Placed(m)
    <2>1. Places(m) = {}
      BY <1>1, <1>2 DEF Written, Held, Placed
    <2>2. call[m] # "ok"
      BY <1>u, <1>2 DEF OnePlace
    <2> QED
      BY <2>1, <2>2, FS_EmptySet
  <1>3. ASSUME NEW p, Places(m) = {p}, Written(m) \/ Held(m) \/ Placed(m)
        PROVE  Cardinality(Places(m)) = IF call[m] = "ok" THEN 1 ELSE 0
    BY <1>u, <1>3, FS_Singleton DEF OnePlace
  <1>4. CASE Written(m)
    <2>1. PICK c \in Conns, i \in Nat : At(m, c, i)
      BY <1>4 DEF Written
    <2>2. \A d \in Conns, j \in Nat : At(m, d, j) => d = c /\ j = i
      BY <1>u, <2>1 DEF OnePlace, OnWireOnce
    <2>3. ~Held(m) /\ ~Placed(m)
      BY <1>u, <1>4 DEF OnePlace, Apart
    <2>4. \A p : p \in Places(m) <=> p = <<"wire", c, i>>
      BY <1>1, <2>1, <2>2, <2>3 DEF Held, Placed
    <2>5. Places(m) = {<<"wire", c, i>>}
      BY <2>4
    <2> QED
      BY <1>3, <1>4, <2>5
  <1>5. CASE Held(m)
    <2>1. PICK k \in Consumers : m \in unacked[k]
      BY <1>5 DEF Held
    <2>2. \A l \in Consumers : m \in unacked[l] => l = k
      BY <1>u, <2>1 DEF OnePlace, HeldOnce
    <2>3. ~Written(m) /\ ~Placed(m)
      BY <1>u, <1>5 DEF OnePlace, Apart
    <2>4. \A p : p \in Places(m) <=> p = <<"unacked", k>>
      BY <1>1, <2>1, <2>2, <2>3 DEF Written, Placed
    <2>5. Places(m) = {<<"unacked", k>>}
      BY <2>4
    <2> QED
      BY <1>3, <1>5, <2>5
  <1>6. CASE Placed(m)
    <2>1. ~Written(m) /\ ~Held(m)
      BY <1>u, <1>6 DEF OnePlace, Apart
    <2>2. \A p : p \in Places(m) <=> \/ m \in ready /\ p = <<"ready">>
                                     \/ m \in acked /\ p = <<"acked">>
                                     \/ m \in dead  /\ p = <<"dead">>
                                     \/ m \in lost  /\ p = <<"lost">>
      BY <1>1, <2>1 DEF Written, Held
    <2>3. /\ m \in ready => m \notin acked /\ m \notin dead /\ m \notin lost
          /\ m \in acked => m \notin dead /\ m \notin lost
          /\ m \in dead  => m \notin lost
      BY <1>u DEF OnePlace, Apart
    <2>4. CASE m \in ready
      <3>1. Places(m) = {<<"ready">>}
        BY <2>2, <2>3, <2>4
      <3> QED
        BY <1>3, <1>6, <3>1
    <2>5. CASE m \in acked
      <3>1. Places(m) = {<<"acked">>}
        BY <2>2, <2>3, <2>5
      <3> QED
        BY <1>3, <1>6, <3>1
    <2>6. CASE m \in dead
      <3>1. Places(m) = {<<"dead">>}
        BY <2>2, <2>3, <2>6
      <3> QED
        BY <1>3, <1>6, <3>1
    <2>7. CASE m \in lost
      <3>1. Places(m) = {<<"lost">>}
        BY <2>2, <2>3, <2>7
      <3> QED
        BY <1>3, <1>6, <3>1
    <2> QED
      BY <1>6, <2>4, <2>5, <2>6, <2>7 DEF Placed
  <1> QED
    BY <1>2, <1>4, <1>5, <1>6

\* What Publish returns is the truth, for any number of callers, consumers, connections
\* and retries: nil means written once, an error not written at all, and nothing that
\* the broker, the network or a consumer does loses or multiplies a message but for the
\* loss of a wire (publisher.go 63-76).
THEOREM ResultsAreTrue == Spec => []ResultIsTrue
  <1>1. PInv => ResultIsTrue
    BY CountPlaces DEF ResultIsTrue
  <1> QED
    BY <1>1, PInvInit, PInvNext, PTL DEF Spec

(***************************************************************************)
(* Connections.                                                            *)
(***************************************************************************)
Returned == {m \in Msgs : call[m] = "ok"}
Excepted == Misrouted \cap lost

\* The client believes in the channel of its last connection only.  Another connection
\* is open only if the broker has closed its channel, and it has closed no more than
\* one for each message that went nowhere and was lost.
Leak ==
  /\ chan \subseteq {conn}
  /\ open \ chan \subseteq shut
  /\ IsFiniteSet(Returned)
  /\ Cardinality(shut) <= Cardinality(Excepted)

LInv == PInv /\ RInv /\ Leak

LEMMA ConnsFinite == IsFiniteSet(Conns)
  BY Bounds, FS_Interval DEF Conns

LEMMA ExceptedFinite ==
  ASSUME PInv, IsFiniteSet(Returned)
  PROVE  Excepted \subseteq Returned /\ IsFiniteSet(Excepted)
  <1>1. Excepted \subseteq Returned
    BY MsgsAssumption DEF Excepted, Returned, PInv, OnePlace, Placed
  <1> QED
    BY <1>1, FS_Subset

LEMMA LInvInit == Init => LInv
  <1> SUFFICES ASSUME Init PROVE LInv
    OBVIOUS
  <1>1. Returned = {} /\ Excepted = {} /\ shut = {} /\ open = chan /\ chan = {conn}
    BY DEF Init, Returned, Excepted
  <1>2. Leak
    BY <1>1, FS_EmptySet DEF Leak
  <1> QED
    BY <1>2, PInvInit, RInvInit DEF LInv

\* Messages are lost and channels closed together, or only the former.
LEMMA LostTogether ==
  ASSUME PInv, PInv', IsFiniteSet(Returned'), IsFiniteSet(Returned),
         Cardinality(shut) <= Cardinality(Excepted),
         shut' = shut, lost \subseteq lost'
  PROVE  Cardinality(shut') <= Cardinality(Excepted')
  <1>1. IsFiniteSet(Excepted') /\ Excepted \subseteq Excepted'
    <2>1. Excepted' \subseteq Returned'
      BY MsgsAssumption DEF Excepted, Returned, PInv, OnePlace, Placed
    <2> QED
      BY <2>1, FS_Subset DEF Excepted
  <1>2. Cardinality(Excepted) <= Cardinality(Excepted') /\ IsFiniteSet(Excepted)
    BY <1>1, FS_Subset
  <1>3. IsFiniteSet(shut)
    BY ConnsFinite, FS_Subset DEF PInv, TInv, BrokerType
  <1>4. /\ Cardinality(shut) \in Nat /\ Cardinality(Excepted) \in Nat
        /\ Cardinality(Excepted') \in Nat
    BY <1>1, <1>2, <1>3, FS_CardinalityType
  <1> QED
    BY <1>2, <1>4

\* The broker closes the channel of one more connection for a message that goes nowhere.
LEMMA ReadLeaks ==
  ASSUME LInv, PInv', NEW c \in Conns, BrokerReads(c)
  PROVE  Leak'
  <1> DEFINE h == Head(wire[c])
  <1>1. UNCHANGED <<chan, conn, open, call>> /\ shut \subseteq shut' /\ lost \subseteq lost'
    BY DEF BrokerReads, publisher
  <1>2. Returned' = Returned /\ IsFiniteSet(Returned)
    BY <1>1 DEF Returned, LInv, Leak
  <1>3. Cardinality(shut') <= Cardinality(Excepted')
    <2>1. CASE shut' = shut
      BY <1>1, <1>2, <2>1, LostTogether DEF LInv, Leak
    <2>2. CASE shut' # shut
      <3>1. c \notin shut /\ shut' = shut \cup {c} /\ h \in Misrouted /\ lost' = lost \cup {h}
        BY <2>2 DEF BrokerReads
      <3>2. h \notin lost
        <4>1. wire[c] \in Seq(Msgs) /\ wire[c] # <<>> /\ h \in Msgs
          BY DEF BrokerReads, LInv, PInv, TInv, BrokerType
        <4>2. At(h, c, 1)
          BY <4>1 DEF At
        <4>3. Written(h)
          BY <4>2 DEF Written
        <4> QED
          BY <4>1, <4>3 DEF LInv, PInv, OnePlace, Apart, Placed
      <3>3. Excepted' = Excepted \cup {h} /\ h \notin Excepted
        BY <3>1, <3>2 DEF Excepted
      <3>4. IsFiniteSet(Excepted) /\ IsFiniteSet(shut)
        BY <1>2, ExceptedFinite, ConnsFinite, FS_Subset DEF LInv, PInv, TInv, BrokerType
      <3>5. /\ Cardinality(shut') = Cardinality(shut) + 1
            /\ Cardinality(Excepted') = Cardinality(Excepted) + 1
        BY <3>1, <3>3, <3>4, FS_AddElement
      <3>6. Cardinality(shut) \in Nat /\ Cardinality(Excepted) \in Nat
        BY <3>4, FS_CardinalityType
      <3> QED
        BY <3>5, <3>6 DEF LInv, Leak
    <2> QED
      BY <2>1, <2>2
  <1> QED
    BY <1>1, <1>2, <1>3 DEF LInv, Leak

LEMMA LInvNext == LInv /\ [Next]_vars => LInv'
  <1> SUFFICES ASSUME LInv, [Next]_vars PROVE Leak'
    BY PInvNext, RInvNext DEF LInv
  <1>0. PInv' /\ PInv /\ RInv
    BY PInvNext DEF LInv
  \* What the steps but BrokerReads have to show.
  <1>a. ASSUME shut' = shut, lost \subseteq lost',
               \/ UNCHANGED call
               \/ \E m \in Msgs : \E p : call' = [call EXCEPT ![m] = p],
               chan' \subseteq {conn'}, open' \ chan' \subseteq shut'
        PROVE  Leak'
    <2>1. IsFiniteSet(Returned')
      <3>1. CASE UNCHANGED call
        BY <3>1 DEF Returned, LInv, Leak
      <3>2. ASSUME NEW m \in Msgs, NEW p, call' = [call EXCEPT ![m] = p]
            PROVE  IsFiniteSet(Returned')
        <4>1. IsFiniteSet(Returned \cup {m})
          BY FS_AddElement DEF LInv, Leak
        <4>2. Returned' \subseteq Returned \cup {m}
          BY <1>0, <3>2 DEF Returned, PInv, TInv, PublisherType
        <4> QED
          BY <4>1, <4>2, FS_Subset
      <3> QED
        BY <1>a, <3>1, <3>2
    <2>2. Cardinality(shut') <= Cardinality(Excepted')
      BY <1>0, <1>a, <2>1, LostTogether DEF LInv, Leak
    <2> QED
      BY <1>a, <2>1, <2>2 DEF Leak
  <1>u. chan \subseteq {conn} /\ open \ chan \subseteq shut
    BY DEF LInv, Leak
  <1>1. ASSUME NEW m \in Msgs, Publish(m) \/ TakeMutex(m) PROVE Leak'
    <2>1. /\ UNCHANGED <<shut, lost, chan, conn, open>>
          /\ \E p : call' = [call EXCEPT ![m] = p]
      BY <1>1 DEF Publish, TakeMutex, Phase, broker
    <2> QED
      BY <1>a, <1>u, <2>1
  <1>2. ASSUME NEW m \in Msgs, Send(m) PROVE Leak'
    <2>1. /\ UNCHANGED <<shut, lost, chan, conn, open>>
          /\ \E p : call' = [call EXCEPT ![m] = p]
      BY <1>2 DEF Send, Phase, ReturnFrom
    <2> QED
      BY <1>a, <1>u, <2>1
  <1>3. ASSUME NEW m \in Msgs, Reconnect(m) PROVE Leak'
    <2>1. /\ UNCHANGED <<shut, lost>>
          /\ \E p : call' = [call EXCEPT ![m] = p]
      BY <1>3 DEF Reconnect, TryAgain, Phase, ReturnFrom, broker
    <2>2. chan = {}
      BY <1>0, <1>3, <1>u DEF RInv, Tally, Reconnect
    <2>3. chan' \subseteq {conn'} /\ open' \ chan' \subseteq shut'
      <3>1. CASE UNCHANGED <<conn, open, chan>>
        BY <1>u, <2>1, <3>1
      <3>2. CASE /\ conn' = dialled + 1
                 /\ open' = open \cup {dialled + 1} /\ chan' = chan \cup {dialled + 1}
        BY <1>u, <2>1, <2>2, <3>2
      <3> QED
        BY <1>3, <3>1, <3>2 DEF Reconnect
    <2> QED
      BY <1>a, <2>1, <2>3
  <1>4. CASE ClosePublisher
    BY <1>4, <1>a, <1>u DEF ClosePublisher, broker
  <1>5. ASSUME NEW c \in Conns, BrokerReads(c) PROVE Leak'
    BY <1>0, <1>5, ReadLeaks
  <1>6. ASSUME NEW c \in Conns, ChannelCloses(c) PROVE Leak'
    BY <1>6, <1>a, <1>u DEF ChannelCloses, broker
  <1>7. ASSUME NEW c \in Conns, ConnectionFails(c) PROVE Leak'
    BY <1>7, <1>a, <1>u DEF ConnectionFails
  <1>8. ASSUME UNCHANGED publisher, UNCHANGED <<shut, lost>> PROVE Leak'
    BY <1>8, <1>a, <1>u DEF publisher
  <1>9. ASSUME NEW k \in Consumers,
               \/ \E m \in Msgs : Deliver(k, m)
               \/ Consuming(k)
               \/ ConsumerCut(k) \/ Cancelled(k) \/ Crash(k)
        PROVE  Leak'
    BY <1>8, <1>9 DEF Deliver, Consuming, NewConsumer, Consume, Handle, Settle, ChannelGone,
                      CloseConsumer, ConsumerCut, Cancelled, Crash, broker
  <1>10. CASE UNCHANGED vars
    BY <1>8, <1>10 DEF vars, broker
  <1> QED
    BY <1>1, <1>2, <1>3, <1>4, <1>5, <1>6, <1>7, <1>9, <1>10 DEF Next, Calling

\* The connections that the publisher leaves open are at most one and those on which it
\* has sent messages that go nowhere, whatever fails and however often it reconnects
\* (publisher.go 32-47, 66-93).
THEOREM ExceptionsLeakOnly == Spec => []OnlyExceptionsLeak
  <1>1. LInv => OnlyExceptionsLeak
    <2> SUFFICES ASSUME LInv PROVE OnlyExceptionsLeak
      OBVIOUS
    <2> DEFINE Paid == {m \in Misrouted : call[m] = "ok"}
    <2>1. Paid \subseteq Returned /\ Excepted \subseteq Paid
      BY ExceptedFinite, MsgsAssumption DEF LInv, Leak, Returned, Excepted
    <2>2. IsFiniteSet(Paid) /\ IsFiniteSet(Excepted)
      BY <2>1, FS_Subset DEF LInv, Leak
    <2>3. Cardinality(Excepted) <= Cardinality(Paid)
      BY <2>1, <2>2, FS_Subset
    <2>4. IsFiniteSet(shut)
      BY ConnsFinite, FS_Subset DEF LInv, PInv, TInv, BrokerType
    <2>5. IsFiniteSet(shut \cup {conn}) /\ Cardinality(shut \cup {conn}) <= Cardinality(shut) + 1
      <3>1. Cardinality(shut) \in Nat
        BY <2>4, FS_CardinalityType
      <3> QED
        BY <2>4, <3>1, FS_AddElement
    <2>6. open \subseteq shut \cup {conn}
      BY DEF LInv, Leak
    <2>7. IsFiniteSet(open) /\ Cardinality(open) <= Cardinality(shut \cup {conn})
      BY <2>5, <2>6, FS_Subset
    <2>8. /\ Cardinality(open) \in Nat /\ Cardinality(shut) \in Nat
          /\ Cardinality(Excepted) \in Nat /\ Cardinality(Paid) \in Nat
          /\ Cardinality(shut \cup {conn}) \in Nat
      BY <2>2, <2>4, <2>5, <2>7, FS_CardinalityType
    <2>9. Cardinality(shut) <= Cardinality(Excepted)
      BY DEF LInv, Leak
    <2> HIDE DEF Paid
    <2>10. Cardinality(open) <= 1 + Cardinality(Paid)
      BY <2>3, <2>5, <2>7, <2>8, <2>9
    <2> QED
      BY <2>10 DEF OnlyExceptionsLeak, Paid
  <1> QED
    BY <1>1, LInvInit, LInvNext, PTL DEF Spec

(***************************************************************************)
(* Messaging implements Delivery.  Since a message that Publish has        *)
(* returned nil for is at one place, the ones on the way are those that    *)
(* nobody holds and that are not anywhere else: the steps of the broker    *)
(* are steps of Delivery by what they do to the sets, whatever the order   *)
(* on the wires.                                                           *)
(***************************************************************************)
\* Who has no channel has no lease, and the prefetch is set before the subscription.
Limits == \A k \in Consumers : /\ ~up[k] => unacked[k] = {}
                               /\ up[k] /\ stage[k] # "open" => qos[k] = Prefetch

DInv == PInv /\ Limits

LEMMA DInvInit == Init => DInv
  BY PInvInit DEF DInv, Limits, Init

LEMMA LimitsNext ==
  ASSUME DInv, [Next]_vars
  PROVE  Limits'
  <1>t. /\ stage \in [Consumers -> {"new", "open", "loop", "ack", "nack", "returned"}]
        /\ up \in [Consumers -> BOOLEAN] /\ qos \in [Consumers -> Nat \cup {None}]
        /\ unacked \in [Consumers -> SUBSET Msgs]
    BY DEF DInv, PInv, TInv, ConsumerType, BrokerType
  <1>n. \A k \in Consumers : stage[k] = "new" => ~up[k]
    BY DEF DInv, PInv, InHand, HandOf
  <1>1. CASE UNCHANGED <<stage, up, qos, unacked>>
    BY <1>1 DEF DInv, Limits
  <1>2. CASE ClosePublisher \/ \E m \in Msgs : Publish(m) \/ TakeMutex(m) \/ Calling(m)
    BY <1>1, <1>2 DEF ClosePublisher, Publish, TakeMutex, Calling, Send, Reconnect,
                      broker, consumers
  <1>3. CASE \E c \in Conns : BrokerReads(c) \/ ChannelCloses(c) \/ ConnectionFails(c)
    BY <1>1, <1>3 DEF BrokerReads, ChannelCloses, ConnectionFails, broker, consumers
  <1>4. ASSUME NEW k \in Consumers, NEW m \in Msgs, Deliver(k, m) PROVE Limits'
    BY <1>4, <1>t DEF Deliver, DInv, Limits
  <1>5. ASSUME NEW k \in Consumers, NewConsumer(k) PROVE Limits'
    BY <1>5, <1>t DEF NewConsumer, Goto, broker, DInv, Limits
  <1>6. ASSUME NEW k \in Consumers, Consume(k) PROVE Limits'
    BY <1>6, <1>t DEF Consume, Goto, broker, DInv, Limits
  <1>7. ASSUME NEW k \in Consumers, Handle(k) \/ ChannelGone(k) \/ Cancelled(k) PROVE Limits'
    BY <1>7, <1>t DEF Handle, ChannelGone, Cancelled, Goto, broker, DInv, Limits
  <1>8. ASSUME NEW k \in Consumers, Settle(k) PROVE Limits'
    BY <1>8, <1>t DEF Settle, Goto, DInv, Limits
  <1>9. ASSUME NEW k \in Consumers, ConsumerCut(k) PROVE Limits'
    BY <1>9, <1>t DEF ConsumerCut, Requeue, DInv, Limits
  <1>10. ASSUME NEW k \in Consumers, CloseConsumer(k) \/ Crash(k) PROVE Limits'
    BY <1>10, <1>t DEF CloseConsumer, Crash, Discard, Requeue, Goto, DInv, Limits
  <1>11. CASE UNCHANGED vars
    BY <1>1, <1>11 DEF vars, broker, consumers
  <1> QED
    BY <1>2, <1>3, <1>4, <1>5, <1>6, <1>7, <1>8, <1>9, <1>10, <1>11 DEF Next, Consuming

LEMMA DInvNext == DInv /\ [Next]_vars => DInv'
  BY PInvNext, LimitsNext DEF DInv

\* On the way is what has been accepted and is nowhere else.
Way == OnTheWay = {m \in Msgs : call[m] = "ok" /\ ~Held(m) /\ ~Placed(m)}

LEMMA TheWay == PInv => Way
  <1> SUFFICES ASSUME PInv PROVE Way
    OBVIOUS
  <1>1. \A c \in Conns : wire[c] \in Seq(Msgs)
    BY DEF PInv, TInv, BrokerType
  <1>2. ASSUME NEW c \in Conns, NEW m
        PROVE  m \in ToSet(wire[c]) <=> m \in Msgs /\ \E i \in Nat : At(m, c, i)
    <2>1. DOMAIN wire[c] = 1 .. Len(wire[c]) /\ Len(wire[c]) \in Nat
          /\ \A i \in 1 .. Len(wire[c]) : wire[c][i] \in Msgs
      BY <1>1
    <2> QED
      BY <2>1 DEF ToSet, At
  <1>3. \A m \in Msgs : Written(m) <=> call[m] = "ok" /\ ~Held(m) /\ ~Placed(m)
    BY DEF PInv, OnePlace, Apart
  <1>4. \A m : m \in OnTheWay <=> m \in Msgs /\ Written(m)
    BY <1>2 DEF OnTheWay, Written
  <1> QED
    BY <1>3, <1>4 DEF Way

LEMMA TheWayNext == PInv' => Way'
  BY TheWay, PTL

\* Where nothing moves that Delivery sees, nothing has moved.
LEMMA Stutter ==
  ASSUME UNCHANGED <<wire, ready, unacked, acked, dead, lost>>,
         Answered("ok")' = Answered("ok"), Answered("err")' = Answered("err"),
         Verdict' = Verdict
  PROVE  UNCHANGED Queue!vars
  BY DEF Queue!vars, OnTheWay

LEMMA SameVerdict == UNCHANGED <<stage, up, job>> => Verdict' = Verdict
  BY DEF Verdict

LEMMA SameAnswers ==
  UNCHANGED call => Answered("ok")' = Answered("ok") /\ Answered("err")' = Answered("err")
  BY DEF Answered

\* One consumer's verdict.
LEMMA VerdictChange ==
  ASSUME NEW k \in Consumers, NEW v,
         \A l \in Consumers \ {k} : /\ stage'[l] = stage[l] /\ up'[l] = up[l]
                                    /\ job'[l] = job[l],
         v = Verdict'[k]
  PROVE  Verdict' = [Verdict EXCEPT ![k] = v]
  BY DEF Verdict

\* What a call does is an answer, or nothing yet.
LEMMA CallStep ==
  ASSUME DInv, NEW n \in Msgs, Publish(n) \/ TakeMutex(n) \/ Calling(n), PInv'
  PROVE  [Queue!Next]_(Queue!vars)
  <1>t. call \in [Msgs -> {"new", "waiting", "send", "reconnect", "ok", "err"}]
    BY DEF DInv, PInv, TInv, PublisherType
  <1>1. /\ UNCHANGED <<ready, unacked, acked, dead, lost, stage, up, job>>
        /\ \E r \in {"waiting", "send", "reconnect", "ok", "err"} :
             call' = [call EXCEPT ![n] = r] /\ (r # "ok" => wire' = wire)
        /\ call[n] \notin {"ok", "err"}
    BY DEF Publish, TakeMutex, Calling, Send, Reconnect, TryAgain, ReturnFrom, Phase,
           broker, consumers
  <1>2. PICK r \in {"waiting", "send", "reconnect", "ok", "err"} :
          call' = [call EXCEPT ![n] = r] /\ (r # "ok" => wire' = wire)
    BY <1>1
  <1>3. Verdict' = Verdict
    BY <1>1, SameVerdict
  <1>4. /\ Answered("ok")'  = IF r = "ok"  THEN Answered("ok") \cup {n}  ELSE Answered("ok")
        /\ Answered("err")' = IF r = "err" THEN Answered("err") \cup {n} ELSE Answered("err")
        /\ n \notin Answered("ok") \cup Answered("err")
    BY <1>t, <1>1, <1>2 DEF Answered
  <1>5. CASE r = "ok"
    <2>1. \A m \in Msgs : (Held(m)' <=> Held(m)) /\ (Placed(m)' <=> Placed(m))
      BY <1>1 DEF Held, Placed
    <2>2. ~Held(n) /\ ~Placed(n)
      BY <1>1 DEF DInv, PInv, OnePlace
    <2>3. OnTheWay' = OnTheWay \cup {n}
      <3>1. OnTheWay' = {m \in Msgs : call'[m] = "ok" /\ ~Held(m)' /\ ~Placed(m)'}
        BY TheWayNext DEF Way
      <3>2. OnTheWay = {m \in Msgs : call[m] = "ok" /\ ~Held(m) /\ ~Placed(m)}
        BY TheWay DEF DInv, Way
      <3>3. \A m \in Msgs : call'[m] = "ok" <=> call[m] = "ok" \/ m = n
        BY <1>t, <1>2, <1>5
      <3> QED
        BY <2>1, <2>2, <3>1, <3>2, <3>3
    <2>4. Queue!Accept(n)
      BY <1>1, <1>3, <1>4, <1>5, <2>3 DEF Queue!Accept
    <2> QED
      BY <2>4 DEF Queue!Next
  <1>6. CASE r = "err"
    <2>1. OnTheWay' = OnTheWay
      BY <1>2, <1>6 DEF OnTheWay
    <2>2. Queue!Refuse(n)
      BY <1>1, <1>3, <1>4, <1>6, <2>1 DEF Queue!Refuse
    <2> QED
      BY <2>2 DEF Queue!Next
  <1>7. CASE r \notin {"ok", "err"}
    BY <1>1, <1>2, <1>3, <1>4, <1>7, Stutter
  <1> QED
    BY <1>5, <1>6, <1>7

\* What comes off a wire is in the queue, or it is lost.
LEMMA WireStep ==
  ASSUME DInv, NEW c \in Conns, BrokerReads(c) \/ ConnectionFails(c), PInv'
  PROVE  [Queue!Next]_(Queue!vars)
  <1>1. /\ UNCHANGED <<call, unacked, acked, dead, stage, up, job>>
        /\ ready \subseteq ready' /\ lost \subseteq lost'
        /\ lost' \subseteq Msgs /\ ready' \subseteq Msgs
    BY DEF BrokerReads, ConnectionFails, publisher, consumers, PInv, TInv, BrokerType
  <1>2. /\ Verdict' = Verdict
        /\ Answered("ok")' = Answered("ok") /\ Answered("err")' = Answered("err")
    BY <1>1, SameVerdict, SameAnswers
  <1>3. OnTheWay = {m \in Msgs : call[m] = "ok" /\ ~Held(m) /\ ~Placed(m)}
    BY TheWay DEF DInv, Way
  <1>4. OnTheWay' = {m \in Msgs : call[m] = "ok" /\ ~Held(m) /\ ~Placed(m)'}
    <2>1. OnTheWay' = {m \in Msgs : call'[m] = "ok" /\ ~Held(m)' /\ ~Placed(m)'}
      BY TheWayNext DEF Way
    <2> QED
      BY <1>1, <2>1 DEF Held
  \* Nothing that was somewhere else comes off a wire.
  <1>5. ASSUME NEW m \in Msgs, m \in (lost' \ lost) \cup (ready' \ ready)
        PROVE  m \in OnTheWay /\ m \notin OnTheWay'
    <2>1. OnePlace(m)'
      BY DEF PInv
    <2>2. Placed(m)' /\ ~Held(m)' /\ call'[m] = "ok"
      BY <1>5, <2>1 DEF OnePlace, Apart, Placed
    <2>3. m \notin acked /\ m \notin dead /\ m \notin ready /\ m \notin lost
      BY <1>1, <1>5, <2>1 DEF OnePlace, Apart
    <2> QED
      BY <1>1, <1>3, <1>4, <2>2, <2>3 DEF Held, Placed
  <1>6. OnTheWay' = OnTheWay \ ((lost' \ lost) \cup (ready' \ ready))
    BY <1>1, <1>3, <1>4, <1>5 DEF Placed
  <1>7. CASE ready' = ready
    <2>1. Queue!Lose(lost' \ lost)
      BY <1>1, <1>2, <1>5, <1>6, <1>7 DEF Queue!Lose
    <2>2. lost' \ lost \in SUBSET Msgs
      BY <1>1
    <2> QED
      BY <2>1, <2>2 DEF Queue!Next
  <1>8. CASE ready' # ready
    <2>1. lost' = lost /\ \E m \in Msgs : ready' = ready \cup {m}
      BY <1>1, <1>8 DEF BrokerReads, ConnectionFails
    <2>2. PICK m \in Msgs : ready' = ready \cup {m}
      BY <2>1
    <2>3. ready' \ ready = {m}
      BY <1>8, <2>2
    <2>4. Queue!Arrive(m)
      BY <1>1, <1>2, <1>5, <1>6, <2>1, <2>2, <2>3 DEF Queue!Arrive
    <2> QED
      BY <2>4 DEF Queue!Next
  <1> QED
    BY <1>7, <1>8

\* Delivery counts as this module does.
LEMMA SameCount == \A S : Queue!Cardinality(S) = Cardinality(S)
  BY DEF Cardinality, Queue!Cardinality

\* A message moves between the queue and the consumers.
LEMMA LeaseStep ==
  ASSUME DInv, PInv', NEW k \in Consumers,
         \/ \E m \in Msgs : Deliver(k, m)
         \/ ConsumerCut(k) \/ CloseConsumer(k) \/ Crash(k)
  PROVE  Queue!Next
  <1>t. /\ stage \in [Consumers -> {"new", "open", "loop", "ack", "nack", "returned"}]
        /\ up \in [Consumers -> BOOLEAN] /\ job \in [Consumers -> Msgs \cup {None}]
        /\ unacked \in [Consumers -> SUBSET Msgs] /\ ready \subseteq Msgs
    BY DEF DInv, PInv, TInv, ConsumerType, BrokerType
  <1>1. UNCHANGED <<call, wire, acked, dead, lost>>
    BY DEF Deliver, ConsumerCut, CloseConsumer, Crash, publisher
  <1>2. /\ OnTheWay' = OnTheWay
        /\ Answered("ok")' = Answered("ok") /\ Answered("err")' = Answered("err")
    BY <1>1, SameAnswers DEF OnTheWay
  <1>3. ASSUME NEW m \in Msgs, Deliver(k, m) PROVE Queue!Next
    <2>1. /\ m \in ready /\ ready' = ready \ {m}
          /\ unacked' = [unacked EXCEPT ![k] = @ \cup {m}]
          /\ UNCHANGED <<stage, up, job>> /\ up[k] /\ stage[k] # "open"
          /\ qos[k] # None => Cardinality(unacked[k]) < qos[k]
      BY <1>3 DEF Deliver
    <2>2. qos[k] = Prefetch /\ Prefetch # None
      BY <2>1, Bounds, MsgsAssumption DEF DInv, Limits
    <2>3. Cardinality(unacked[k]) < Prefetch
      BY <2>1, <2>2
    <2>4. Queue!Grant(k, m)
      BY <1>1, <1>2, <2>1, <2>3, SameVerdict, SameCount DEF Queue!Grant
    <2> QED
      BY <2>4 DEF Queue!Next
  <1>4. CASE ConsumerCut(k) \/ CloseConsumer(k) \/ Crash(k)
    <2>1. Requeue(k) /\ ~up'[k]
          /\ \A l \in Consumers \ {k} : /\ stage'[l] = stage[l] /\ up'[l] = up[l]
                                        /\ job'[l] = job[l]
      BY <1>4, <1>t DEF ConsumerCut, CloseConsumer, Crash, Discard, Goto
    <2>2. Verdict'[k] = {}
      BY <2>1 DEF Verdict
    <2>3. Verdict' = [Verdict EXCEPT ![k] = {}]
      BY <2>1, <2>2, VerdictChange
    <2>4. Queue!GiveBack(k)
      BY <1>1, <1>2, <2>1, <2>3 DEF Queue!GiveBack, Requeue
    <2> QED
      BY <2>4 DEF Queue!Next
  <1> QED
    BY <1>3, <1>4

\* A handler judges what its consumer has the lease of, and that is what is settled.
LEMMA WorkStep ==
  ASSUME DInv, PInv', NEW k \in Consumers, Handle(k) \/ Settle(k)
  PROVE  [Queue!Next]_(Queue!vars)
  <1>t. /\ stage \in [Consumers -> {"new", "open", "loop", "ack", "nack", "returned"}]
        /\ up \in [Consumers -> BOOLEAN] /\ job \in [Consumers -> Msgs \cup {None}]
        /\ inbox \in [Consumers -> Seq(Msgs)] /\ HandOf(k)
        /\ unacked \in [Consumers -> SUBSET Msgs]
    BY DEF DInv, PInv, TInv, ConsumerType, BrokerType, InHand
  <1>1. /\ UNCHANGED <<call, wire, lost, ready, up>>
        /\ \A l \in Consumers \ {k} : stage'[l] = stage[l] /\ job'[l] = job[l]
    BY <1>t DEF Handle, Settle, Goto, publisher, broker
  <1>2. /\ OnTheWay' = OnTheWay
        /\ Answered("ok")' = Answered("ok") /\ Answered("err")' = Answered("err")
    BY <1>1, SameAnswers DEF OnTheWay
  <1>3. Verdict' = [Verdict EXCEPT ![k] = Verdict'[k]]
    BY <1>1, VerdictChange
  <1>4. CASE ~up[k]
    <2>1. Verdict[k] = {} /\ Verdict'[k] = {}
      BY <1>1, <1>4 DEF Verdict
    <2>2. Verdict' = Verdict
      BY <1>3, <2>1 DEF Verdict
    <2>3. UNCHANGED <<unacked, acked, dead>>
      BY <1>4 DEF Handle, Settle, broker
    <2> QED
      BY <1>1, <1>2, <2>2, <2>3, Stutter
  <1>5. CASE up[k] /\ Handle(k)
    <2>1. /\ stage[k] = "loop" /\ inbox[k] # <<>> /\ job'[k] = Head(inbox[k])
          /\ stage'[k] \in {"ack", "nack"} /\ UNCHANGED <<unacked, acked, dead>>
      BY <1>t, <1>5 DEF Handle, Goto, broker
    <2>2. Head(inbox[k]) = inbox[k][1] /\ 1 \in 1 .. Len(inbox[k]) /\ Head(inbox[k]) \in Msgs
      BY <1>t, <2>1
    <2>3. Head(inbox[k]) \in unacked[k]
      BY <1>t, <1>5, <2>2 DEF HandOf
    <2>4. /\ Verdict[k] = {}
          /\ Verdict'[k] = {[msg |-> Head(inbox[k]), ok |-> stage'[k] = "ack"]}
      BY <1>1, <1>5, <2>1 DEF Verdict
    <2>5. Queue!Judge(k, Head(inbox[k]), stage'[k] = "ack")
      BY <1>1, <1>2, <1>3, <2>1, <2>3, <2>4 DEF Queue!Judge
    <2>6. (stage'[k] = "ack") \in BOOLEAN
      OBVIOUS
    <2> QED
      BY <2>2, <2>5, <2>6 DEF Queue!Next
  <1>6. CASE up[k] /\ Settle(k)
    <2>1. /\ stage[k] \in {"ack", "nack"} /\ stage'[k] = "loop"
          /\ unacked' = [unacked EXCEPT ![k] = @ \ {job[k]}]
          /\ acked' = IF stage[k] = "ack" THEN acked \cup {job[k]} ELSE acked
          /\ dead' = IF stage[k] = "ack" THEN dead ELSE dead \cup {job[k]}
      BY <1>t, <1>6 DEF Settle, Goto
    <2>2. job[k] \in unacked[k] /\ job[k] \in Msgs
      BY <1>t, <1>6, <2>1 DEF HandOf
    <2>3. Verdict'[k] = {} /\ Verdict[k] = {[msg |-> job[k], ok |-> stage[k] = "ack"]}
      BY <1>6, <2>1 DEF Verdict
    <2>4. Queue!Finish(k, job[k], stage[k] = "ack")
      BY <1>1, <1>2, <1>3, <2>1, <2>2, <2>3 DEF Queue!Finish
    <2>5. (stage[k] = "ack") \in BOOLEAN
      OBVIOUS
    <2> QED
      BY <2>2, <2>4, <2>5 DEF Queue!Next
  <1> QED
    BY <1>4, <1>5, <1>6, <1>t

\* A consumer that begins or ends has no verdict.
LEMMA IdleStep ==
  ASSUME DInv, NEW k \in Consumers,
         NewConsumer(k) \/ Consume(k) \/ ChannelGone(k) \/ Cancelled(k)
  PROVE  UNCHANGED Queue!vars
  <1>t. /\ stage \in [Consumers -> {"new", "open", "loop", "ack", "nack", "returned"}]
        /\ up \in [Consumers -> BOOLEAN]
    BY DEF DInv, PInv, TInv, ConsumerType
  <1>1. /\ UNCHANGED <<call, wire, ready, unacked, acked, dead, lost, job>>
        /\ stage[k] \in {"new", "open", "loop"} /\ stage'[k] \in {"open", "loop", "returned"}
        /\ \A l \in Consumers \ {k} : stage'[l] = stage[l] /\ up'[l] = up[l]
    BY <1>t DEF NewConsumer, Consume, ChannelGone, Cancelled, Goto, publisher, broker
  <1>2. Verdict' = Verdict
    BY <1>1 DEF Verdict
  <1> QED
    BY <1>1, <1>2, SameAnswers, Stutter

LEMMA DeliveryStep == DInv /\ [Next]_vars => [Queue!Next]_(Queue!vars)
  <1> SUFFICES ASSUME DInv, [Next]_vars PROVE [Queue!Next]_(Queue!vars)
    OBVIOUS
  <1>p. PInv'
    BY PInvNext DEF DInv
  <1>1. ASSUME NEW m \in Msgs, Publish(m) \/ TakeMutex(m) \/ Calling(m)
        PROVE  [Queue!Next]_(Queue!vars)
    BY <1>1, <1>p, CallStep
  <1>2. ASSUME NEW c \in Conns, BrokerReads(c) \/ ConnectionFails(c)
        PROVE  [Queue!Next]_(Queue!vars)
    BY <1>2, <1>p, WireStep
  <1>3. ASSUME NEW k \in Consumers,
               \/ \E m \in Msgs : Deliver(k, m)
               \/ ConsumerCut(k) \/ CloseConsumer(k) \/ Crash(k)
        PROVE  [Queue!Next]_(Queue!vars)
    BY <1>3, <1>p, LeaseStep
  <1>4. ASSUME NEW k \in Consumers, Handle(k) \/ Settle(k)
        PROVE  [Queue!Next]_(Queue!vars)
    BY <1>4, <1>p, WorkStep
  <1>5. ASSUME NEW k \in Consumers,
               NewConsumer(k) \/ Consume(k) \/ ChannelGone(k) \/ Cancelled(k)
        PROVE  [Queue!Next]_(Queue!vars)
    BY <1>5, IdleStep
  <1>6. CASE UNCHANGED <<call, wire, ready, unacked, acked, dead, lost, stage, up, job>>
    BY <1>6, SameVerdict, SameAnswers, Stutter
  <1>7. CASE ClosePublisher \/ \E c \in Conns : ChannelCloses(c)
    BY <1>6, <1>7 DEF ClosePublisher, ChannelCloses, broker, consumers
  <1>8. CASE UNCHANGED vars
    BY <1>6, <1>8 DEF vars, publisher, broker, consumers
  <1> QED
    BY <1>1, <1>2, <1>3, <1>4, <1>5, <1>7, <1>8 DEF Next, Consuming

\* Whatever fails and whoever crashes, the publisher and the consumers are those of
\* Delivery: each message is answered for once, lost on the way or never, leased within
\* the prefetch to one consumer at a time, and ended by a verdict of the lease that it
\* was made under (publisher.go 63-76, consumer.go 42-71).
THEOREM Implementation == Spec => ImplementsDelivery
  <1>1. Init => Queue!Init
    <2> SUFFICES ASSUME Init PROVE Queue!Init
      OBVIOUS
    <2>1. Answered("ok") = {} /\ Answered("err") = {}
      BY DEF Init, Answered
    <2>2. OnTheWay = {}
      BY DEF Init, OnTheWay, ToSet
    <2>3. Verdict = [k \in Consumers |-> {}]
      BY DEF Init, Verdict
    <2> QED
      BY <2>1, <2>2, <2>3 DEF Init, Queue!Init
  <1> QED
    BY <1>1, DInvInit, DInvNext, DeliveryStep, PTL DEF Spec, ImplementsDelivery, Queue!Spec
=============================================================================
