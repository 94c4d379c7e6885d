------------------------------ MODULE Messaging ------------------------------
(***************************************************************************)
(* rabbitmq/publisher.go and rabbitmq/consumer.go around one queue: the    *)
(* goroutines of a service publish through one Publisher, whose channel    *)
(* the broker or the network may close at any moment, and Consumers, each  *)
(* with a connection of its own, take the messages.                        *)
(*                                                                         *)
(* The broker and amqp091-go are external.  PublishWithContext returns     *)
(* once the frames are written: the publisher asks for no confirms, so     *)
(* what is written may still be lost with its connection, and a message    *)
(* for an exchange that does not exist makes the broker close the channel. *)
(***************************************************************************)
EXTENDS Integers, FiniteSets, SequencesExt

CONSTANTS Msgs,       \* messages; each is published by one call
          Misrouted,  \* messages for an exchange that does not exist
          Consumers,
          MaxRetries, \* Publisher.maxRetries
          Prefetch,   \* the argument of Consume
          LastConn,   \* bound: connections the publisher can open
          MaxFaults,  \* bound: how often the network fails
          None

Conns == 1 .. LastConn
ASSUME MsgsAssumption == Misrouted \subseteq Msgs /\ None \notin Msgs \cup Nat
ASSUME BoundsAssumption == /\ MaxRetries \in Nat /\ Prefetch \in Nat \ {0}
                           /\ LastConn \in Nat \ {0} /\ MaxFaults \in Nat

VARIABLES
  \* The Publisher.
  mu,       \* the call that has the mutex
  conn,     \* p.conn and p.ch
  dialled,  \* the last connection opened
  open,     \* connections not closed
  chan,     \* connections whose channel the client believes in
  shut,     \* channels the broker has closed
  call,     \* what the call of each message is doing, or has returned
  attempt,
  closed,   \* Close has been called, and no Publish since
  trouble,  \* ghost: dials and connections that failed during the call that has
            \* the mutex, or that its error is about; at most MaxRetries
  \* The broker.
  wire,     \* what is written on a connection and not read by the broker
  ready,    \* messages in the queue
  unacked,  \* messages of each consumer that the broker waits for
  acked, dead,
  lost,     \* ghost: messages lost on a wire
  faults,
  \* The Consumers.
  stage,    \* where each is
  up,       \* its channel is open
  qos,      \* its prefetch, or None
  inbox,    \* the deliveries it has not taken
  job,      \* the delivery in its handler
  ranOk, ranErr  \* ghost: messages some handler accepted, refused

publisher == <<mu, conn, dialled, open, chan, call, attempt, closed, trouble>>
broker    == <<shut, wire, ready, unacked, acked, dead, lost>>
consumers == <<stage, up, qos, inbox, job, ranOk, ranErr>>
vars == <<publisher, broker, faults, consumers>>

TypeOK ==
  /\ mu \in Msgs \cup {None} /\ conn \in Conns /\ dialled \in Conns
  /\ open \subseteq Conns /\ chan \subseteq open /\ shut \subseteq Conns
  /\ call \in [Msgs -> {"new", "waiting", "send", "reconnect", "ok", "err"}]
  /\ attempt \in 0 .. MaxRetries /\ closed \in BOOLEAN
  /\ trouble \in [Msgs -> 0 .. MaxRetries]
  /\ wire \in [Conns -> Seq(Msgs)] /\ ready \subseteq Msgs
  /\ unacked \in [Consumers -> SUBSET Msgs]
  /\ acked \subseteq Msgs /\ dead \subseteq Msgs /\ lost \subseteq Msgs
  /\ faults \in 0 .. MaxFaults
  /\ stage \in [Consumers -> {"new", "open", "loop", "ack", "nack", "returned"}]
  /\ up \in [Consumers -> BOOLEAN] /\ qos \in [Consumers -> Nat \cup {None}]
  /\ inbox \in [Consumers -> Seq(Msgs)] /\ job \in [Consumers -> Msgs \cup {None}]
  /\ ranOk \subseteq Msgs /\ ranErr \subseteq Msgs

\* NewPublisher has connected.
Init ==
  /\ mu = None /\ conn = 1 /\ dialled = 1 /\ open = {1} /\ chan = {1} /\ shut = {}
  /\ call = [m \in Msgs |-> "new"] /\ attempt = 0 /\ closed = FALSE
  /\ trouble = [m \in Msgs |-> 0]
  /\ wire = [c \in Conns |-> <<>>] /\ ready = {}
  /\ unacked = [k \in Consumers |-> {}]
  /\ acked = {} /\ dead = {} /\ lost = {} /\ faults = 0
  /\ stage = [k \in Consumers |-> "new"] /\ up = [k \in Consumers |-> FALSE]
  /\ qos = [k \in Consumers |-> None]
  /\ inbox = [k \in Consumers |-> <<>>] /\ job = [k \in Consumers |-> None]
  /\ ranOk = {} /\ ranErr = {}

(***************************************************************************)
(* The Publisher.                                                          *)
(***************************************************************************)
Phase(m, p) == call' = [call EXCEPT ![m] = p]

\* The payload has been encoded: a call whose payload is no JSON returns an error before
\* it takes the mutex, touches nothing, and is left out.
Publish(m) ==
  /\ call[m] = "new"
  /\ Phase(m, "waiting")
  /\ UNCHANGED <<mu, conn, dialled, open, chan, attempt, closed, trouble>>
  /\ UNCHANGED <<broker, faults, consumers>>

TakeMutex(m) ==
  /\ call[m] = "waiting" /\ mu = None
  /\ mu' = m /\ attempt' = 0 /\ closed' = FALSE
  /\ Phase(m, "send")
  /\ UNCHANGED <<conn, dialled, open, chan, trouble>>
  /\ UNCHANGED <<broker, faults, consumers>>

\* Fault: a return in the loop leaves the mutex locked.
ReturnLocked(m, result) == /\ Phase(m, result)
                           /\ UNCHANGED <<mu, attempt>>

\* The call returns, with the deferred Unlock.
ReturnFrom(m, result) == /\ Phase(m, result)
                         /\ mu' = None /\ attempt' = 0

\* Fault: the result of the last connect is what the loop returns.
SendOnce(m) ==
  /\ call[m] = "send"
  /\ IF conn \in chan THEN wire' = [wire EXCEPT ![conn] = Append(@, m)]
                      ELSE UNCHANGED wire
  /\ ReturnFrom(m, "ok")
  /\ UNCHANGED <<conn, dialled, open, chan, closed, trouble>>
  /\ UNCHANGED <<shut, ready, unacked, acked, dead, lost, faults, consumers>>

\* PublishWithContext on the channel that p.ch is.
Send(m) ==
  /\ call[m] = "send"
  /\ \/ /\ conn \in chan
        /\ wire' = [wire EXCEPT ![conn] = Append(@, m)]
        /\ ReturnFrom(m, "ok")
        /\ trouble' = [trouble EXCEPT ![m] = 0]
     \/ /\ conn \notin chan
        /\ Phase(m, "reconnect")
        /\ UNCHANGED <<wire, mu, attempt, trouble>>
  /\ UNCHANGED <<conn, dialled, open, chan, closed>>
  /\ UNCHANGED <<shut, ready, unacked, acked, dead, lost, faults, consumers>>

\* Fault: the loop ends one attempt early.
TryOnceLess(m) == IF attempt + 1 < MaxRetries
                  THEN attempt' = attempt + 1 /\ Phase(m, "send") /\ UNCHANGED mu
                  ELSE ReturnFrom(m, "err")

\* The head of the loop, and what is behind it.
TryAgain(m) == IF attempt < MaxRetries
               THEN attempt' = attempt + 1 /\ Phase(m, "send") /\ UNCHANGED mu
               ELSE ReturnFrom(m, "err")

More(n) == IF n < MaxRetries THEN n + 1 ELSE n

\* connect, also after the last attempt.  The new connection takes the place of
\* the old one, which stays as it is.
Reconnect(m) ==
  /\ call[m] = "reconnect"
  /\ \/ /\ dialled < LastConn
        /\ dialled' = dialled + 1 /\ conn' = dialled + 1
        /\ open' = open \cup {dialled + 1} /\ chan' = chan \cup {dialled + 1}
        /\ UNCHANGED trouble
     \/ /\ trouble' = [trouble EXCEPT ![m] = More(@)]
        /\ UNCHANGED <<dialled, conn, open, chan>>
  /\ TryAgain(m)
  /\ UNCHANGED <<closed, broker, faults, consumers>>

\* Fault: Close closes the channel only.
CloseChannelOnly ==
  /\ mu = None /\ ~closed
  /\ chan' = chan \ {conn} /\ closed' = TRUE
  /\ UNCHANGED <<mu, conn, dialled, open, call, attempt, trouble>>
  /\ UNCHANGED <<broker, faults, consumers>>

\* Close, under the mutex from its first line to its last.
ClosePublisher ==
  /\ mu = None /\ ~closed
  /\ open' = open \ {conn} /\ chan' = chan \ {conn}
  /\ closed' = TRUE
  /\ UNCHANGED <<mu, conn, dialled, call, attempt, trouble>>
  /\ UNCHANGED <<broker, faults, consumers>>

(***************************************************************************)
(* The broker and the network.                                             *)
(***************************************************************************)
\* What a connection that fails means to the call that is using it.
Troubled(c) == trouble' = [m \in Msgs |-> IF mu = m /\ c = conn /\ c \in chan
                                          THEN More(trouble[m]) ELSE trouble[m]]

\* The broker reads the next message of a connection: it goes to the queue, or has
\* the channel closed; what comes after that on the channel is thrown away.
BrokerReads(c) ==
  /\ wire[c] # <<>>
  /\ wire' = [wire EXCEPT ![c] = Tail(@)]
  /\ IF c \in shut \/ Head(wire[c]) \in Misrouted
     THEN /\ lost' = lost \cup {Head(wire[c])}
          /\ shut' = shut \cup {c}
          /\ UNCHANGED ready
     ELSE /\ ready' = ready \cup {Head(wire[c])}
          /\ UNCHANGED <<lost, shut>>
  /\ UNCHANGED <<publisher, unacked, acked, dead, faults, consumers>>

\* The client learns that its channel is closed; the connection stays.
ChannelCloses(c) ==
  /\ c \in shut \cap chan
  /\ chan' = chan \ {c}
  /\ Troubled(c)
  /\ UNCHANGED <<mu, conn, dialled, open, call, attempt, closed>>
  /\ UNCHANGED <<broker, faults, consumers>>

Fault == faults < MaxFaults /\ faults' = faults + 1

\* A connection of the publisher fails: the broker has read as much of it as it has.
ConnectionFails(c) ==
  /\ Fault
  /\ c \in open
  /\ open' = open \ {c} /\ chan' = chan \ {c}
  /\ Troubled(c)
  /\ \E n \in 0 .. Len(wire[c]) :
       /\ wire' = [wire EXCEPT ![c] = SubSeq(@, 1, n)]
       /\ lost' = lost \cup ToSet(SubSeq(wire[c], n + 1, Len(wire[c])))
  /\ UNCHANGED <<mu, conn, dialled, call, attempt, closed>>
  /\ UNCHANGED <<shut, ready, unacked, acked, dead, consumers>>

\* The broker puts the messages of a consumer whose channel is gone back.
Requeue(k) == /\ ready' = ready \cup unacked[k]
              /\ unacked' = [unacked EXCEPT ![k] = {}]

\* Fault: the queue is consumed with autoAck.
DeliverAutoAck(k, m) ==
  /\ up[k] /\ stage[k] # "open" /\ m \in ready
  /\ ready' = ready \ {m} /\ acked' = acked \cup {m}
  /\ inbox' = [inbox EXCEPT ![k] = Append(@, m)]
  /\ UNCHANGED <<publisher, shut, wire, unacked, dead, lost, faults>>
  /\ UNCHANGED <<stage, up, qos, job, ranOk, ranErr>>

\* The broker delivers a message, within the prefetch, to be acknowledged
\* (autoAck = false).  It goes on after Consume has returned: nothing cancels the
\* subscription.
Deliver(k, m) ==
  /\ up[k] /\ stage[k] # "open" /\ m \in ready
  /\ qos[k] # None => Cardinality(unacked[k]) < qos[k]
  /\ ready' = ready \ {m}
  /\ unacked' = [unacked EXCEPT ![k] = @ \cup {m}]
  /\ inbox' = [inbox EXCEPT ![k] = Append(@, m)]
  /\ UNCHANGED <<publisher, shut, wire, acked, dead, lost, faults>>
  /\ UNCHANGED <<stage, up, qos, job, ranOk, ranErr>>

\* The connection of a consumer fails.
ConsumerCut(k) ==
  /\ Fault
  /\ up[k]
  /\ up' = [up EXCEPT ![k] = FALSE]
  /\ Requeue(k)
  /\ UNCHANGED <<publisher, shut, wire, acked, dead, lost>>
  /\ UNCHANGED <<stage, qos, inbox, job, ranOk, ranErr>>

(***************************************************************************)
(* The Consumers.                                                          *)
(***************************************************************************)
Goto(k, st) == stage' = [stage EXCEPT ![k] = st]

NewConsumer(k) ==
  /\ stage[k] = "new"
  /\ up' = [up EXCEPT ![k] = TRUE]
  /\ Goto(k, "open")
  /\ UNCHANGED <<publisher, broker, faults, qos, inbox, job, ranOk, ranErr>>

\* Fault: the subscription without Qos.
ConsumeUnlimited(k) ==
  /\ stage[k] = "open"
  /\ Goto(k, IF up[k] THEN "loop" ELSE "returned")
  /\ UNCHANGED <<publisher, broker, faults, up, qos, inbox, job, ranOk, ranErr>>

\* Qos, then the subscription; both fail when the channel is gone.
Consume(k) ==
  /\ stage[k] = "open"
  /\ \/ /\ up[k]
        /\ qos' = [qos EXCEPT ![k] = Prefetch]
        /\ Goto(k, "loop")
     \/ /\ ~up[k]
        /\ Goto(k, "returned")
        /\ UNCHANGED qos
  /\ UNCHANGED <<publisher, broker, faults, up, inbox, job, ranOk, ranErr>>

\* The loop takes a delivery and the handler runs.  What the client has in hand
\* when its channel goes may still be handled, or be dropped.
Handle(k) ==
  /\ stage[k] = "loop" /\ inbox[k] # <<>>
  /\ job' = [job EXCEPT ![k] = Head(inbox[k])]
  /\ inbox' = [inbox EXCEPT ![k] = Tail(@)]
  /\ \/ /\ ranOk' = ranOk \cup {Head(inbox[k])}
        /\ Goto(k, "ack")
        /\ UNCHANGED ranErr
     \/ /\ ranErr' = ranErr \cup {Head(inbox[k])}
        /\ Goto(k, "nack")
        /\ UNCHANGED ranOk
  /\ UNCHANGED <<publisher, broker, faults, up, qos>>

\* Fault: what the handler refuses is put back into the queue.
SettleRequeue(k) ==
  /\ stage[k] \in {"ack", "nack"}
  /\ IF up[k]
     THEN /\ unacked' = [unacked EXCEPT ![k] = @ \ {job[k]}]
          /\ acked' = IF stage[k] = "ack" THEN acked \cup {job[k]} ELSE acked
          /\ ready' = IF stage[k] = "nack" THEN ready \cup {job[k]} ELSE ready
     ELSE UNCHANGED <<unacked, acked, ready>>
  /\ job' = [job EXCEPT ![k] = None]
  /\ Goto(k, "loop")
  /\ UNCHANGED <<publisher, shut, wire, dead, lost, faults>>
  /\ UNCHANGED <<up, qos, inbox, ranOk, ranErr>>

\* Ack, or Nack without requeue.  On a channel that is gone they fail, which is
\* logged, and the loop goes on.
Settle(k) ==
  /\ stage[k] \in {"ack", "nack"}
  /\ IF up[k]
     THEN /\ unacked' = [unacked EXCEPT ![k] = @ \ {job[k]}]
          /\ acked' = IF stage[k] = "ack" THEN acked \cup {job[k]} ELSE acked
          /\ dead' = IF stage[k] = "nack" THEN dead \cup {job[k]} ELSE dead
     ELSE UNCHANGED <<unacked, acked, dead>>
  /\ job' = [job EXCEPT ![k] = None]
  /\ Goto(k, "loop")
  /\ UNCHANGED <<publisher, shut, wire, ready, lost, faults>>
  /\ UNCHANGED <<up, qos, inbox, ranOk, ranErr>>

\* The context ends: Consume returns, with deliveries in hand.
Cancelled(k) ==
  /\ Fault
  /\ stage[k] = "loop"
  /\ Goto(k, "returned")
  /\ UNCHANGED <<publisher, broker, up, qos, inbox, job, ranOk, ranErr>>

\* The deliveries end with the channel: Consume returns an error.
ChannelGone(k) ==
  /\ stage[k] = "loop" /\ ~up[k]
  /\ Goto(k, "returned")
  /\ UNCHANGED <<publisher, broker, faults, up, qos, inbox, job, ranOk, ranErr>>

\* What is left of a consumer that is closed, or whose process has died.
Discard(k) == /\ Requeue(k)
              /\ up' = [up EXCEPT ![k] = FALSE]
              /\ qos' = [qos EXCEPT ![k] = None]
              /\ inbox' = [inbox EXCEPT ![k] = <<>>]
              /\ job' = [job EXCEPT ![k] = None]
              /\ Goto(k, "new")

CloseConsumer(k) ==
  /\ stage[k] = "returned"
  /\ Discard(k)
  /\ UNCHANGED <<publisher, shut, wire, acked, dead, lost, faults, ranOk, ranErr>>

\* The process dies, between a handler and its Ack for instance, and is restarted.
Crash(k) ==
  /\ Fault
  /\ stage[k] # "new"
  /\ Discard(k)
  /\ UNCHANGED <<publisher, shut, wire, acked, dead, lost, ranOk, ranErr>>

(***************************************************************************)
(* The specification.                                                      *)
(***************************************************************************)
Calling(m)  == Send(m) \/ Reconnect(m)
Consuming(k) == \/ NewConsumer(k) \/ Consume(k) \/ Handle(k) \/ Settle(k)
                \/ ChannelGone(k) \/ CloseConsumer(k)

Next == \/ \E m \in Msgs : Publish(m) \/ TakeMutex(m) \/ Calling(m)
        \/ ClosePublisher
        \/ \E c \in Conns : BrokerReads(c) \/ ChannelCloses(c) \/ ConnectionFails(c)
        \/ \E k \in Consumers : \/ \E m \in Msgs : Deliver(k, m)
                                \/ Consuming(k)
                                \/ ConsumerCut(k) \/ Cancelled(k) \/ Crash(k)

\* A goroutine that can go on does, and sync.Mutex lets nobody wait for ever; the
\* broker reads and delivers; who owns a Consumer closes it when Consume returns,
\* and opens another.  Nothing has to fail.
Fairness ==
  /\ \A m \in Msgs : SF_vars(TakeMutex(m)) /\ WF_vars(Calling(m))
  /\ \A c \in Conns : WF_vars(BrokerReads(c)) /\ WF_vars(ChannelCloses(c))
  /\ WF_vars(\E k \in Consumers, m \in Msgs : Deliver(k, m))
  /\ \A k \in Consumers : WF_vars(Consuming(k))

Spec == Init /\ [][Next]_vars /\ Fairness

(***************************************************************************)
(* Properties.                                                             *)
(***************************************************************************)
Answered(r) == {m \in Msgs : call[m] = r}
OnTheWay == UNION {ToSet(wire[c]) : c \in Conns}

\* A verdict stands as long as the channel that its acknowledgement goes over.
Verdict == [k \in Consumers |-> IF up[k] /\ stage[k] \in {"ack", "nack"}
                                THEN {[msg |-> job[k], ok |-> stage[k] = "ack"]} ELSE {}]

Queue == INSTANCE Delivery WITH
  accepted <- Answered("ok"), refused <- Answered("err"),
  flight <- OnTheWay, queue <- ready, lease <- unacked, verdict <- Verdict

\* The publisher and the consumers are those of Delivery, with the broker between them:
\* an acknowledgement is for a message of the consumer's own, judged since it was last
\* delivered to it, and no consumer has more than its prefetch (publisher.go 63-76,
\* consumer.go 42-71).
ImplementsDelivery == Queue!Spec

\* The places a message can be at, each time it is there.
Places(m) ==
  (UNION {{<<"wire", c, i>> : i \in {j \in DOMAIN wire[c] : wire[c][j] = m}} : c \in Conns})
    \cup {<<"unacked", k>> : k \in {x \in Consumers : m \in unacked[x]}}
    \cup (IF m \in ready THEN {<<"ready">>} ELSE {})
    \cup (IF m \in acked THEN {<<"acked">>} ELSE {})
    \cup (IF m \in dead  THEN {<<"dead">>}  ELSE {})
    \cup (IF m \in lost  THEN {<<"lost">>}  ELSE {})

\* What Publish returns is true after any number of reconnects: nil means that the
\* message was written exactly once, an error that it was not written at all; and
\* redeliveries neither lose nor multiply it (publisher.go 66-76).
ResultIsTrue ==
  \A m \in Msgs : Cardinality(Places(m)) = IF call[m] = "ok" THEN 1 ELSE 0

\* An error takes as many failures of the broker or the network during the call as
\* there are retries: a channel that was broken when the call began costs one
\* reconnect and no message (publisher.go 66-76).
RetriesHelp == \A m \in Msgs : call[m] = "err" => trouble[m] >= MaxRetries

\* A message leaves the queue for good only after a handler has run on it, with the
\* result that its acknowledgement says, whatever crash or cut connection came
\* between the two (consumer.go 58-67).
AckIsEarned == acked \subseteq ranOk /\ dead \subseteq ranErr

\* connect leaves the connection it replaces as it is, and still the process has no more
\* connections than one and those whose channel the broker has closed for a message of
\* its own: neither a failure of the network, nor a failed dial, nor Close and another
\* Publish leaves one behind (publisher.go 32-47, 66-93).
OnlyExceptionsLeak ==
  Cardinality(open) <= 1 + Cardinality({m \in Misrouted : call[m] = "ok"})

\* Publish returns, however many goroutines wait for the mutex and whatever the
\* broker does meanwhile (publisher.go 63-76).
PublishReturns == \A m \in Msgs : call[m] = "waiting" ~> call[m] \in {"ok", "err"}

\* What Publish has returned nil for and the network has not lost is settled in the
\* end: a message that its handler always refuses does not come back for ever
\* (consumer.go 58-67).
EndToEnd == \A m \in Msgs : call[m] = "ok" ~> m \in acked \cup dead \cup lost
=============================================================================
