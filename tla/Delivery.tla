------------------------------ MODULE Delivery ------------------------------
(***************************************************************************)
(* What the publisher and the consumers of rabbitmq/ promise about a       *)
(* queue.  A call of Publish is answered once, and nil puts its message on *)
(* the way.  A message is lost on the way or never.  In the queue it is    *)
(* leased to one consumer at a time, of which none has more than its       *)
(* prefetch, and it leaves for good when the handler of the consumer that  *)
(* has the lease has judged it under that lease: a judgement is void with  *)
(* the lease it was made under.                                            *)
(*                                                                         *)
(* Messaging.tla implements this module.                                   *)
(***************************************************************************)
EXTENDS Naturals, FiniteSets

CONSTANTS Msgs, Consumers, Prefetch

VARIABLES accepted, refused,         \* the answers of Publish
          flight, queue, lease,      \* where a message is; lease: by consumer
          acked, dead, lost,         \* where it ends
          verdict                    \* the judgement that each consumer has yet to send

vars == <<accepted, refused, flight, queue, lease, acked, dead, lost, verdict>>

Init == /\ accepted = {} /\ refused = {}
        /\ flight = {} /\ queue = {} /\ lease = [k \in Consumers |-> {}]
        /\ acked = {} /\ dead = {} /\ lost = {}
        /\ verdict = [k \in Consumers |-> {}]

Accept(m) == /\ m \notin accepted \cup refused
             /\ accepted' = accepted \cup {m} /\ flight' = flight \cup {m}
             /\ UNCHANGED <<refused, queue, lease, acked, dead, lost, verdict>>

Refuse(m) == /\ m \notin accepted \cup refused
             /\ refused' = refused \cup {m}
             /\ UNCHANGED <<accepted, flight, queue, lease, acked, dead, lost, verdict>>

Arrive(m) == /\ m \in flight
             /\ flight' = flight \ {m} /\ queue' = queue \cup {m}
             /\ UNCHANGED <<accepted, refused, lease, acked, dead, lost, verdict>>

Lose(gone) == /\ gone \subseteq flight
              /\ flight' = flight \ gone /\ lost' = lost \cup gone
              /\ UNCHANGED <<accepted, refused, queue, lease, acked, dead, verdict>>

Grant(k, m) == /\ m \in queue /\ Cardinality(lease[k]) < Prefetch
               /\ queue' = queue \ {m} /\ lease' = [lease EXCEPT ![k] = @ \cup {m}]
               /\ UNCHANGED <<accepted, refused, flight, acked, dead, lost, verdict>>

Judge(k, m, ok) == /\ m \in lease[k] /\ verdict[k] = {}
                   /\ verdict' = [verdict EXCEPT ![k] = {[msg |-> m, ok |-> ok]}]
                   /\ UNCHANGED <<accepted, refused, flight, queue, lease, acked, dead, lost>>

Finish(k, m, ok) ==
  /\ m \in lease[k] /\ verdict[k] = {[msg |-> m, ok |-> ok]}
  /\ lease' = [lease EXCEPT ![k] = @ \ {m}] /\ verdict' = [verdict EXCEPT ![k] = {}]
  /\ acked' = IF ok THEN acked \cup {m} ELSE acked
  /\ dead'  = IF ok THEN dead ELSE dead \cup {m}
  /\ UNCHANGED <<accepted, refused, flight, queue, lost>>

GiveBack(k) == /\ queue' = queue \cup lease[k]
               /\ lease' = [lease EXCEPT ![k] = {}] /\ verdict' = [verdict EXCEPT ![k] = {}]
               /\ UNCHANGED <<accepted, refused, flight, acked, dead, lost>>

Next == \/ \E m \in Msgs : Accept(m) \/ Refuse(m) \/ Arrive(m)
        \/ \E gone \in SUBSET Msgs : Lose(gone)
        \/ \E k \in Consumers :
             \/ \E m \in Msgs : \/ Grant(k, m)
                                \/ \E ok \in BOOLEAN : Judge(k, m, ok) \/ Finish(k, m, ok)
             \/ GiveBack(k)

Spec == Init /\ [][Next]_vars
=============================================================================
