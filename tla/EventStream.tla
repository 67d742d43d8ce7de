---------------------------- MODULE EventStream ----------------------------
(***************************************************************************)
(* What the services expect of the event transport (shared/kafkautil):    *)
(* the events that one entity's transactions published are seen by a      *)
(* consumer in the order of publication, none skipped, none seen again    *)
(* after a newer one of the same entity.  The newest event seen may be    *)
(* seen repeatedly (at-least-once delivery).                              *)
(*                                                                         *)
(* A segment is a (topic, message key) pair; the key is the id of the     *)
(* entity an event is about.  Outbox implements this specification up to  *)
(* the Kafka log, Inbox from its table up to the consumer's handler.      *)
(***************************************************************************)
EXTENDS Naturals, Sequences, FiniteSets

CONSTANTS Segments, Topics, TopicOf

VARIABLES published,  \* [Segments -> SUBSET Nat]: ids of the events of committed transactions
          stream      \* [Topics -> Seq(Nat)]: ids of the events seen by the consumer, in order

streamVars == <<published, stream>>

Seen(t) == { stream[t][n] : n \in 1..Len(stream[t]) }

\* The events of s that may come next: every older one was seen, no newer one was.
Next1(s) ==
    { e \in published[s] :
        \A f \in published[s] : /\ f < e => f \in Seen(TopicOf[s])
                                /\ f > e => f \notin Seen(TopicOf[s]) }

StreamInit == /\ published = [s \in Segments |-> {}]
              /\ stream = [t \in Topics |-> << >>]

\* A transaction commits events, newer than all published before in their segments.
Publish ==
    /\ \A s \in Segments :
          /\ published[s] \subseteq published'[s]
          /\ \A e \in published[s], f \in published'[s] \ published[s] : e < f
    /\ UNCHANGED stream

Deliver(s) ==
    /\ \E e \in Next1(s) : stream' = [stream EXCEPT ![TopicOf[s]] = Append(@, e)]
    /\ UNCHANGED published

StreamNext == Publish \/ \E s \in Segments : Deliver(s)

StreamSpec == StreamInit /\ [][StreamNext]_streamVars

\* Every published event is eventually seen.
EverythingDelivered(Ids) ==
    \A e \in Ids, s \in Segments : (e \in published[s]) ~> (e \in Seen(TopicOf[s]))
=============================================================================
