----------------------------- MODULE EventQueue -----------------------------
(***************************************************************************)
(* The RabbitMQ queue one worker of the host consumes, and the channel it   *)
(* consumes it through.  Both are external to the repository: they are      *)
(* modelled from how the workers use them (manual acknowledgement with      *)
(* BasicConsume(autoAck: false), no BasicQos, automatic recovery enabled)    *)
(* and from what AMQP 0-9-1 prescribes for these calls.                      *)
(*                                                                         *)
(* A delivery is a record [tag, msg].  A process never sees a tag twice:     *)
(* those of a recovered channel are numbered on from the last one, as the    *)
(* client library itself does across a recovery, and the tags up to `offset' *)
(* belong to a channel that is gone.  A new process starts at 1 again.       *)
(***************************************************************************)
EXTENDS LogEvents

CONSTANTS
    MaxDeliveries    \* bound: deliveries (and redeliveries) of one process

ASSUME MaxDeliveriesAssumption == MaxDeliveries \in Nat

VARIABLES
    ready,           \* messages waiting in the queue
    unacked,         \* deliveries the broker waits to see acknowledged
    settled,         \* messages acknowledged, hence gone from the queue
    nextTag,         \* delivery tag of the next delivery
    offset,          \* tags up to this one belong to a lost channel
    channel          \* state of the worker's channel

queueVars == <<ready, unacked, settled, nextTag, offset, channel>>

\* "lost": the connection broke, the client will recover it;  "refused": the
\* broker closed the channel on a protocol error, which is not recovered;
\* "stopped": the worker closed its connection, or is not running.
ChannelStates == {"open", "lost", "refused", "stopped"}

Deliveries == [tag : Nat \ {0}, msg : Messages]

QueueTypeOK ==
    /\ ready \subseteq Messages
    /\ unacked \subseteq Deliveries
    /\ settled \subseteq Messages
    /\ nextTag \in Nat \ {0}
    /\ offset \in Nat
    /\ channel \in ChannelStates

QueueInit ==
    /\ ready = Messages
    /\ unacked = {}
    /\ settled = {}
    /\ nextTag = 1
    /\ offset = 0
    /\ channel = "open"

MessagesOf(deliveries) == {d.msg : d \in deliveries}

-----------------------------------------------------------------------------
\* The broker hands message m to the consumer, with the next tag.
Deliver(m) ==
    /\ channel = "open"
    /\ m \in ready
    /\ nextTag <= MaxDeliveries
    /\ ready' = ready \ {m}
    /\ unacked' = unacked \cup {[tag |-> nextTag, msg |-> m]}
    /\ nextTag' = nextTag + 1
    /\ UNCHANGED <<settled, offset, channel>>

\* The deliveries an acknowledgement of `tag' names.
Covered(tag, multiple) ==
    {d \in unacked : d.tag = tag \/ (multiple /\ d.tag <= tag)}

\* Every unacknowledged message goes back to the queue when the channel goes.
Requeue ==
    /\ ready' = ready \cup MessagesOf(unacked)
    /\ unacked' = {}
    /\ UNCHANGED <<settled, nextTag>>

CloseChannel(state) ==
    /\ channel' = state
    /\ Requeue

\* BasicAck on an open channel: the client drops the tag of a channel that
\* is gone, the broker closes the channel on a tag it does not know.
BasicAck(tag, multiple) ==
    /\ channel = "open"
    /\ \/ /\ tag <= offset
          /\ UNCHANGED queueVars
       \/ /\ tag > offset
          /\ \A d \in unacked : d.tag # tag
          /\ CloseChannel("refused")
          /\ UNCHANGED offset
       \/ /\ tag > offset
          /\ \E d \in unacked : d.tag = tag
          /\ settled' = settled \cup MessagesOf(Covered(tag, multiple))
          /\ unacked' = unacked \ Covered(tag, multiple)
          /\ UNCHANGED <<ready, nextTag, offset, channel>>

\* The connection breaks: in-flight tags of the old channel become void.
LoseConnection ==
    /\ channel = "open"
    /\ CloseChannel("lost")
    /\ offset' = nextTag - 1

\* Automatic recovery opens a channel again.
OpenChannel ==
    /\ channel' = "open"
    /\ offset' = nextTag - 1
    /\ UNCHANGED <<ready, unacked, settled, nextTag>>

\* A new process opens a channel.
StartChannel ==
    /\ channel' = "open"
    /\ nextTag' = 1
    /\ offset' = 0
    /\ UNCHANGED <<ready, unacked, settled>>
=============================================================================
