------------------------- MODULE AuditServiceProofs -------------------------
(***************************************************************************)
(* Safety of the audit worker for any set of messages, any number of         *)
(* handlers and any number of faults: its inductive invariant, and that it   *)
(* implements SinkContract.                                                  *)
(***************************************************************************)
EXTENDS AuditService, LogEventsProofs

\* A delivery has a tag of its own, which the current channel handed out;
\* a channel that is not open has none.
TagsInv ==
    /\ channel # "open" => unacked = {}
    /\ \A d \in unacked : offset < d.tag /\ d.tag < nextTag
    /\ \A d, e \in unacked : d.tag = e.tag => d = e
    /\ offset < nextTag

\* A handler is about to acknowledge only what it has written.
WrittenInv == \A h \in Handlers : pc[h] = "ack" => delivery[h].msg \in Stored

\* A handler whose delivery belongs to the current channel is alone, and the
\* broker still waits for its acknowledgement.
LiveInv ==
    /\ \A h \in Handlers :
         pc[h] # "idle" =>
           /\ delivery[h].tag < nextTag
           /\ delivery[h].tag > offset /\ channel = "open" => delivery[h] \in unacked
    /\ \A g, h \in Handlers :
         /\ pc[g] # "idle" /\ delivery[g].tag > offset
         /\ pc[h] # "idle" /\ delivery[h].tag > offset
         => g = h

\* A host that is not running has no channel and no handler at work.
UpInv == ~up => channel # "open" /\ \A h \in Handlers : pc[h] = "idle"

IInv ==
    /\ TypeOK /\ UpInv
    /\ TagsInv /\ WrittenInv /\ LiveInv
    /\ AckedIsStored /\ NeverRefused

-----------------------------------------------------------------------------
\* The initial state satisfies the invariant.
LEMMA InitIInv == Init => IInv
<1> SUFFICES ASSUME Init PROVE IInv
  OBVIOUS
<1> USE DEF Init, QueueInit, SinkInit
<1>1. TypeOK
  BY LogEventsAssumption DEF TypeOK, QueueTypeOK, SinkTypeOK, ChannelStates
<1>2. TagsInv /\ WrittenInv /\ LiveInv
  BY DEF TagsInv, WrittenInv, LiveInv
<1>3. AckedIsStored /\ NeverRefused /\ UpInv
  BY DEF UpInv, AckedIsStored, NeverRefused
<1> QED
  BY <1>1, <1>2, <1>3 DEF IInv

\* A new delivery gets a tag above all others; its handler is the only live one.
LEMMA ReceiveIInv ==
  ASSUME IInv, NEW h \in Handlers, Receive(h)
  PROVE  IInv'
<1> USE DEF IInv
<1> PICK m \in Messages :
      /\ Deliver(m)
      /\ IF m \in Undecodable
           THEN UNCHANGED <<pc, delivery>>
           ELSE /\ delivery' = [delivery EXCEPT ![h] = [tag |-> nextTag, msg |-> m]]
                /\ pc' = [pc EXCEPT ![h] = "write"]
  BY DEF Receive
<1> DEFINE new == [tag |-> nextTag, msg |-> m]
<1>1. /\ UNCHANGED <<rows, faults, up, settled, offset, channel>>
      /\ channel = "open"
      /\ ready' = ready \ {m}
      /\ unacked' = unacked \cup {new}
      /\ nextTag' = nextTag + 1
      /\ pc[h] = "idle"
      /\ \A g \in Handlers : Idle(g) \/ delivery[g].tag <= offset
  BY DEF Receive, Deliver, sinkVars, Idle
<1>2. new \in Deliveries /\ new.tag = nextTag /\ new.msg = m
  BY DEF TypeOK, QueueTypeOK, Deliveries
<1> HIDE DEF new
<1>3. TypeOK'
  <2>1. QueueTypeOK' /\ SinkTypeOK' /\ up' \in BOOLEAN
    BY <1>1, <1>2 DEF TypeOK, QueueTypeOK, SinkTypeOK
  <2>2. CASE m \in Undecodable
    BY <2>1, <2>2 DEF TypeOK
  <2>3. CASE m \notin Undecodable
    BY <2>1, <2>3, <1>2 DEF TypeOK, new
  <2> QED
    BY <2>2, <2>3
<1>4. TagsInv'
  BY <1>1, <1>2 DEF TagsInv, TypeOK, QueueTypeOK, Deliveries
<1>5. WrittenInv'
  BY <1>1 DEF WrittenInv, TypeOK, Stored
<1>6. LiveInv'
  <2>1. \A g \in Handlers : pc'[g] # "idle" /\ g # h => 
           /\ pc[g] # "idle" /\ delivery'[g] = delivery[g]
           /\ delivery[g].tag <= offset /\ delivery[g].tag < nextTag
           /\ delivery[g] \in Deliveries
    BY <1>1 DEF TypeOK, Idle, LiveInv
  <2>2. pc'[h] # "idle" => delivery'[h] = new
    BY <1>1 DEF TypeOK, new
  <2>3. nextTag \in Nat /\ offset \in Nat
    BY DEF TypeOK, QueueTypeOK
  <2> QED
    BY <2>1, <2>2, <2>3, <1>1, <1>2 DEF LiveInv, Deliveries
<1>7. AckedIsStored' /\ NeverRefused' /\ UpInv'
  BY <1>1 DEF UpInv, AckedIsStored, NeverRefused, Stored
<1> QED
  BY <1>3, <1>4, <1>5, <1>6, <1>7

\* A write leaves the queue alone; only after it does the handler go on to
\* acknowledge.
LEMMA WriteIInv ==
  ASSUME IInv, NEW h \in Handlers, WriteEvent(h)
  PROVE  IInv'
<1> USE DEF IInv
<1> DEFINE m == delivery[h].msg
<1>1. m \in Messages /\ delivery[h] \in Deliveries
  BY DEF WriteEvent, TypeOK, Deliveries
<1>2. UNCHANGED <<ready, unacked, settled, nextTag, offset, channel, up>>
  BY DEF WriteEvent, queueVars
<1>3. /\ rows' \in [Messages -> 0 .. MaxRows]
      /\ \A n \in Messages : rows'[n] >= rows[n]
      /\ pc'[h] = "ack" => rows'[m] > 0
  <2>1. rows \in [Messages -> 0 .. MaxRows]
    BY DEF TypeOK, SinkTypeOK
  <2>2. CASE InsertRows(<<m>>)
    BY <1>1, <2>1, <2>2, InsertOneEffect
  <2>3. CASE UNCHANGED rows /\ Finish(h)
    BY <2>1, <2>3 DEF Finish, TypeOK
  <2> QED
    BY <2>2, <2>3 DEF WriteEvent, InsertCommits, InsertThrows, sinkVars
<1>4. /\ faults' \in 0 .. MaxFaults
      /\ pc' \in [Handlers -> {"idle", "write", "ack"}]
      /\ \A g \in Handlers : g # h => pc'[g] = pc[g] /\ delivery'[g] = delivery[g]
      /\ \/ pc'[h] = "ack" /\ delivery' = delivery
         \/ pc'[h] = "idle" /\ delivery'[h] = NoDelivery
      /\ delivery' \in [Handlers -> Deliveries \cup {NoDelivery}]
  BY LogEventsAssumption DEF WriteEvent, Finish, InsertCommits, InsertThrows, Fault,
                              TypeOK, SinkTypeOK, sinkVars
<1>5. TypeOK'
  BY <1>1, <1>2, <1>3, <1>4 DEF TypeOK, QueueTypeOK, SinkTypeOK
<1>6. Stored \subseteq Stored'
  BY <1>3 DEF Stored, TypeOK, SinkTypeOK
<1>7. WrittenInv'
  BY <1>1, <1>3, <1>4, <1>6 DEF WrittenInv, Stored
<1>8. pc[h] # "idle"
  BY DEF WriteEvent
<1>9. LiveInv'
  BY <1>2, <1>4, <1>8 DEF LiveInv
<1>10. TagsInv' /\ AckedIsStored' /\ NeverRefused'
  BY <1>2, <1>6 DEF TagsInv, AckedIsStored, NeverRefused
<1>11. UpInv'
  BY <1>2, <1>8 DEF UpInv
<1> QED
  BY <1>5, <1>7, <1>9, <1>10, <1>11

\* An acknowledgement settles the handler's own message, or nothing at all.
LEMMA AcknowledgeIInv ==
  ASSUME IInv, NEW h \in Handlers, Acknowledge(h)
  PROVE  IInv'
<1> USE DEF IInv
<1> DEFINE d == delivery[h]
<1>1. /\ UNCHANGED <<rows, faults, up>>
      /\ pc[h] = "ack"
      /\ pc' = [pc EXCEPT ![h] = "idle"]
      /\ delivery' = [delivery EXCEPT ![h] = NoDelivery]
  BY DEF Acknowledge, Finish, sinkVars
<1>2. d \in Deliveries /\ d.msg \in Stored /\ d.tag \in Nat /\ offset \in Nat
  BY <1>1 DEF TypeOK, WrittenInv, Deliveries, QueueTypeOK
<1>3. \/ UNCHANGED queueVars
      \/ /\ settled' = settled \cup {d.msg}
         /\ unacked' = unacked \ {d}
         /\ d.tag > offset
         /\ d \in unacked
         /\ UNCHANGED <<ready, nextTag, offset, channel>>
  <2>1. CASE channel # "open" \/ d.tag <= offset
    <3>1. CASE channel # "open"
      BY <3>1 DEF Acknowledge, BasicAck
    <3>2. CASE channel = "open" /\ d.tag <= offset
      <4>1. BasicAck(d.tag, FALSE)
        BY <3>2 DEF Acknowledge
      <4>2. ~(d.tag > offset)
        BY <3>2, <1>2
      <4> QED
        BY <4>1, <4>2 DEF BasicAck
    <3> QED
      BY <2>1, <3>1, <3>2
  <2>2. CASE channel = "open" /\ d.tag > offset
    <3>1. d \in unacked
      BY <2>2, <1>1 DEF LiveInv
    <3>2. Covered(d.tag, FALSE) = {d}
      BY <3>1 DEF Covered, TagsInv
    <3>3. MessagesOf({d}) = {d.msg}
      BY DEF MessagesOf
    <3>4. /\ settled' = settled \cup MessagesOf(Covered(d.tag, FALSE))
          /\ unacked' = unacked \ Covered(d.tag, FALSE)
          /\ UNCHANGED <<ready, nextTag, offset, channel>>
      <4>1. BasicAck(d.tag, FALSE)
        BY <2>2 DEF Acknowledge
      <4>2. ~(d.tag <= offset)
        BY <2>2, <1>2
      <4>3. \E e \in unacked : e.tag = d.tag
        BY <3>1
      <4> QED
        BY <4>1, <4>2, <4>3 DEF BasicAck
    <3> QED
      BY <2>2, <3>1, <3>2, <3>3, <3>4
  <2> QED
    BY <2>1, <2>2, <1>2
<1>4. TypeOK'
  BY <1>1, <1>2, <1>3 DEF TypeOK, QueueTypeOK, SinkTypeOK, queueVars, Deliveries
<1>5. TagsInv' /\ WrittenInv' /\ NeverRefused' /\ AckedIsStored' /\ UpInv'
  BY <1>1, <1>2, <1>3 DEF UpInv, TagsInv, WrittenInv, NeverRefused, AckedIsStored, Stored,
                          queueVars, TypeOK
<1>6. LiveInv'
  <2>1. \A g \in Handlers : pc'[g] # "idle" =>
           g # h /\ pc[g] # "idle" /\ delivery'[g] = delivery[g]
    BY <1>1 DEF TypeOK
  <2>2. CASE UNCHANGED queueVars
    BY <2>1, <2>2 DEF LiveInv, queueVars
  <2>3. CASE ~UNCHANGED queueVars
    <3>1. \A g \in Handlers : pc'[g] # "idle" => ~(delivery[g].tag > offset)
      BY <2>1, <2>3, <1>1, <1>3 DEF LiveInv
    <3> QED
      BY <3>1, <2>1, <2>3, <1>3 DEF LiveInv
  <2> QED
    BY <2>2, <2>3
<1> QED
  BY <1>4, <1>5, <1>6

\* Closing the channel, for whatever reason, puts its deliveries back.
LEMMA CloseChannelIInv ==
  ASSUME IInv, NEW state \in {"lost", "stopped"}, CloseChannel(state),
         offset' \in {offset, nextTag - 1}, UNCHANGED <<rows, up>>,
         faults' \in 0 .. MaxFaults,
         \/ UNCHANGED <<pc, delivery>>
         \/ /\ pc' = [h \in Handlers |-> "idle"]
            /\ delivery' = [h \in Handlers |-> NoDelivery]
  PROVE  IInv'
<1> USE DEF IInv
<1>1. /\ channel' = state
      /\ ready' = ready \cup MessagesOf(unacked)
      /\ unacked' = {}
      /\ UNCHANGED <<settled, nextTag>>
  BY DEF CloseChannel, Requeue
<1>2. MessagesOf(unacked) \subseteq Messages
  BY DEF MessagesOf, TypeOK, QueueTypeOK, Deliveries
<1>3. offset' \in Nat /\ offset <= offset' /\ offset' < nextTag
  BY DEF TypeOK, QueueTypeOK, TagsInv
<1>4. TypeOK'
  BY <1>1, <1>2, <1>3 DEF TypeOK, QueueTypeOK, SinkTypeOK, ChannelStates
<1>5. TagsInv' /\ NeverRefused' /\ AckedIsStored' /\ UpInv'
  BY <1>1, <1>3 DEF UpInv, TagsInv, NeverRefused, AckedIsStored, Stored
<1>6. WrittenInv'
  BY DEF WrittenInv, Stored
<1>7. \A h \in Handlers : pc'[h] # "idle" =>
         pc[h] # "idle" /\ delivery'[h] = delivery[h] /\ delivery[h].tag \in Nat
  BY DEF TypeOK, Deliveries
<1>8. LiveInv'
  BY <1>1, <1>3, <1>7 DEF LiveInv, TypeOK, QueueTypeOK
<1> QED
  BY <1>4, <1>5, <1>6, <1>8

\* The channel that is opened next voids every tag handed out before.
LEMMA OpenChannelIInv ==
  ASSUME IInv, channel # "open", OpenChannel, up' = TRUE,
         UNCHANGED <<rows, faults, pc, delivery>>
  PROVE  IInv'
<1> USE DEF IInv
<1>1. /\ channel' = "open"
      /\ offset' = nextTag - 1
      /\ UNCHANGED <<ready, unacked, settled, nextTag>>
  BY DEF OpenChannel
<1>2. offset' \in Nat /\ offset' < nextTag /\ unacked = {}
  BY <1>1 DEF TypeOK, QueueTypeOK, TagsInv
<1>3. TypeOK'
  BY <1>1, <1>2 DEF TypeOK, QueueTypeOK, SinkTypeOK, ChannelStates
<1>4. TagsInv' /\ WrittenInv' /\ NeverRefused' /\ AckedIsStored' /\ UpInv'
  BY <1>1, <1>2 DEF UpInv, TagsInv, WrittenInv, NeverRefused, AckedIsStored, Stored
<1>5. \A h \in Handlers : pc[h] # "idle" => ~(delivery[h].tag > offset')
  BY <1>1 DEF LiveInv, TypeOK, QueueTypeOK, Deliveries
<1>6. LiveInv'
  BY <1>1, <1>5 DEF LiveInv
<1> QED
  BY <1>3, <1>4, <1>6

\* The end of the process closes the channel and ends the handlers.
LEMMA ProcessEndsIInv ==
  ASSUME IInv, ProcessEnds, faults' \in 0 .. MaxFaults
  PROVE  IInv'
<1>1. /\ CloseChannel("stopped")
      /\ UNCHANGED <<offset, rows>>
      /\ up' = FALSE
      /\ pc' = [h \in Handlers |-> "idle"]
      /\ delivery' = [h \in Handlers |-> NoDelivery]
  BY DEF ProcessEnds
<1>2. /\ channel' = "stopped"
      /\ ready' = ready \cup MessagesOf(unacked)
      /\ unacked' = {}
      /\ UNCHANGED <<settled, nextTag>>
  BY <1>1 DEF CloseChannel, Requeue
<1>3. MessagesOf(unacked) \subseteq Messages
  BY DEF MessagesOf, IInv, TypeOK, QueueTypeOK, Deliveries
<1>4. TypeOK'
  BY <1>1, <1>2, <1>3 DEF IInv, TypeOK, QueueTypeOK, SinkTypeOK, ChannelStates
<1>5. TagsInv' /\ NeverRefused' /\ AckedIsStored' /\ UpInv' /\ WrittenInv' /\ LiveInv'
  BY <1>1, <1>2 DEF UpInv, IInv, TagsInv, NeverRefused, AckedIsStored, WrittenInv, LiveInv, Stored
<1> QED
  BY <1>4, <1>5 DEF IInv

\* A new process has no handler at work when its tags start anew.
LEMMA RestartIInv ==
  ASSUME IInv, Restart
  PROVE  IInv'
<1> USE DEF IInv
<1>1. /\ channel' = "open" /\ nextTag' = 1 /\ offset' = 0 /\ up' = TRUE
      /\ UNCHANGED <<ready, unacked, settled, rows, faults, pc, delivery>>
      /\ ~up
  BY DEF Restart, StartChannel, sinkVars
<1>2. unacked = {} /\ \A h \in Handlers : pc[h] = "idle"
  BY <1>1 DEF UpInv, TagsInv
<1>3. TypeOK'
  BY <1>1, <1>2 DEF TypeOK, QueueTypeOK, SinkTypeOK, ChannelStates
<1>4. TagsInv' /\ LiveInv'
  BY <1>1, <1>2 DEF TagsInv, LiveInv
<1>5. WrittenInv' /\ NeverRefused' /\ AckedIsStored' /\ UpInv'
  BY <1>1 DEF UpInv, WrittenInv, NeverRefused, AckedIsStored, Stored
<1> QED
  BY <1>3, <1>4, <1>5

\* Faults are counted up to their bound.
LEMMA FaultType ==
  ASSUME TypeOK, NEW kind, Fault(kind)
  PROVE  faults' \in 0 .. MaxFaults
  BY LogEventsAssumption DEF Fault, TypeOK, SinkTypeOK

\* Every step preserves the invariant.
LEMMA StepIInv == IInv /\ [Next]_vars => IInv'
<1> SUFFICES ASSUME IInv, [Next]_vars PROVE IInv'
  OBVIOUS
<1>1. ASSUME NEW h \in Handlers, Receive(h) PROVE IInv'
  BY <1>1, ReceiveIInv
<1>2. ASSUME NEW h \in Handlers, HandlerStep(h) PROVE IInv'
  BY <1>2, WriteIInv, AcknowledgeIInv DEF HandlerStep
<1>3. CASE Kill
  BY <1>3, FaultType, ProcessEndsIInv DEF Kill, IInv
<1>4. CASE StopAsync
  <2>1. faults' \in 0 .. MaxFaults
    BY <1>4, FaultType DEF StopAsync, IInv
  <2> QED
    BY <1>4, <2>1, CloseChannelIInv DEF StopAsync, serviceVars
<1>5. CASE Exit
  <2>1. faults' \in 0 .. MaxFaults
    BY <1>5 DEF Exit, IInv, TypeOK, SinkTypeOK
  <2> QED
    BY <1>5, <2>1, ProcessEndsIInv DEF Exit
<1>6. CASE Restart
  BY <1>6, RestartIInv
<1>7. CASE ConnectionLost
  <2>1. faults' \in 0 .. MaxFaults
    BY <1>7, FaultType DEF ConnectionLost, IInv
  <2> QED
    BY <1>7, <2>1, CloseChannelIInv DEF ConnectionLost, LoseConnection, serviceVars
<1>8. CASE ConnectionRecovered
  BY <1>8, OpenChannelIInv DEF ConnectionRecovered, sinkVars, serviceVars
<1>9. CASE UNCHANGED vars
  BY <1>9 DEF UpInv, vars, queueVars, sinkVars, serviceVars, IInv, TypeOK, QueueTypeOK, SinkTypeOK,
              TagsInv, WrittenInv, LiveInv, AckedIsStored, NeverRefused, Stored
<1> QED
  BY <1>1, <1>2, <1>3, <1>4, <1>5, <1>6, <1>7, <1>8, <1>9 DEF Next, Environment

-----------------------------------------------------------------------------
\* The invariant holds in every state.
THEOREM Invariance == Spec => []IInv
  BY InitIInv, StepIInv, PTL DEF Spec

\* Variables keep their types.
THEOREM TypeCorrect == Spec => []TypeOK
  BY Invariance, PTL DEF IInv

\* An audit event the broker has given up is in the table, whatever failed.
THEOREM NothingLost == Spec => []AckedIsStored
  BY Invariance, PTL DEF IInv

\* No acknowledgement of the audit worker makes the broker close its channel.
THEOREM AcksAccepted == Spec => []NeverRefused
  BY Invariance, PTL DEF IInv

-----------------------------------------------------------------------------
\* A step of the audit worker writes, settles what is written, or does
\* nothing the contract speaks of.
LEMMA StepKeepsContract ==
  ASSUME IInv, IInv', [Next]_vars
  PROVE  [Contract!Next]_(Contract!contractVars)
<1> USE DEF Contract!contractVars, Contract!Next
<1>1. ASSUME UNCHANGED <<rows, settled>> PROVE [Contract!Next]_(Contract!contractVars)
  BY <1>1 DEF Stored
<1>2. ASSUME NEW h \in Handlers, WriteEvent(h) PROVE [Contract!Next]_(Contract!contractVars)
  <2>1. settled' = settled
    BY <1>2 DEF WriteEvent, queueVars
  <2>2. delivery[h].msg \in Messages
    BY <1>2 DEF WriteEvent, IInv, TypeOK, Deliveries
  <2>3. rows \in [Messages -> 0 .. MaxRows] /\ rows' \in [Messages -> 0 .. MaxRows]
    BY DEF IInv, TypeOK, SinkTypeOK
  <2>4. \A m \in Messages : rows'[m] >= rows[m]
    BY <1>2, <2>2, <2>3, InsertOneEffect
       DEF WriteEvent, InsertCommits, InsertThrows, sinkVars
  <2>5. Stored \subseteq Stored' /\ Stored' \in SUBSET Messages
    BY <2>3, <2>4 DEF Stored
  <2> QED
    BY <2>1, <2>5 DEF Contract!Write
<1>3. ASSUME NEW h \in Handlers, Acknowledge(h) PROVE [Contract!Next]_(Contract!contractVars)
  <2>1. Stored' = Stored
    BY <1>3 DEF Acknowledge, sinkVars, Stored
  <2>2. settled \subseteq settled'
    BY <1>3 DEF Acknowledge, BasicAck, CloseChannel, Requeue, queueVars
  <2>3. settled' \in SUBSET Messages
    BY DEF IInv, TypeOK, QueueTypeOK
  <2>4. settled' \subseteq Stored
    BY <2>1 DEF IInv, AckedIsStored
  <2> QED
    BY <2>1, <2>2, <2>3, <2>4 DEF Contract!Settle
<1>4. ASSUME NEW h \in Handlers, Receive(h) PROVE UNCHANGED <<rows, settled>>
  BY <1>4 DEF Receive, Deliver, sinkVars
<1>5. ASSUME Environment PROVE UNCHANGED <<rows, settled>>
  BY <1>5 DEF Environment, Kill, StopAsync, Exit, Restart, ConnectionLost,
              ConnectionRecovered, ProcessEnds, LoseConnection, CloseChannel, Requeue,
              OpenChannel, StartChannel, sinkVars
<1>6. ASSUME UNCHANGED vars PROVE UNCHANGED <<rows, settled>>
  BY <1>6 DEF vars, queueVars, sinkVars
<1> QED
  BY <1>1, <1>2, <1>3, <1>4, <1>5, <1>6 DEF Next, HandlerStep

\* The audit worker implements the contract: it writes first and settles
\* afterwards, and settles only what it has written.
THEOREM Refinement == Spec => KeepsContract
<1>1. Init => Contract!Init
  BY DEF Init, QueueInit, SinkInit, Stored, Contract!Init
<1> QED
  BY <1>1, StepKeepsContract, Invariance, PTL DEF Spec, KeepsContract, Contract!Spec

=============================================================================
