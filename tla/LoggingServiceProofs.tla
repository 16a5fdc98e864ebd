------------------------ MODULE LoggingServiceProofs ------------------------
(***************************************************************************)
(* Safety of the logging worker for any set of messages, any numbers of      *)
(* handlers and timer callbacks, any limit and any number of faults.          *)
(* However flows overlap: types, EagerBeforeBatching and RememberedDelivery.  *)
(*                                                                         *)
(* When they do not overlap (the second half): a batch is written,            *)
(* acknowledged and cleared before another handler or callback starts, and    *)
(* the first event is written at once only where that write does not fail.    *)
(* Then AckedIsStored holds and the worker implements SinkContract, for       *)
(* either way of writing.                                                     *)
(*                                                                         *)
(* The next two parts also allow handlers of a lost channel next to those   *)
(* of the recovered one, if there is no timer callback: the worker then        *)
(* acknowledges only what the broker waits for, and when moreover the table    *)
(* takes every row, no batch exceeds the limit before the first fault.         *)
(*                                                                         *)
(* The last part is again about flows that do not overlap: what they write is  *)
(* awaited by the broker, so that no acknowledged event gets a further row.    *)
(***************************************************************************)
EXTENDS LoggingService, LogEventsProofs

\* A handler at work has a delivery; before its event is stored in the list
\* and counted, the delivery is remembered.
DeliveryInv ==
    \A h \in Handlers :
        /\ ~Idle(h) => delivery[h] \in Deliveries
        /\ pc[h] = "count" => lastTag # 0

\* While the eager option is set, the service has not begun to batch.
EagerInv ==
    eager =>
        /\ EagerlyEmitFirstEvent
        /\ logEvents = <<>>
        /\ ~timerStarted
        /\ \A h \in Handlers : pc[h] \in {"idle", "eagerWrite", "eagerAck"}
        /\ \A t \in Timers : Idle(t)

\* The timer is started by a handler that has remembered its delivery.
TimerInv ==
    /\ timerStarted => lastTag # 0
    /\ \A t \in Timers : ~Idle(t) => timerStarted

BatchInv == TypeOK /\ DeliveryInv /\ EagerInv /\ TimerInv

-----------------------------------------------------------------------------
(* Lemmas about the queue                                                    *)

\* Closing the channel keeps the queue's types.
LEMMA CloseChannelType ==
  ASSUME QueueTypeOK, NEW state \in ChannelStates, CloseChannel(state), offset' \in Nat
  PROVE  QueueTypeOK'
<1>1. MessagesOf(unacked) \subseteq Messages
  BY DEF MessagesOf, QueueTypeOK, Deliveries
<1> QED
  BY <1>1 DEF CloseChannel, Requeue, QueueTypeOK

\* An acknowledgement settles some messages of deliveries.
LEMMA BasicAckType ==
  ASSUME QueueTypeOK, NEW tag, NEW multiple, BasicAck(tag, multiple)
  PROVE  QueueTypeOK'
<1>1. CASE UNCHANGED queueVars
  BY <1>1 DEF QueueTypeOK, queueVars
<1>2. CASE CloseChannel("refused") /\ UNCHANGED offset
  BY <1>2, CloseChannelType DEF QueueTypeOK, ChannelStates
<1>3. CASE /\ settled' = settled \cup MessagesOf(Covered(tag, multiple))
           /\ unacked' = unacked \ Covered(tag, multiple)
           /\ UNCHANGED <<ready, nextTag, offset, channel>>
  <2>1. MessagesOf(Covered(tag, multiple)) \subseteq Messages
    BY DEF MessagesOf, Covered, QueueTypeOK, Deliveries
  <2> QED
    BY <1>3, <2>1 DEF QueueTypeOK
<1> QED
  BY <1>1, <1>2, <1>3 DEF BasicAck

\* Faults are counted up to their bound.
LEMMA FaultType ==
  ASSUME SinkTypeOK, NEW kind, Fault(kind)
  PROVE  faults' \in 0 .. MaxFaults
  BY LogEventsAssumption DEF Fault, SinkTypeOK

\* The INSERT of an event keeps the table's type and takes no row away.
LEMMA InsertEventType ==
  ASSUME SinkTypeOK, NEW m \in Messages, InsertCommits(m) \/ InsertThrows(m)
  PROVE  SinkTypeOK'
<1>1. CASE InsertRows(<<m>>)
  <2>1. faults' \in 0 .. MaxFaults
    BY FaultType DEF InsertCommits, InsertThrows, SinkTypeOK, sinkVars
  <2> QED
    BY <1>1, <2>1, InsertOneEffect DEF SinkTypeOK
<1>2. CASE UNCHANGED rows
  <2>1. faults' \in 0 .. MaxFaults
    BY FaultType DEF InsertCommits, InsertThrows, SinkTypeOK, sinkVars
  <2> QED
    BY <1>2, <2>1 DEF SinkTypeOK
<1> QED
  BY <1>1, <1>2 DEF InsertCommits, InsertThrows, sinkVars

-----------------------------------------------------------------------------
(* The flows of control                                                      *)

\* Handlers and timer callbacks are flows, and no flow is both.
LEMMA FlowKinds ==
  /\ \A h \in Handlers : h \in Flows /\ h \notin Timers
  /\ \A t \in Timers : t \in Flows /\ t \notin Handlers
  BY LoggingServiceAssumption

\* A flow that calls or runs WriteBatch meets the eager option cleared.
LEMMA WriterStepsNotEager ==
  ASSUME BatchInv, NEW f \in Flows,
         pc[f] \in WriterSteps \cup {"add", "store", "remember", "count", "clear"}
  PROVE  ~eager /\ ~Idle(f)
  BY LoggingServiceAssumption DEF BatchInv, EagerInv, WriterSteps, BulkSteps, Idle

\* A flow that goes on from one step after the first event to another leaves
\* the invariants of the others alone.
LEMMA GoOn ==
  ASSUME BatchInv, NEW f \in Flows,
         pc[f] \in WriterSteps \cup {"add", "store", "remember", "count", "clear"},
         NEW label \in HandlerSteps \ {"count"}, Goto(f, label),
         f \in Timers => label \in TimerSteps,
         eager' = eager, lastTag' = lastTag,
         timerStarted' = timerStarted,
         \A h \in Handlers :
            delivery'[h] = delivery[h] \/ (h = f /\ label = "idle")
  PROVE  StepsOK' /\ DeliveryInv' /\ EagerInv' /\ TimerInv'
<1>1. ~eager /\ ~Idle(f)
  BY WriterStepsNotEager
<1>2. /\ pc' \in [Flows -> HandlerSteps]
      /\ pc'[f] = label
      /\ \A g \in Flows : g # f => pc'[g] = pc[g]
  BY DEF Goto, BatchInv, TypeOK, StepsOK
<1>3. StepsOK'
  BY <1>2, FlowKinds DEF BatchInv, TypeOK, StepsOK
<1>4. DeliveryInv'
  BY <1>1, <1>2, FlowKinds DEF BatchInv, DeliveryInv, Idle
<1>5. EagerInv'
  BY <1>1 DEF EagerInv
<1>6. TimerInv'
  BY <1>1, <1>2, FlowKinds DEF BatchInv, TimerInv, Idle
<1> QED
  BY <1>3, <1>4, <1>5, <1>6

-----------------------------------------------------------------------------
(* WriteBatch                                                                *)

\* A flow inside WriteBatch goes to another of its steps, or stays.
LEMMA WriterMoves ==
  ASSUME StepsOK, NEW f \in Flows, WriteBatchStep(f)
  PROVE  /\ pc[f] \in WriterSteps
         /\ \E label \in WriterSteps : Goto(f, label)
<1> USE DEF WriterSteps, BulkSteps
<1>1. CASE FillEnter(f)
  BY <1>1 DEF FillEnter
<1>2. CASE FillTest(f)
  BY <1>2 DEF FillTest
<1>3. CASE FillRow(f)
  BY <1>3 DEF FillRow, LeaveBulk
<1>4. CASE BeginCopy(f)
  BY <1>4 DEF BeginCopy
<1>5. CASE CopyDone(f)
  BY <1>5 DEF CopyDone, LeaveBulk
<1>6. CASE BulkFails(f)
  BY <1>6 DEF BulkFails, LeaveBulk
<1>7. CASE InsertOpen(f)
  BY <1>7 DEF InsertOpen
<1>8. CASE InsertNext(f)
  <2>1. pc[f] = "insert"
    BY <1>8 DEF InsertNext
  <2>2. pc' = pc => Goto(f, "insert")
    BY <2>1 DEF Goto, StepsOK
  <2>3. pc' = pc \/ Goto(f, "written") \/ Goto(f, "failed")
    BY <1>8 DEF InsertNext
  <2> QED
    BY <2>1, <2>2, <2>3
<1> QED
  BY <1>1, <1>2, <1>3, <1>4, <1>5, <1>6, <1>7, <1>8 DEF WriteBatchStep

\* What WriteBatch may do to the table: nothing, or insert its rows.
LEMMA WriterRows ==
  ASSUME SinkTypeOK, WriterTypeOK, NEW f \in Flows, WriteBatchStep(f)
  PROVE  SinkTypeOK' /\ \A m \in Messages : rows'[m] >= rows[m]
<1>1. faults' \in 0 .. MaxFaults
  <2>1. faults' = faults \/ Fault("sql")
    BY DEF WriteBatchStep, FillEnter, FillTest, FillRow, BeginCopy, CopyDone,
           BulkFails, InsertOpen, InsertNext, sinkVars
  <2> QED
    BY <2>1, FaultType DEF SinkTypeOK
<1>2. CASE UNCHANGED rows
  BY <1>1, <1>2 DEF SinkTypeOK
<1>3. CASE InsertRows(copied[f])
  <2>1. copied[f] \in Seq(Messages)
    BY DEF WriterTypeOK
  <2> QED
    BY <1>1, <1>3, <2>1, InsertRowsEffect DEF SinkTypeOK
<1>4. CASE \E m \in Messages : InsertRows(<<m>>)
  BY <1>1, <1>4, InsertOneEffect DEF SinkTypeOK
<1>5. ASSUME Writable(index[f] + 1)
      PROVE  logEvents[index[f] + 1] \in Messages
  BY <1>5 DEF Writable, WriterTypeOK, ListElements
<1>6. InsertNext(f) => UNCHANGED rows \/ \E m \in Messages : InsertRows(<<m>>)
  BY <1>5 DEF InsertNext, sinkVars
<1>7. WriteBatchStep(f) => UNCHANGED rows \/ InsertRows(copied[f]) \/ InsertNext(f)
  BY DEF WriteBatchStep, FillEnter, FillTest, FillRow, BeginCopy, CopyDone,
         BulkFails, InsertOpen, sinkVars
<1> QED
  BY <1>2, <1>3, <1>4, <1>6, <1>7

\* WriteBatch does not touch the list; it keeps the types of its own state.
LEMMA WriterTypes ==
  ASSUME WriterTypeOK, NEW f \in Flows, WriteBatchStep(f)
  PROVE  WriterTypeOK' /\ UNCHANGED logEvents
<1> USE DEF WriterTypeOK
<1>1. UNCHANGED logEvents
  BY DEF WriteBatchStep, FillEnter, FillTest, FillRow, BeginCopy, CopyDone,
         BulkFails, InsertOpen, InsertNext
<1>2. balanceLock' \in Flows \cup {NoFlow}
  BY DEF WriteBatchStep, FillEnter, FillTest, FillRow, BeginCopy, CopyDone,
         BulkFails, InsertOpen, InsertNext
<1>3. ASSUME NEW label PROVE Spoiled(label) \in [Flows -> BOOLEAN]
  BY Zenon DEF Spoiled
<1>4. [modified EXCEPT ![f] = FALSE] \in [Flows -> BOOLEAN]
  BY Zenon
<1>5. modified' = modified \/ modified' = Spoiled("copy")
         \/ modified' = [modified EXCEPT ![f] = FALSE]
  BY DEF WriteBatchStep, FillEnter, FillTest, FillRow, BeginCopy, CopyDone,
         BulkFails, InsertOpen, InsertNext, LeaveBulk
<1>6. modified' \in [Flows -> BOOLEAN]
  BY <1>3, <1>4, <1>5, Zenon
<1>7. index' = index \/ index' = [index EXCEPT ![f] = index[f] + 1]
  BY DEF WriteBatchStep, FillEnter, FillTest, FillRow, BeginCopy, CopyDone,
         BulkFails, InsertOpen, InsertNext
<1>8. index' \in [Flows -> Nat]
  BY <1>7
<1>9. /\ copied' \in [Flows -> Seq(Messages)]
      /\ eventTable' \in Seq(Messages)
  <2>1. CASE FillRow(f)
    <3>1. CASE Writable(index[f] + 1) /\ UNCHANGED copied
                 /\ eventTable' = Append(eventTable, logEvents[index[f] + 1])
      <4>1. logEvents[index[f] + 1] \in Messages
        BY <3>1 DEF Writable, ListElements
      <4> QED
        BY <3>1, <4>1
    <3>2. CASE LeaveBulk(f, "failed")
      BY <3>2 DEF LeaveBulk
    <3> QED
      BY <2>1, <3>1, <3>2 DEF FillRow
  <2>2. CASE BeginCopy(f)
    BY <2>2 DEF BeginCopy
  <2>3. CASE CopyDone(f) \/ BulkFails(f)
    <3>1. \E label : LeaveBulk(f, label)
      BY <2>3 DEF CopyDone, BulkFails
    <3> QED
      BY <3>1 DEF LeaveBulk
  <2>4. CASE UNCHANGED <<copied, eventTable>>
    BY <2>4
  <2> QED
    BY <2>1, <2>2, <2>3, <2>4
       DEF WriteBatchStep, FillEnter, FillTest, InsertOpen, InsertNext
<1> QED
  BY <1>1, <1>2, <1>6, <1>8, <1>9

LEMMA WriteBatchInv ==
  ASSUME BatchInv, NEW f \in Flows, WriteBatch(f)
  PROVE  BatchInv'
<1>1. /\ WriteBatchStep(f)
      /\ UNCHANGED <<queueVars, serviceVars>>
      /\ StepsOK /\ SinkTypeOK /\ WriterTypeOK
  BY DEF WriteBatch, BatchInv, TypeOK
<1>2. SinkTypeOK' /\ WriterTypeOK'
  BY <1>1, WriterRows, WriterTypes
<1>3. PICK label \in WriterSteps : Goto(f, label)
  BY <1>1, WriterMoves
<1>4. label \in HandlerSteps \ {"count"} /\ label \in TimerSteps /\ pc[f] \in WriterSteps
  BY <1>1, WriterMoves DEF HandlerSteps, TimerSteps, WriterSteps, BulkSteps
<1>5. StepsOK' /\ DeliveryInv' /\ EagerInv' /\ TimerInv'
  BY <1>1, <1>3, <1>4, GoOn DEF serviceVars
<1>6. QueueTypeOK'
  BY <1>1 DEF BatchInv, TypeOK, QueueTypeOK, queueVars
<1> QED
  BY <1>1, <1>2, <1>5, <1>6 DEF BatchInv, TypeOK, serviceVars

-----------------------------------------------------------------------------
(* The Received handler                                                      *)

\* A handler that finishes drops its delivery.
LEMMA FinishFacts ==
  ASSUME BatchInv, NEW h \in Handlers, Finish(h)
  PROVE  /\ Goto(h, "idle")
         /\ delivery' \in [Handlers -> Deliveries \cup {NoDelivery}]
         /\ \A g \in Handlers : g # h => delivery'[g] = delivery[g]
  BY DEF Finish, BatchInv, TypeOK

\* A list changed by a handler or the timer spoils enumerations, nothing else.
LEMMA ListChangeType ==
  ASSUME WriterTypeOK, logEvents' \in Seq(ListElements),
         modified' = Spoiled("insert") \/ modified' = modified,
         UNCHANGED <<eventTable, balanceLock, index, copied>>
  PROVE  WriterTypeOK'
<1>1. Spoiled("insert") \in [Flows -> BOOLEAN]
  BY Zenon DEF Spoiled
<1>2. modified' \in [Flows -> BOOLEAN]
  BY <1>1, Zenon DEF WriterTypeOK
<1> QED
  BY <1>2 DEF WriterTypeOK

\* The steps of a handler that leave the eager option and the timer alone and
\* do not reach "count" keep the invariant when they keep the types.
LEMMA HandlerGoesOn ==
  ASSUME BatchInv, NEW h \in Handlers,
         pc[h] \in WriterSteps \cup {"add", "store", "remember", "count", "clear"},
         NEW label \in HandlerSteps \ {"count"}, Goto(h, label),
         UNCHANGED <<up, eager, timerStarted, lastTag>>,
         UNCHANGED delivery \/ (label = "idle" /\ Finish(h)),
         QueueTypeOK', UNCHANGED sinkVars, WriterTypeOK',
         addAt' \in [Handlers -> Nat]
  PROVE  BatchInv'
<1>1. h \in Flows /\ h \notin Timers
  BY FlowKinds
<1>2. \A g \in Handlers : delivery'[g] = delivery[g] \/ (g = h /\ label = "idle")
  BY FinishFacts
<1>3. StepsOK' /\ DeliveryInv' /\ EagerInv' /\ TimerInv'
  BY <1>1, <1>2, GoOn
<1>4. delivery' \in [Handlers -> Deliveries \cup {NoDelivery}]
  BY FinishFacts DEF BatchInv, TypeOK
<1>5. SinkTypeOK'
  BY DEF BatchInv, TypeOK, SinkTypeOK, sinkVars
<1> QED
  BY <1>3, <1>4, <1>5 DEF BatchInv, TypeOK

LEMMA AddBeginInv ==
  ASSUME BatchInv, NEW h \in Handlers, AddBegin(h)
  PROVE  BatchInv'
<1>1. Len(logEvents) \in Nat
  BY DEF BatchInv, TypeOK, WriterTypeOK
<1>2. addAt' \in [Handlers -> Nat]
  BY <1>1 DEF AddBegin, BatchInv, TypeOK
<1>3. QueueTypeOK' /\ WriterTypeOK'
  BY DEF AddBegin, BatchInv, TypeOK, QueueTypeOK, WriterTypeOK, queueVars
<1>4. "store" \in HandlerSteps \ {"count"}
  BY DEF HandlerSteps
<1> QED
  BY <1>2, <1>3, <1>4, HandlerGoesOn DEF AddBegin

\* A function on an initial segment of the numbers is a sequence.
LEMMA SegmentIsSeq ==
  ASSUME NEW n \in Nat, NEW S, NEW s \in [1 .. n -> S]
  PROVE  s \in Seq(S)
  OBVIOUS

LEMMA AddEndInv ==
  ASSUME BatchInv, NEW h \in Handlers, AddEnd(h)
  PROVE  BatchInv'
<1> DEFINE n == addAt[h] + 1
           added == [i \in 1 .. n |->
                       CASE i = n -> delivery[h].msg
                         [] i < n /\ i <= Len(logEvents) -> logEvents[i]
                         [] OTHER -> NoEvent]
<1>1. n \in Nat /\ logEvents \in Seq(ListElements)
  BY DEF BatchInv, TypeOK, WriterTypeOK
<1>2. delivery[h].msg \in ListElements
  BY DEF AddEnd, BatchInv, DeliveryInv, Deliveries, ListElements, Idle
<1>3. ASSUME NEW i \in 1 .. n
      PROVE  added[i] \in ListElements
  <2>1. i <= Len(logEvents) => logEvents[i] \in ListElements
    BY <1>1
  <2> QED
    BY <1>2, <2>1 DEF ListElements
<1>4. added \in [1 .. n -> ListElements]
  BY <1>3
<1>5. added \in Seq(ListElements)
  BY <1>1, <1>4, SegmentIsSeq
<1>6. logEvents' = added \/ logEvents' = logEvents
  BY DEF AddEnd
<1>7. logEvents' \in Seq(ListElements)
  BY <1>1, <1>5, <1>6
<1> HIDE DEF n, added
<1>8. WriterTypeOK'
  BY <1>7, ListChangeType DEF AddEnd, BatchInv, TypeOK
<1>9. QueueTypeOK' /\ UNCHANGED <<sinkVars, serviceVars>>
  BY DEF AddEnd, BatchInv, TypeOK, QueueTypeOK, queueVars
<1>10. "remember" \in HandlerSteps \ {"count"} /\ pc[h] = "store" /\ Goto(h, "remember")
  BY DEF HandlerSteps, AddEnd
<1>11. addAt' \in [Handlers -> Nat]
  BY <1>9 DEF BatchInv, TypeOK, serviceVars
<1> QED
  BY <1>8, <1>9, <1>10, <1>11, HandlerGoesOn DEF serviceVars

LEMMA HandlerAckInv ==
  ASSUME BatchInv, NEW h \in Handlers, HandlerAck(h)
  PROVE  BatchInv'
<1>1. QueueTypeOK'
  BY BasicAckType DEF HandlerAck, BatchInv, TypeOK, QueueTypeOK, queueVars
<1>2. WriterTypeOK' /\ UNCHANGED <<sinkVars, up, eager, timerStarted, lastTag>>
  BY DEF HandlerAck, BatchInv, TypeOK, WriterTypeOK
<1>3. addAt' \in [Handlers -> Nat]
  BY DEF HandlerAck, BatchInv, TypeOK
<1>4. pc[h] \in WriterSteps /\ {"clear", "idle"} \subseteq HandlerSteps \ {"count"}
  BY DEF HandlerAck, WriterSteps, HandlerSteps
<1>5. \/ Goto(h, "clear") /\ UNCHANGED delivery
      \/ Goto(h, "idle") /\ Finish(h)
  BY DEF HandlerAck, Finish
<1> QED
  BY <1>1, <1>2, <1>3, <1>4, <1>5, HandlerGoesOn

LEMMA HandlerClearInv ==
  ASSUME BatchInv, NEW h \in Handlers, HandlerClear(h)
  PROVE  BatchInv'
<1>1. QueueTypeOK'
  BY DEF HandlerClear, BatchInv, TypeOK, QueueTypeOK, queueVars
<1>2. WriterTypeOK'
  BY ListChangeType DEF HandlerClear, BatchInv, TypeOK
<1>3. addAt' \in [Handlers -> Nat]
  BY DEF HandlerClear, BatchInv, TypeOK
<1>4. "idle" \in HandlerSteps \ {"count"}
  BY DEF HandlerSteps
<1> QED
  BY <1>1, <1>2, <1>3, <1>4, HandlerGoesOn DEF HandlerClear, Finish

LEMMA HandlerFailsInv ==
  ASSUME BatchInv, NEW h \in Handlers, HandlerFails(h)
  PROVE  BatchInv'
<1>1. QueueTypeOK' /\ WriterTypeOK'
  BY DEF HandlerFails, BatchInv, TypeOK, QueueTypeOK, WriterTypeOK, queueVars
<1>2. addAt' \in [Handlers -> Nat]
  BY DEF HandlerFails, BatchInv, TypeOK
<1>3. pc[h] \in WriterSteps /\ "idle" \in HandlerSteps \ {"count"}
  BY DEF HandlerFails, WriterSteps, HandlerSteps
<1> QED
  BY <1>1, <1>2, <1>3, HandlerGoesOn DEF HandlerFails, Finish

\* Remembering a delivery: its tag is not null.
LEMMA RememberInv ==
  ASSUME BatchInv, NEW h \in Handlers, Remember(h)
  PROVE  BatchInv'
<1>1. h \in Flows /\ pc[h] = "remember" /\ ~eager
  BY FlowKinds, WriterStepsNotEager DEF Remember
<1>2. delivery[h] \in Deliveries
  BY <1>1 DEF BatchInv, DeliveryInv, Idle
<1>3. lastTag' \in Nat \ {0}
  BY <1>2 DEF Remember, Deliveries
<1>4. /\ pc' \in [Flows -> HandlerSteps]
      /\ \A g \in Flows : g # h => pc'[g] = pc[g]
  BY DEF Remember, Goto, BatchInv, TypeOK, StepsOK, HandlerSteps
<1>5. StepsOK'
  BY <1>4, FlowKinds DEF BatchInv, TypeOK, StepsOK
<1>6. DeliveryInv'
  BY <1>1, <1>2, <1>3, <1>4, FlowKinds DEF Remember, BatchInv, DeliveryInv, Idle
<1>7. EagerInv' /\ TimerInv'
  BY <1>1, <1>3, <1>4, FlowKinds DEF Remember, BatchInv, TimerInv, EagerInv, Idle
<1>8. QueueTypeOK' /\ SinkTypeOK' /\ WriterTypeOK'
  BY DEF Remember, BatchInv, TypeOK, QueueTypeOK, SinkTypeOK, WriterTypeOK, queueVars,
         sinkVars
<1> QED
  BY <1>3, <1>5, <1>6, <1>7, <1>8 DEF Remember, BatchInv, TypeOK

\* Counting the list: its length is read after the delivery was remembered.
LEMMA CountEventsInv ==
  ASSUME BatchInv, NEW h \in Handlers, CountEvents(h)
  PROVE  BatchInv'
<1>1. h \in Flows /\ pc[h] = "count" /\ ~eager /\ lastTag # 0
  BY FlowKinds, WriterStepsNotEager DEF CountEvents, BatchInv, DeliveryInv
<1>2. QueueTypeOK' /\ SinkTypeOK'
  BY DEF CountEvents, BatchInv, TypeOK, QueueTypeOK, SinkTypeOK, queueVars, sinkVars
<1>3. CASE CallWriteBatch(h) /\ UNCHANGED <<delivery, timerStarted>>
  <2>1. WriterTypeOK'
    BY <1>3 DEF CallWriteBatch, CountEvents, BatchInv, TypeOK, WriterTypeOK
  <2>2. addAt' \in [Handlers -> Nat]
    BY DEF CountEvents, BatchInv, TypeOK
  <2>3. WriteBatchEntry \in HandlerSteps \ {"count"} /\ Goto(h, WriteBatchEntry)
    BY <1>3 DEF CallWriteBatch, WriteBatchEntry, HandlerSteps, WriterSteps, BulkSteps
  <2> QED
    BY <1>1, <1>2, <1>3, <2>1, <2>2, <2>3, HandlerGoesOn DEF CountEvents
<1>4. CASE /\ timerStarted' = TRUE
           /\ Finish(h)
           /\ UNCHANGED <<index, copied, modified>>
  <2>1. /\ pc' \in [Flows -> HandlerSteps]
        /\ pc'[h] = "idle"
        /\ \A g \in Flows : g # h => pc'[g] = pc[g]
    BY <1>4, <1>1 DEF Finish, Goto, BatchInv, TypeOK, StepsOK, HandlerSteps
  <2>2. StepsOK'
    BY <2>1, FlowKinds DEF BatchInv, TypeOK, StepsOK
  <2>3. DeliveryInv'
    BY <1>4, <1>1, <2>1, FinishFacts, FlowKinds
       DEF CountEvents, BatchInv, DeliveryInv, Idle
  <2>4. EagerInv' /\ TimerInv'
    BY <1>4, <1>1 DEF CountEvents, TimerInv, EagerInv
  <2>5. WriterTypeOK'
    BY <1>4 DEF CountEvents, BatchInv, TypeOK, WriterTypeOK
  <2>6. delivery' \in [Handlers -> Deliveries \cup {NoDelivery}]
    BY <1>4, FinishFacts
  <2> QED
    BY <1>2, <1>4, <2>2, <2>3, <2>4, <2>5, <2>6 DEF CountEvents, BatchInv, TypeOK
<1> QED
  BY <1>3, <1>4 DEF CountEvents

\* A delivery starts a handler at its first step; the eager step is taken
\* only while the option is set, the other only once it is not.
LEMMA ReceiveInv ==
  ASSUME BatchInv, NEW h \in Handlers, Receive(h)
  PROVE  BatchInv'
<1> PICK m \in Messages :
      /\ Deliver(m)
      /\ IF m \in Undecodable
         THEN UNCHANGED <<pc, delivery>>
         ELSE /\ delivery' = [delivery EXCEPT ![h] = [tag |-> nextTag, msg |-> m]]
              /\ Goto(h, IF eager THEN "eagerWrite" ELSE "add")
  BY DEF Receive
<1> DEFINE new == [tag |-> nextTag, msg |-> m]
           first == IF eager THEN "eagerWrite" ELSE "add"
<1>1. new \in Deliveries /\ h \in Flows
  BY FlowKinds DEF BatchInv, TypeOK, QueueTypeOK, Deliveries
<1>2. /\ QueueTypeOK'
      /\ UNCHANGED <<sinkVars, up, eager, timerStarted, lastTag, addAt, logEvents>>
  <2>1. new \in Deliveries /\ nextTag + 1 \in Nat \ {0}
    BY <1>1 DEF BatchInv, TypeOK, QueueTypeOK
  <2> QED
    BY <2>1 DEF Receive, Deliver, BatchInv, TypeOK, QueueTypeOK
<1>3. WriterTypeOK' /\ SinkTypeOK'
  BY <1>2 DEF Receive, BatchInv, TypeOK, WriterTypeOK, SinkTypeOK, sinkVars
<1>4. CASE UNCHANGED <<pc, delivery>>
  <2>1. StepsOK' /\ DeliveryInv' /\ EagerInv' /\ TimerInv'
    BY <1>2, <1>4 DEF BatchInv, TypeOK, StepsOK, DeliveryInv, EagerInv, TimerInv, Idle
  <2> QED
    BY <1>2, <1>3, <1>4, <2>1 DEF BatchInv, TypeOK
<1>5. CASE delivery' = [delivery EXCEPT ![h] = new] /\ Goto(h, first)
  <2>1. first \in {"eagerWrite", "add"} /\ (eager => first = "eagerWrite")
    OBVIOUS
  <2> HIDE DEF new, first
  <2>2. /\ pc' \in [Flows -> HandlerSteps]
        /\ pc'[h] = first
        /\ \A g \in Flows : g # h => pc'[g] = pc[g]
    BY <1>1, <1>5, <2>1 DEF Goto, BatchInv, TypeOK, StepsOK, HandlerSteps
  <2>3. StepsOK'
    BY <2>2, FlowKinds DEF BatchInv, TypeOK, StepsOK
  <2>4. /\ delivery' \in [Handlers -> Deliveries \cup {NoDelivery}]
        /\ delivery'[h] = new
        /\ \A g \in Handlers : g # h => delivery'[g] = delivery[g]
    BY <1>1, <1>5 DEF BatchInv, TypeOK
  <2>5. DeliveryInv'
    BY <1>1, <1>2, <2>1, <2>2, <2>4, FlowKinds DEF BatchInv, DeliveryInv, Idle
  <2>6. EagerInv' /\ TimerInv'
    BY <1>2, <2>1, <2>2, FlowKinds DEF BatchInv, EagerInv, TimerInv, Idle
  <2> QED
    BY <1>2, <1>3, <2>3, <2>4, <2>5, <2>6 DEF BatchInv, TypeOK
<1> QED
  BY <1>4, <1>5

\* The first event's steps touch neither the list nor the timer; the
\* acknowledgement clears the option.
LEMMA EagerStepInv ==
  ASSUME BatchInv, NEW h \in Handlers, EagerWrite(h) \/ EagerAck(h)
  PROVE  BatchInv'
<1>1. /\ h \in Flows
      /\ pc[h] \in {"eagerWrite", "eagerAck"}
      /\ delivery[h] \in Deliveries
  BY FlowKinds DEF EagerWrite, EagerAck, BatchInv, DeliveryInv, Idle
<1>2. /\ UNCHANGED <<logEvents, up, timerStarted, lastTag, addAt>>
      /\ eager' = eager \/ eager' = FALSE
      /\ WriterTypeOK'
  BY DEF EagerWrite, EagerAck, BatchInv, TypeOK, WriterTypeOK
<1>3. QueueTypeOK'
  BY BasicAckType DEF EagerWrite, EagerAck, BatchInv, TypeOK, QueueTypeOK, queueVars
<1>4. SinkTypeOK'
  <2>1. delivery[h].msg \in Messages
    BY <1>1 DEF Deliveries
  <2>2. EagerWrite(h) => InsertCommits(delivery[h].msg) \/ InsertThrows(delivery[h].msg)
    BY DEF EagerWrite
  <2>3. EagerAck(h) => SinkTypeOK'
    BY DEF EagerAck, BatchInv, TypeOK, SinkTypeOK, sinkVars
  <2> QED
    BY <2>1, <2>2, <2>3, InsertEventType DEF BatchInv, TypeOK
<1>5. Finish(h) \/ (Goto(h, "eagerAck") /\ UNCHANGED delivery)
  BY DEF EagerWrite, EagerAck
<1>6. /\ delivery' \in [Handlers -> Deliveries \cup {NoDelivery}]
      /\ \A g \in Handlers : delivery'[g] = delivery[g] \/ (g = h /\ Finish(h))
  BY <1>5, FinishFacts DEF BatchInv, TypeOK
<1>7. /\ pc' \in [Flows -> HandlerSteps]
      /\ pc'[h] = "idle" \/ (pc'[h] = "eagerAck" /\ UNCHANGED delivery)
      /\ \A g \in Flows : g # h => pc'[g] = pc[g]
  BY <1>1, <1>5 DEF Finish, Goto, BatchInv, TypeOK, StepsOK, HandlerSteps
<1>8. StepsOK'
  BY <1>7, FlowKinds DEF BatchInv, TypeOK, StepsOK
<1>9. DeliveryInv'
  BY <1>1, <1>2, <1>6, <1>7, FlowKinds DEF BatchInv, DeliveryInv, Idle
<1>10. EagerInv' /\ TimerInv'
  BY <1>2, <1>7, FlowKinds DEF BatchInv, EagerInv, TimerInv, Idle
<1>11. eager' \in BOOLEAN
  BY <1>2 DEF BatchInv, TypeOK
<1> QED
  BY <1>2, <1>3, <1>4, <1>6, <1>8, <1>9, <1>10, <1>11 DEF BatchInv, TypeOK

LEMMA HandlerStepInv ==
  ASSUME BatchInv, NEW h \in Handlers, HandlerStep(h)
  PROVE  BatchInv'
  BY EagerStepInv, AddBeginInv, AddEndInv, RememberInv, CountEventsInv,
     HandlerAckInv, HandlerClearInv, HandlerFailsInv DEF HandlerStep

-----------------------------------------------------------------------------
(* The timer callback                                                        *)

\* A callback starts on a started timer, with the option cleared.
LEMMA ElapsedInv ==
  ASSUME BatchInv, NEW t \in Timers, Elapsed(t)
  PROVE  BatchInv'
<1>1. t \in Flows /\ t \notin Handlers /\ ~eager /\ timerStarted
  BY FlowKinds DEF Elapsed
<1>2. UNCHANGED <<queueVars, sinkVars, serviceVars, logEvents>>
  BY DEF Elapsed
<1>3. /\ pc' \in [Flows -> HandlerSteps]
      /\ pc'[t] \in TimerSteps
      /\ \A g \in Flows : g # t => pc'[g] = pc[g]
  BY <1>1 DEF Elapsed, CallWriteBatch, Goto, WriteBatchEntry, BatchInv, TypeOK, StepsOK,
              HandlerSteps, TimerSteps, WriterSteps, BulkSteps
<1>4. StepsOK'
  BY <1>3, FlowKinds DEF BatchInv, TypeOK, StepsOK
<1>5. DeliveryInv' /\ EagerInv' /\ TimerInv'
  BY <1>1, <1>2, <1>3, FlowKinds
     DEF serviceVars, BatchInv, DeliveryInv, EagerInv, TimerInv, Idle
<1>6. WriterTypeOK'
  BY DEF Elapsed, CallWriteBatch, BatchInv, TypeOK, WriterTypeOK
<1>7. QueueTypeOK' /\ SinkTypeOK'
  BY <1>2 DEF BatchInv, TypeOK, QueueTypeOK, SinkTypeOK, queueVars, sinkVars
<1> QED
  BY <1>2, <1>4, <1>5, <1>6, <1>7 DEF BatchInv, TypeOK, serviceVars

LEMMA TimerEndInv ==
  ASSUME BatchInv, NEW t \in Timers, TimerAck(t) \/ TimerClear(t)
  PROVE  BatchInv'
<1>1. t \in Flows /\ t \notin Handlers
  BY FlowKinds
<1>2. PICK label \in {"clear", "idle"} : Goto(t, label)
  BY DEF TimerAck, TimerClear
<1>3. /\ label \in HandlerSteps \ {"count"}
      /\ label \in TimerSteps
      /\ pc[t] \in WriterSteps \cup {"clear"}
  BY DEF TimerAck, TimerClear, HandlerSteps, TimerSteps, WriterSteps
<1>4. UNCHANGED <<sinkVars, serviceVars>>
  BY DEF TimerAck, TimerClear
<1>5. StepsOK' /\ DeliveryInv' /\ EagerInv' /\ TimerInv'
  BY <1>1, <1>2, <1>3, <1>4, GoOn DEF serviceVars
<1>6. QueueTypeOK'
  BY BasicAckType DEF TimerAck, TimerClear, BatchInv, TypeOK, QueueTypeOK, queueVars
<1>7. WriterTypeOK'
  <2>1. TimerAck(t) => WriterTypeOK'
    BY DEF TimerAck, BatchInv, TypeOK, WriterTypeOK
  <2>2. TimerClear(t) => WriterTypeOK'
    BY ListChangeType DEF TimerClear, BatchInv, TypeOK
  <2> QED
    BY <2>1, <2>2
<1> QED
  BY <1>4, <1>5, <1>6, <1>7 DEF BatchInv, TypeOK, SinkTypeOK, sinkVars, serviceVars

-----------------------------------------------------------------------------
(* The process and its connection                                            *)

\* A process that ends leaves the initial state of all it held in memory.
LEMMA ProcessEndsInv ==
  ASSUME BatchInv, ProcessEnds, faults' \in 0 .. MaxFaults
  PROVE  BatchInv'
<1>1. QueueTypeOK'
  BY CloseChannelType DEF ProcessEnds, BatchInv, TypeOK, QueueTypeOK, ChannelStates
<1>2. SinkTypeOK'
  BY DEF ProcessEnds, BatchInv, TypeOK, SinkTypeOK
<1>3. WriterTypeOK'
  BY DEF ProcessEnds, WriterTypeOK
<1>4. StepsOK' /\ DeliveryInv' /\ TimerInv'
  BY FlowKinds
     DEF ProcessEnds, StepsOK, DeliveryInv, TimerInv, Idle, HandlerSteps, TimerSteps
<1>5. EagerInv'
  BY FlowKinds DEF ProcessEnds, EagerInv, Idle
<1>6. /\ up' \in BOOLEAN /\ eager' \in BOOLEAN /\ timerStarted' \in BOOLEAN
      /\ lastTag' \in Nat
      /\ delivery' \in [Handlers -> Deliveries \cup {NoDelivery}]
      /\ addAt' \in [Handlers -> Nat]
  BY LoggingServiceAssumption DEF ProcessEnds
<1> QED
  BY <1>1, <1>2, <1>3, <1>4, <1>5, <1>6 DEF BatchInv, TypeOK

\* What happens to the queue and the channel leaves the flows alone.
LEMMA FlowsUntouched ==
  ASSUME BatchInv, UNCHANGED <<writerVars, eager, timerStarted, lastTag, delivery, addAt>>,
         QueueTypeOK', SinkTypeOK', up' \in BOOLEAN
  PROVE  BatchInv'
<1>1. WriterTypeOK' /\ StepsOK'
  BY DEF writerVars, BatchInv, TypeOK, WriterTypeOK, StepsOK
<1>2. DeliveryInv' /\ EagerInv' /\ TimerInv'
  BY DEF writerVars, BatchInv, DeliveryInv, EagerInv, TimerInv, Idle
<1> QED
  BY <1>1, <1>2 DEF BatchInv, TypeOK

LEMMA EnvironmentInv ==
  ASSUME BatchInv, Environment
  PROVE  BatchInv'
<1> USE DEF BatchInv, TypeOK
<1>1. CASE Kill
  BY <1>1, ProcessEndsInv, FaultType DEF Kill
<1>2. CASE Exit
  BY <1>2, ProcessEndsInv DEF Exit, SinkTypeOK
<1>3. CASE StopAsync
  <2>1. QueueTypeOK'
    BY <1>3, CloseChannelType DEF StopAsync, QueueTypeOK, ChannelStates
  <2>2. SinkTypeOK'
    BY <1>3, FaultType DEF StopAsync, SinkTypeOK
  <2> QED
    BY <1>3, <2>1, <2>2, FlowsUntouched DEF StopAsync, serviceVars
<1>4. CASE Restart
  <2>1. QueueTypeOK'
    BY <1>4 DEF Restart, StartChannel, QueueTypeOK, ChannelStates
  <2>2. SinkTypeOK' /\ up' \in BOOLEAN
    BY <1>4 DEF Restart, SinkTypeOK, sinkVars
  <2> QED
    BY <1>4, <2>1, <2>2, FlowsUntouched DEF Restart
<1>5. CASE ConnectionLost
  <2>1. QueueTypeOK'
    <3>1. nextTag - 1 \in Nat
      BY DEF QueueTypeOK
    <3> QED
      BY <1>5, <3>1, CloseChannelType DEF ConnectionLost, LoseConnection, ChannelStates
  <2>2. SinkTypeOK'
    BY <1>5, FaultType DEF ConnectionLost, SinkTypeOK
  <2> QED
    BY <1>5, <2>1, <2>2, FlowsUntouched DEF ConnectionLost, serviceVars
<1>6. CASE ConnectionRecovered
  <2>1. QueueTypeOK'
    BY <1>6 DEF ConnectionRecovered, OpenChannel, QueueTypeOK, ChannelStates
  <2>2. SinkTypeOK'
    BY <1>6 DEF ConnectionRecovered, SinkTypeOK, sinkVars
  <2> QED
    BY <1>6, <2>1, <2>2, FlowsUntouched DEF ConnectionRecovered, serviceVars
<1> QED
  BY <1>1, <1>2, <1>3, <1>4, <1>5, <1>6 DEF Environment

-----------------------------------------------------------------------------
(* However flows overlap                                                     *)

LEMMA BatchInvInit ==
  Init => BatchInv
<1> SUFFICES ASSUME Init PROVE BatchInv
  OBVIOUS
<1> USE DEF Init, QueueInit, SinkInit, WriterInit, ServiceInit
<1>1. QueueTypeOK /\ SinkTypeOK
  BY LogEventsAssumption DEF QueueTypeOK, SinkTypeOK, ChannelStates
<1>2. WriterTypeOK
  BY DEF WriterTypeOK
<1>3. StepsOK /\ DeliveryInv /\ TimerInv
  BY FlowKinds DEF StepsOK, DeliveryInv, TimerInv, Idle, HandlerSteps, TimerSteps
<1>4. EagerInv
  BY FlowKinds DEF EagerInv, Idle
<1>5. /\ up \in BOOLEAN /\ eager \in BOOLEAN /\ timerStarted \in BOOLEAN
      /\ lastTag \in Nat
      /\ delivery \in [Handlers -> Deliveries \cup {NoDelivery}]
      /\ addAt \in [Handlers -> Nat]
  BY LoggingServiceAssumption
<1> QED
  BY <1>1, <1>2, <1>3, <1>4, <1>5 DEF BatchInv, TypeOK

LEMMA BatchInvStep ==
  BatchInv /\ [Next]_vars => BatchInv'
<1> SUFFICES ASSUME BatchInv, [Next]_vars PROVE BatchInv'
  OBVIOUS
<1>1. ASSUME NEW h \in Handlers, Receive(h) \/ HandlerStep(h) PROVE BatchInv'
  BY <1>1, ReceiveInv, HandlerStepInv
<1>2. ASSUME NEW t \in Timers, Elapsed(t) PROVE BatchInv'
  BY <1>2, ElapsedInv
<1>3. ASSUME NEW t \in Timers, TimerStep(t) PROVE BatchInv'
  <2>1. CASE TimerAck(t) \/ TimerClear(t)
    BY <2>1, TimerEndInv
  <2>2. CASE TimerThrows(t)
    BY <2>2, ProcessEndsInv DEF TimerThrows, BatchInv, TypeOK, SinkTypeOK
  <2> QED
    BY <1>3, <2>1, <2>2 DEF TimerStep
<1>4. ASSUME NEW f \in Flows, WriteBatch(f) PROVE BatchInv'
  BY <1>4, WriteBatchInv
<1>5. CASE Environment
  BY <1>5, EnvironmentInv
<1>6. CASE UNCHANGED vars
  <2>1. QueueTypeOK' /\ SinkTypeOK'
    BY <1>6 DEF vars, queueVars, sinkVars, BatchInv, TypeOK, QueueTypeOK, SinkTypeOK
  <2>2. up' \in BOOLEAN
    BY <1>6 DEF vars, serviceVars, BatchInv, TypeOK
  <2> QED
    BY <1>6, <2>1, <2>2, FlowsUntouched DEF vars, serviceVars
<1> QED
  BY <1>1, <1>2, <1>3, <1>4, <1>5, <1>6 DEF Next

\* The invariant that holds whichever flows overlap.
THEOREM BatchInvariant == Spec => []BatchInv
  BY BatchInvInit, BatchInvStep, PTL DEF Spec

\* Every variable of the logging worker keeps its type.
THEOREM TypeCorrect == Spec => []TypeOK
<1>1. BatchInv => TypeOK
  BY DEF BatchInv
<1> QED
  BY <1>1, BatchInvariant, PTL

\* The eager option is cleared before the list is used (LoggingService.cs:44-52,
\* 88): whichever handlers and callbacks overlap, the timer's eager branch is dead.
THEOREM EagerFirst == Spec => []EagerBeforeBatching
<1>1. BatchInv => EagerBeforeBatching
  BY DEF BatchInv, EagerInv, EagerBeforeBatching
<1> QED
  BY <1>1, BatchInvariant, PTL

\* A timer callback never dereferences a null _basicDeliverEventArgs, although
\* the field is assigned without a lock after the list was added to.
THEOREM TimerHasDelivery == Spec => []RememberedDelivery
<1>1. BatchInv => RememberedDelivery
  BY DEF BatchInv, TimerInv, RememberedDelivery
<1> QED
  BY <1>1, BatchInvariant, PTL

-----------------------------------------------------------------------------
(* Flows that do not overlap                                                 *)

Serial ==
    /\ ~Overlap
    /\ EagerlyEmitFirstEvent => Unwritable = {} /\ "sql" \notin FaultKinds

Elements(events) == {events[i] : i \in DOMAIN events}

\* At most one flow is at work.
Alone == \A f, g \in Flows : Idle(f) \/ Idle(g) \/ f = g

\* A handler has not yet written d or put it into the list.
Held(d) ==
    \E h \in Handlers :
        pc[h] \in {"eagerWrite", "add", "store"} /\ delivery[h] = d

\* Nothing the broker may be told to forget gets lost: it is held by a
\* handler, in the list, in the table, or not an event at all.
CoverInv ==
    \A d \in unacked :
        Held(d) \/ d.msg \in Undecodable \cup Stored \cup Elements(logEvents)

\* The elements of the list that flow f has gone through.
Visited(f) == {logEvents[i] : i \in {j \in DOMAIN logEvents : j <= index[f]}}

\* How far a flow at work has got.
ProgressInv(f) ==
    /\ pc[f] \in {"eagerWrite", "eagerAck"} => eager
    /\ pc[f] = "store" => addAt[f] = Len(logEvents)
    /\ pc[f] \in {"enter", "open"} => index[f] = 0
    /\ pc[f] \in {"fill", "row"} => Visited(f) \subseteq Elements(eventTable)
    /\ pc[f] = "connect" => Elements(logEvents) \subseteq Elements(eventTable)
    /\ pc[f] = "copy" => Elements(logEvents) \subseteq Elements(copied[f])
    /\ pc[f] = "insert" => Visited(f) \subseteq Stored
    /\ pc[f] \in {"written", "clear"} => Elements(logEvents) \subseteq Stored

SerialInv ==
    /\ BatchInv
    /\ Alone
    /\ CoverInv
    /\ \A f \in Flows : ProgressInv(f)
    /\ AckedIsStored

OnlyFlow(f) == \A g \in Flows : g # f => Idle(g)

-----------------------------------------------------------------------------
\* A flow at work is the only one.
LEMMA BusyIsAlone ==
  ASSUME Alone, NEW f \in Flows, ~Idle(f)
  PROVE  OnlyFlow(f)
  BY DEF Alone, OnlyFlow

\* When the only flow moves, it stays the only one, and only its progress
\* has to be looked at.
LEMMA OnlyFlowMoves ==
  ASSUME StepsOK, NEW f \in Flows, OnlyFlow(f), NEW label, Goto(f, label),
         ProgressInv(f)'
  PROVE  Alone' /\ \A g \in Flows : ProgressInv(g)'
<1>1. \A g \in Flows : g # f => pc'[g] = "idle"
  BY DEF Goto, OnlyFlow, Idle, StepsOK
<1>2. Alone'
  BY <1>1 DEF Alone, Idle
<1>3. \A g \in Flows : g # f => ProgressInv(g)'
  BY <1>1 DEF ProgressInv
<1> QED
  BY <1>2, <1>3

\* Deliveries stay accounted for when the only flow moves, if the event it
\* holds and the elements of the list do.
LEMMA CoverKept ==
  ASSUME BatchInv, CoverInv, NEW f \in Flows, OnlyFlow(f), NEW label, Goto(f, label),
         unacked' \subseteq unacked, Stored \subseteq Stored',
         Elements(logEvents) \subseteq Stored' \cup Elements(logEvents)',
         f \in Handlers /\ pc[f] \in {"eagerWrite", "add", "store"} =>
            \/ label \in {"eagerWrite", "add", "store"} /\ delivery'[f] = delivery[f]
            \/ delivery[f].msg \in Stored' \cup Elements(logEvents)'
  PROVE  CoverInv'
<1> SUFFICES ASSUME NEW d \in unacked'
             PROVE  \/ Held(d)'
                    \/ d.msg \in Undecodable \cup Stored' \cup Elements(logEvents)'
  BY DEF CoverInv
<1>1. CASE d.msg \in Undecodable \cup Stored \cup Elements(logEvents)
  BY <1>1
<1>2. CASE Held(d)
  <2>1. PICK h \in Handlers :
          pc[h] \in {"eagerWrite", "add", "store"} /\ delivery[h] = d
    BY <1>2 DEF Held
  <2>2. h = f
    BY <2>1, FlowKinds DEF OnlyFlow, Idle
  <2>3. pc'[f] = label
    BY DEF Goto, BatchInv, TypeOK, StepsOK
  <2> QED
    BY <2>1, <2>2, <2>3 DEF Held
<1> QED
  BY <1>1, <1>2 DEF CoverInv

\* An acknowledgement when every element of the list is written and the only
\* flow holds nothing settles only what is written.
LEMMA AckSettlesStored ==
  ASSUME BatchInv, CoverInv, AckedIsStored, NEW f \in Flows, OnlyFlow(f),
         pc[f] \notin {"eagerWrite", "add", "store"},
         Elements(logEvents) \subseteq Stored,
         NEW tag, NEW multiple, BasicAck(tag, multiple), UNCHANGED rows
  PROVE  AckedIsStored' /\ unacked' \subseteq unacked
<1>1. \A d \in unacked : ~Held(d)
  BY FlowKinds DEF Held, OnlyFlow, Idle
<1>2. MessagesOf(unacked) \subseteq Undecodable \cup Stored
  BY <1>1 DEF CoverInv, MessagesOf
<1>3. unacked' \subseteq unacked /\ settled' \subseteq settled \cup MessagesOf(unacked)
  BY DEF BasicAck, CloseChannel, Requeue, Covered, MessagesOf, queueVars
<1>4. Stored' = Stored
  BY DEF Stored
<1> QED
  BY <1>2, <1>3, <1>4 DEF AckedIsStored

\* More rows, more stored events.
LEMMA StoredGrows ==
  ASSUME SinkTypeOK, SinkTypeOK', \A m \in Messages : rows'[m] >= rows[m]
  PROVE  Stored \subseteq Stored'
  BY DEF Stored, SinkTypeOK

\* What is appended to a sequence is among its elements, with the others.
LEMMA AppendElements ==
  ASSUME NEW S, NEW events \in Seq(S), NEW e
  PROVE  /\ Elements(events) \subseteq Elements(Append(events, e))
         /\ e \in Elements(Append(events, e))
<1> DEFINE more == Append(events, e)
<1>1. /\ DOMAIN events \subseteq DOMAIN more
      /\ \A i \in DOMAIN events : more[i] = events[i]
      /\ Len(events) + 1 \in DOMAIN more
      /\ more[Len(events) + 1] = e
  OBVIOUS
<1> HIDE DEF more
<1>2. Elements(events) \subseteq Elements(more) /\ e \in Elements(more)
  BY <1>1 DEF Elements
<1> QED
  BY <1>2 DEF more

-----------------------------------------------------------------------------
(* WriteBatch                                                                *)

\* The steps of WriteBatch keep track of what is in the table.
LEMMA WriterProgress ==
  ASSUME BatchInv, NEW f \in Flows, ProgressInv(f), WriteBatchStep(f),
         UNCHANGED serviceVars
  PROVE  ProgressInv(f)' /\ Stored \subseteq Stored'
<1>1. /\ StepsOK /\ SinkTypeOK /\ WriterTypeOK
      /\ UNCHANGED logEvents
      /\ SinkTypeOK' /\ WriterTypeOK'
  BY WriterTypes, WriterRows DEF BatchInv, TypeOK
<1>2. Stored \subseteq Stored'
  BY <1>1, WriterRows, StoredGrows
<1>3. CASE FillEnter(f)
  <2>1. pc'[f] = "fill" /\ index'[f] = 0
    BY <1>1, <1>3 DEF FillEnter, Goto, StepsOK, ProgressInv
  <2>2. Visited(f)' = {}
    BY <1>1, <2>1 DEF Visited, WriterTypeOK
  <2> QED
    BY <1>2, <2>1, <2>2 DEF ProgressInv
<1>4. CASE FillTest(f)
  <2>1. CASE index[f] < Len(logEvents) /\ Goto(f, "row")
    <3>1. pc[f] = "fill" /\ pc'[f] = "row" /\ UNCHANGED <<index, eventTable>>
      BY <1>1, <1>4, <2>1 DEF FillTest, Goto, StepsOK
    <3> QED
      BY <1>1, <1>2, <3>1 DEF ProgressInv, Visited
  <2>2. CASE index[f] >= Len(logEvents) /\ Goto(f, "connect")
    <3>1. pc[f] = "fill" /\ pc'[f] = "connect" /\ UNCHANGED <<index, eventTable>>
      BY <1>1, <1>4, <2>2 DEF FillTest, Goto, StepsOK
    <3>2. Elements(logEvents) \subseteq Visited(f)
      BY <1>1, <2>2 DEF Elements, Visited, WriterTypeOK
    <3> QED
      BY <1>1, <1>2, <3>1, <3>2 DEF ProgressInv
  <2> QED
    BY <1>4, <2>1, <2>2 DEF FillTest
<1>5. CASE FillRow(f)
  <2>1. CASE LeaveBulk(f, "failed")
    BY <1>1, <1>2, <2>1 DEF LeaveBulk, Goto, StepsOK, ProgressInv
  <2>2. CASE /\ eventTable' = Append(eventTable, logEvents[index[f] + 1])
             /\ index' = [index EXCEPT ![f] = index[f] + 1]
             /\ Goto(f, "fill")
    <3>1. pc[f] = "row" /\ pc'[f] = "fill" /\ index'[f] = index[f] + 1
      BY <1>1, <1>5, <2>2 DEF FillRow, Goto, StepsOK, WriterTypeOK
    <3>2. Visited(f)' \subseteq Visited(f) \cup {logEvents[index[f] + 1]}
      BY <1>1, <3>1 DEF Visited, WriterTypeOK
    <3>3. /\ Elements(eventTable) \subseteq Elements(eventTable')
          /\ logEvents[index[f] + 1] \in Elements(eventTable')
      BY <1>1, <2>2, AppendElements DEF WriterTypeOK
    <3> QED
      BY <1>2, <3>1, <3>2, <3>3 DEF ProgressInv, Elements
  <2> QED
    BY <1>5, <2>1, <2>2 DEF FillRow
<1>6. CASE BeginCopy(f)
  <2>1. pc[f] = "connect" /\ pc'[f] = "copy" /\ copied'[f] = eventTable
    BY <1>1, <1>6 DEF BeginCopy, Goto, StepsOK, WriterTypeOK
  <2> QED
    BY <1>1, <1>2, <2>1 DEF ProgressInv, Elements
<1>7. CASE CopyDone(f)
  <2>1. pc[f] = "copy" /\ pc'[f] = "written"
    BY <1>1, <1>7 DEF CopyDone, LeaveBulk, Goto, StepsOK
  <2>2. \A i \in DOMAIN copied[f] : copied[f][i] \in Messages /\ rows'[copied[f][i]] > 0
    <3> DEFINE batch == copied[f]
    <3>1. batch \in Seq(Messages) /\ InsertRows(batch) /\ rows \in [Messages -> 0 .. MaxRows]
      BY <1>1, <1>7 DEF CopyDone, WriterTypeOK, SinkTypeOK
    <3> HIDE DEF batch
    <3>2. \A i \in DOMAIN batch : batch[i] \in Messages
      BY <3>1
    <3>3. \A i \in DOMAIN batch : batch[i] \in Messages => rows'[batch[i]] > 0
      BY <3>1, InsertRowsEffect
    <3>4. \A i \in DOMAIN batch : batch[i] \in Messages /\ rows'[batch[i]] > 0
      BY <3>2, <3>3
    <3> QED
      BY <3>4 DEF batch
  <2>3. Elements(copied[f]) \subseteq Stored'
    BY <2>2 DEF Elements, Stored
  <2>4. Elements(logEvents)' \subseteq Stored'
    BY <1>1, <2>1, <2>3 DEF ProgressInv
  <2> QED
    BY <1>2, <2>1, <2>4 DEF ProgressInv
<1>8. CASE BulkFails(f)
  <2>1. pc'[f] = "failed"
    BY <1>1, <1>8 DEF BulkFails, LeaveBulk, Goto, StepsOK
  <2> QED
    BY <1>2, <2>1 DEF ProgressInv
<1>9. CASE InsertOpen(f)
  <2>1. pc[f] = "open" /\ (pc'[f] = "insert" \/ pc'[f] = "failed") /\ index'[f] = index[f]
    BY <1>1, <1>9 DEF InsertOpen, Goto, StepsOK
  <2>2. Visited(f)' = {}
    BY <1>1, <2>1 DEF Visited, WriterTypeOK, ProgressInv
  <2> QED
    BY <1>2, <2>1, <2>2 DEF ProgressInv
<1>10. CASE InsertNext(f)
  <2>1. pc[f] = "insert" /\ pc'[f] \in {"insert", "written", "failed"}
    BY <1>1, <1>10 DEF InsertNext, Goto, StepsOK
  <2>2. CASE pc'[f] = "failed"
    BY <1>2, <2>2 DEF ProgressInv
  <2>3. CASE pc'[f] = "written"
    <3>1. index[f] + 1 > Len(logEvents)
      BY <1>1, <1>10, <2>1, <2>3 DEF InsertNext, Goto, StepsOK
    <3>2. Elements(logEvents) \subseteq Visited(f)
      BY <1>1, <3>1 DEF Elements, Visited, WriterTypeOK
    <3>3. Elements(logEvents)' \subseteq Stored'
      BY <1>1, <1>2, <2>1, <3>2 DEF ProgressInv
    <3> QED
      BY <1>2, <2>3, <3>3 DEF ProgressInv
  <2>4. CASE pc'[f] = "insert"
    <3>1. /\ Writable(index[f] + 1)
          /\ InsertRows(<<logEvents[index[f] + 1]>>)
          /\ index' = [index EXCEPT ![f] = index[f] + 1]
      BY <1>1, <1>10, <2>1, <2>4 DEF InsertNext, Goto, StepsOK
    <3>2. logEvents[index[f] + 1] \in Messages
      BY <1>1, <3>1 DEF Writable, WriterTypeOK, ListElements
    <3>3. logEvents[index[f] + 1] \in Stored'
      BY <1>1, <3>1, <3>2, InsertOneEffect DEF Stored, SinkTypeOK
    <3>4. Visited(f)' \subseteq Visited(f) \cup {logEvents[index[f] + 1]}
      BY <1>1, <3>1 DEF Visited, WriterTypeOK
    <3>5. Visited(f)' \subseteq Stored'
      BY <1>2, <2>1, <3>3, <3>4 DEF ProgressInv
    <3> QED
      BY <1>2, <2>4, <3>5 DEF ProgressInv
  <2> QED
    BY <2>1, <2>2, <2>3, <2>4
<1> QED
  BY <1>2, <1>3, <1>4, <1>5, <1>6, <1>7, <1>8, <1>9, <1>10 DEF WriteBatchStep

LEMMA WriteBatchSerial ==
  ASSUME SerialInv, BatchInv', NEW f \in Flows, WriteBatch(f)
  PROVE  SerialInv'
<1>1. /\ WriteBatchStep(f) /\ UNCHANGED <<queueVars, serviceVars>>
      /\ StepsOK /\ WriterTypeOK /\ BatchInv
  BY DEF WriteBatch, SerialInv, BatchInv, TypeOK
<1>2. PICK label : Goto(f, label)
  BY <1>1, WriterMoves
<1>3. pc[f] \in WriterSteps
  BY <1>1, WriterMoves
<1>4. OnlyFlow(f) /\ pc[f] \notin {"eagerWrite", "add", "store"}
  BY <1>3, BusyIsAlone DEF SerialInv, WriterSteps, BulkSteps, Idle
<1>5. ProgressInv(f)' /\ Stored \subseteq Stored' /\ UNCHANGED logEvents
  BY <1>1, WriterProgress, WriterTypes DEF SerialInv
<1>6. Alone' /\ \A g \in Flows : ProgressInv(g)'
  BY <1>1, <1>2, <1>4, <1>5, OnlyFlowMoves
<1>7. CoverInv'
  <2>1. unacked' = unacked
    BY <1>1 DEF queueVars
  <2>2. Elements(logEvents)' = Elements(logEvents)
    BY <1>5
  <2> QED
    BY <1>1, <1>2, <1>4, <1>5, <2>1, <2>2, CoverKept DEF SerialInv
<1>8. AckedIsStored'
  BY <1>1, <1>5 DEF SerialInv, AckedIsStored, queueVars
<1> QED
  BY <1>6, <1>7, <1>8 DEF SerialInv

-----------------------------------------------------------------------------
(* The Received handler                                                      *)

\* A handler starts only when no flow is at work, and holds its delivery.
LEMMA ReceiveSerial ==
  ASSUME Serial, SerialInv, BatchInv', NEW h \in Handlers, Receive(h)
  PROVE  SerialInv'
<1>1. h \in Flows /\ \A g \in Flows : Idle(g)
  BY FlowKinds DEF Receive, MayStart, Serial
<1>2. UNCHANGED <<rows, logEvents, eager, settled>>
  BY DEF Receive, Deliver, sinkVars
<1>3. Stored' = Stored /\ Elements(logEvents)' = Elements(logEvents)
  BY <1>2 DEF Stored
<1>4. AckedIsStored'
  BY <1>2, <1>3 DEF SerialInv, AckedIsStored
<1>5. \A d \in unacked : d.msg \in Undecodable \cup Stored \cup Elements(logEvents)
  BY <1>1, FlowKinds DEF SerialInv, CoverInv, Held, Idle
<1> PICK m \in Messages :
      /\ unacked' = unacked \cup {[tag |-> nextTag, msg |-> m]}
      /\ IF m \in Undecodable
         THEN UNCHANGED <<pc, delivery>>
         ELSE /\ delivery' = [delivery EXCEPT ![h] = [tag |-> nextTag, msg |-> m]]
              /\ Goto(h, IF eager THEN "eagerWrite" ELSE "add")
  BY DEF Receive, Deliver
<1> DEFINE new == [tag |-> nextTag, msg |-> m]
           first == IF eager THEN "eagerWrite" ELSE "add"
<1>6. new.msg = m /\ unacked' = unacked \cup {new}
  OBVIOUS
<1>7. CASE m \in Undecodable /\ UNCHANGED pc
  <2>1. Alone' /\ \A g \in Flows : ProgressInv(g)'
    BY <1>1, <1>7 DEF Alone, ProgressInv, Idle
  <2>2. CoverInv'
    BY <1>3, <1>5, <1>6, <1>7 DEF CoverInv
  <2> QED
    BY <1>4, <2>1, <2>2 DEF SerialInv
<1>8. CASE delivery' = [delivery EXCEPT ![h] = new] /\ Goto(h, first)
  <2>1. first \in {"eagerWrite", "add"} /\ (first = "eagerWrite" => eager)
    OBVIOUS
  <2> HIDE DEF new, first
  <2>2. pc'[h] = first /\ delivery'[h] = new
    BY <1>1, <1>8 DEF Goto, SerialInv, BatchInv, TypeOK, StepsOK
  <2>3. ProgressInv(h)'
    BY <1>2, <2>1, <2>2 DEF ProgressInv
  <2>4. OnlyFlow(h) /\ StepsOK
    BY <1>1 DEF OnlyFlow, SerialInv, BatchInv, TypeOK
  <2>5. Alone' /\ \A g \in Flows : ProgressInv(g)'
    BY <1>1, <1>8, <2>3, <2>4, OnlyFlowMoves
  <2>6. ASSUME NEW d \in unacked', d = new PROVE Held(d)'
    BY <2>1, <2>2, <2>6 DEF Held
  <2>7. CoverInv'
    BY <1>3, <1>5, <1>6, <2>6 DEF CoverInv
  <2> QED
    BY <1>4, <2>5, <2>7 DEF SerialInv
<1> QED
  BY <1>7, <1>8

\* The first event is written before it is acknowledged: a write that could
\* fail is excluded.
LEMMA EagerWriteSerial ==
  ASSUME Serial, SerialInv, BatchInv', NEW h \in Handlers, EagerWrite(h)
  PROVE  SerialInv'
<1>1. h \in Flows /\ pc[h] = "eagerWrite" /\ eager
  BY FlowKinds DEF EagerWrite, SerialInv, ProgressInv
<1>2. OnlyFlow(h) /\ BatchInv /\ StepsOK
  BY <1>1, BusyIsAlone DEF SerialInv, BatchInv, TypeOK, Idle
<1>3. Unwritable = {} /\ "sql" \notin FaultKinds
  BY <1>1, <1>2 DEF BatchInv, EagerInv, Serial
<1>4. /\ InsertRows(<<delivery[h].msg>>)
      /\ Goto(h, "eagerAck")
      /\ UNCHANGED <<queueVars, logEvents, eager>>
  BY <1>3 DEF EagerWrite, InsertCommits, InsertThrows, Fault
<1>5. delivery[h].msg \in Messages
  BY <1>1 DEF SerialInv, BatchInv, DeliveryInv, Deliveries, Idle
<1>6. SinkTypeOK /\ SinkTypeOK'
  BY <1>2 DEF BatchInv, TypeOK
<1>7. Stored \subseteq Stored' /\ delivery[h].msg \in Stored'
  <2>1. /\ \A m \in Messages : rows'[m] >= rows[m]
        /\ rows'[delivery[h].msg] > 0
    BY <1>4, <1>5, <1>6, InsertOneEffect DEF SinkTypeOK
  <2> QED
    BY <1>5, <1>6, <2>1, StoredGrows DEF Stored
<1>8. pc'[h] = "eagerAck"
  BY <1>1, <1>2, <1>4 DEF Goto, StepsOK
<1>9. ProgressInv(h)'
  BY <1>1, <1>4, <1>8 DEF ProgressInv
<1>10. Alone' /\ \A g \in Flows : ProgressInv(g)'
  BY <1>1, <1>2, <1>4, <1>9, OnlyFlowMoves
<1>11. CoverInv'
  <2>1. unacked' = unacked /\ Elements(logEvents)' = Elements(logEvents)
    BY <1>4 DEF queueVars
  <2> QED
    BY <1>1, <1>2, <1>4, <1>7, <2>1, CoverKept DEF SerialInv
<1>12. AckedIsStored'
  BY <1>4, <1>7 DEF SerialInv, AckedIsStored, queueVars
<1> QED
  BY <1>10, <1>11, <1>12 DEF SerialInv

\* A flow that acknowledges what it has written, or finds the channel closed.
LEMMA AckSerial ==
  ASSUME SerialInv, BatchInv', NEW f \in Flows, pc[f] \in {"eagerAck", "written"},
         Elements(logEvents) \subseteq Stored,
         NEW tag, BasicAck(tag, TRUE) \/ UNCHANGED queueVars,
         NEW label \in {"clear", "idle"}, Goto(f, label), UNCHANGED <<rows, logEvents>>
  PROVE  SerialInv'
<1>1. OnlyFlow(f) /\ BatchInv /\ StepsOK
  BY BusyIsAlone DEF SerialInv, BatchInv, TypeOK, Idle
<1>2. AckedIsStored' /\ unacked' \subseteq unacked
  <2>1. CASE BasicAck(tag, TRUE)
    BY <1>1, <2>1, AckSettlesStored DEF SerialInv
  <2>2. CASE UNCHANGED queueVars
    BY <2>2 DEF SerialInv, AckedIsStored, Stored, queueVars
  <2> QED
    BY <2>1, <2>2
<1>3. Stored' = Stored /\ Elements(logEvents)' = Elements(logEvents)
  BY DEF Stored
<1>4. pc'[f] = label
  BY <1>1 DEF Goto, StepsOK
<1>5. ProgressInv(f)'
  BY <1>3, <1>4 DEF ProgressInv
<1>6. Alone' /\ \A g \in Flows : ProgressInv(g)'
  BY <1>1, <1>5, OnlyFlowMoves
<1>7. CoverInv'
  BY <1>1, <1>2, <1>3, CoverKept DEF SerialInv
<1> QED
  BY <1>2, <1>6, <1>7 DEF SerialInv

\* A step that neither writes nor acknowledges: it leaves the list, or clears it
\* once every element is in the table.
LEMMA QuietSerial ==
  ASSUME SerialInv, BatchInv', NEW f \in Flows,
         pc[f] \in {"clear", "failed", "add", "remember", "count"}, NEW label, Goto(f, label),
         UNCHANGED <<queueVars, rows>>,
         UNCHANGED logEvents \/ (pc[f] = "clear" /\ logEvents' = <<>>),
         pc[f] = "add" => label = "store" /\ delivery' = delivery,
         ProgressInv(f)'
  PROVE  SerialInv'
<1>1. OnlyFlow(f) /\ BatchInv /\ StepsOK
  BY BusyIsAlone DEF SerialInv, BatchInv, TypeOK, Idle
<1>2. Stored' = Stored /\ unacked' = unacked
  BY DEF Stored, queueVars
<1>3. Elements(logEvents) \subseteq Stored' \cup Elements(logEvents)'
  BY <1>2 DEF SerialInv, ProgressInv
<1>4. Alone' /\ \A g \in Flows : ProgressInv(g)'
  BY <1>1, OnlyFlowMoves
<1>5. CoverInv'
  BY <1>1, <1>2, <1>3, CoverKept DEF SerialInv
<1>6. AckedIsStored'
  BY <1>2 DEF SerialInv, AckedIsStored, queueVars
<1> QED
  BY <1>4, <1>5, <1>6 DEF SerialInv

\* The Add of a handler that is alone appends its event.
LEMMA AddEndSerial ==
  ASSUME SerialInv, BatchInv', NEW h \in Handlers, AddEnd(h)
  PROVE  SerialInv'
<1>1. h \in Flows /\ pc[h] = "store" /\ Goto(h, "remember") /\ UNCHANGED <<queueVars, sinkVars>>
  BY FlowKinds DEF AddEnd
<1>2. OnlyFlow(h) /\ BatchInv /\ StepsOK /\ logEvents \in Seq(ListElements)
  BY <1>1, BusyIsAlone DEF SerialInv, BatchInv, TypeOK, WriterTypeOK, Idle
<1>3. addAt[h] = Len(logEvents)
  BY <1>1 DEF SerialInv, ProgressInv
<1> DEFINE n == addAt[h] + 1
           added == [i \in 1 .. n |->
                       CASE i = n -> delivery[h].msg
                         [] i < n /\ i <= Len(logEvents) -> logEvents[i]
                         [] OTHER -> NoEvent]
<1>4. logEvents' = added
  BY <1>2, <1>3 DEF AddEnd
<1>5. Elements(logEvents) \subseteq Elements(added) /\ delivery[h].msg \in Elements(added)
  <2>1. DOMAIN added = 1 .. n
    OBVIOUS
  <2>2. \A i \in DOMAIN logEvents : i \in DOMAIN added /\ added[i] = logEvents[i]
    BY <1>2, <1>3
  <2>3. n \in DOMAIN added /\ added[n] = delivery[h].msg
    BY <1>2, <1>3
  <2> HIDE DEF added, n
  <2> QED
    BY <2>2, <2>3 DEF Elements
<1> HIDE DEF added, n
<1>6. pc'[h] = "remember" /\ ProgressInv(h)'
  BY <1>1, <1>2 DEF Goto, StepsOK, ProgressInv
<1>7. Alone' /\ \A g \in Flows : ProgressInv(g)'
  BY <1>1, <1>2, <1>6, OnlyFlowMoves
<1>8. Stored' = Stored /\ unacked' = unacked
  BY <1>1 DEF Stored, sinkVars, queueVars
<1>9. CoverInv'
  BY <1>1, <1>2, <1>4, <1>5, <1>8, CoverKept DEF SerialInv
<1>10. AckedIsStored'
  BY <1>1, <1>8 DEF SerialInv, AckedIsStored, queueVars
<1> QED
  BY <1>7, <1>9, <1>10 DEF SerialInv

LEMMA HandlerSerial ==
  ASSUME Serial, SerialInv, BatchInv', NEW h \in Handlers, HandlerStep(h)
  PROVE  SerialInv'
<1>1. h \in Flows /\ BatchInv /\ StepsOK /\ ProgressInv(h)
  BY FlowKinds DEF SerialInv, BatchInv, TypeOK
<1>2. CASE EagerWrite(h)
  BY <1>2, EagerWriteSerial
<1>3. CASE EagerAck(h)
  <2>1. Elements(logEvents) \subseteq Stored
    BY <1>1, <1>3 DEF EagerAck, ProgressInv, BatchInv, EagerInv, Elements
  <2> QED
    BY <1>1, <1>3, <2>1, AckSerial DEF EagerAck, Finish, sinkVars, queueVars
<1>4. CASE AddBegin(h)
  <2>1. pc[h] = "add" /\ pc'[h] = "store" /\ addAt'[h] = Len(logEvents)
        /\ UNCHANGED <<logEvents, delivery>>
    BY <1>1, <1>4 DEF AddBegin, Goto, StepsOK, BatchInv, TypeOK
  <2>2. ProgressInv(h)'
    BY <2>1 DEF ProgressInv
  <2> QED
    BY <1>1, <1>4, <2>1, <2>2, QuietSerial DEF AddBegin, sinkVars
<1>5. CASE AddEnd(h)
  BY <1>5, AddEndSerial
<1>6. CASE Remember(h)
  <2>1. pc[h] = "remember" /\ pc'[h] = "count"
    BY <1>1, <1>6 DEF Remember, Goto, StepsOK
  <2>2. ProgressInv(h)'
    BY <2>1 DEF ProgressInv
  <2> QED
    BY <1>1, <1>6, <2>1, <2>2, QuietSerial DEF Remember, sinkVars
<1>7. CASE CountEvents(h)
  <2>1. pc[h] = "count" /\ \E label : Goto(h, label)
    BY <1>7 DEF CountEvents, CallWriteBatch, Finish
  <2>2. ProgressInv(h)'
    <3>1. CASE CallWriteBatch(h)
      <4>1. pc'[h] \in {"enter", "open"} /\ index'[h] = 0
        BY <1>1, <3>1
           DEF CallWriteBatch, Goto, WriteBatchEntry, StepsOK, BatchInv, TypeOK, WriterTypeOK
      <4>2. Visited(h)' = {}
        BY <1>1, <1>7, <4>1 DEF CountEvents, Visited, BatchInv, TypeOK, WriterTypeOK
      <4> QED
        BY <4>1, <4>2 DEF ProgressInv
    <3>2. CASE Finish(h)
      BY <1>1, <3>2 DEF Finish, Goto, StepsOK, ProgressInv
    <3> QED
      BY <1>7, <3>1, <3>2 DEF CountEvents
  <2> QED
    BY <1>1, <1>7, <2>1, <2>2, QuietSerial DEF CountEvents, sinkVars
<1>8. CASE HandlerAck(h)
  <2>1. Elements(logEvents) \subseteq Stored
    BY <1>1, <1>8 DEF HandlerAck, ProgressInv
  <2> QED
    BY <1>1, <1>8, <2>1, AckSerial DEF HandlerAck, Finish, sinkVars
<1>9. CASE HandlerClear(h) \/ HandlerFails(h)
  <2>1. pc[h] \in {"clear", "failed"} /\ Goto(h, "idle")
    BY <1>9 DEF HandlerClear, HandlerFails, Finish
  <2>2. ProgressInv(h)'
    BY <1>1, <2>1 DEF Goto, StepsOK, ProgressInv
  <2>3. /\ UNCHANGED <<queueVars, rows>>
        /\ UNCHANGED logEvents \/ (pc[h] = "clear" /\ logEvents' = <<>>)
    BY <1>9 DEF HandlerClear, HandlerFails, sinkVars
  <2> QED
    BY <1>1, <2>1, <2>2, <2>3, QuietSerial
<1> QED
  BY <1>2, <1>3, <1>4, <1>5, <1>6, <1>7, <1>8, <1>9 DEF HandlerStep

-----------------------------------------------------------------------------
(* The timer callback                                                        *)

LEMMA ElapsedSerial ==
  ASSUME Serial, SerialInv, BatchInv', NEW t \in Timers, Elapsed(t)
  PROVE  SerialInv'
<1>1. t \in Flows /\ (\A g \in Flows : Idle(g)) /\ OnlyFlow(t)
  BY FlowKinds DEF Elapsed, MayStart, Serial, OnlyFlow
<1>2. BatchInv /\ StepsOK /\ WriterTypeOK
  BY DEF SerialInv, BatchInv, TypeOK
<1>3. UNCHANGED <<queueVars, rows, logEvents>> /\ Goto(t, WriteBatchEntry)
  BY DEF Elapsed, CallWriteBatch, sinkVars
<1>4. pc'[t] \in {"enter", "open"} /\ index'[t] = 0
  BY <1>1, <1>2 DEF Elapsed, CallWriteBatch, Goto, WriteBatchEntry, StepsOK, WriterTypeOK
<1>5. ProgressInv(t)'
  BY <1>4 DEF ProgressInv
<1>6. Alone' /\ \A g \in Flows : ProgressInv(g)'
  BY <1>1, <1>2, <1>3, <1>5, OnlyFlowMoves
<1>7. /\ Stored' = Stored /\ unacked' = unacked
      /\ Elements(logEvents)' = Elements(logEvents)
  BY <1>3 DEF Stored, queueVars
<1>8. CoverInv'
  BY <1>1, <1>2, <1>3, <1>7, FlowKinds, CoverKept DEF SerialInv
<1>9. AckedIsStored'
  BY <1>3, <1>7 DEF SerialInv, AckedIsStored, queueVars
<1> QED
  BY <1>6, <1>8, <1>9 DEF SerialInv

LEMMA TimerEndSerial ==
  ASSUME SerialInv, BatchInv', NEW t \in Timers, TimerAck(t) \/ TimerClear(t)
  PROVE  SerialInv'
<1>1. t \in Flows /\ BatchInv /\ StepsOK /\ ProgressInv(t)
  BY FlowKinds DEF SerialInv, BatchInv, TypeOK
<1>2. CASE TimerAck(t)
  <2>1. Elements(logEvents) \subseteq Stored
    BY <1>1, <1>2 DEF TimerAck, ProgressInv
  <2> QED
    BY <1>1, <1>2, <2>1, AckSerial DEF TimerAck, sinkVars
<1>3. CASE TimerClear(t)
  <2>1. ProgressInv(t)'
    BY <1>1, <1>3 DEF TimerClear, Goto, StepsOK, ProgressInv
  <2> QED
    BY <1>1, <1>3, <2>1, QuietSerial DEF TimerClear, sinkVars
<1> QED
  BY <1>2, <1>3

-----------------------------------------------------------------------------
(* The process and its connection                                            *)

\* What drops every unacknowledged delivery leaves nothing to account for.
LEMMA DropsDeliveriesSerial ==
  ASSUME SerialInv, BatchInv', unacked' = {}, UNCHANGED <<settled, rows>>,
         UNCHANGED <<writerVars, serviceVars>> \/ \A f \in Flows : pc'[f] = "idle"
  PROVE  SerialInv'
<1>1. CoverInv'
  BY DEF CoverInv
<1>2. AckedIsStored' /\ Stored' = Stored
  BY DEF SerialInv, AckedIsStored, Stored
<1>3. Alone' /\ \A f \in Flows : ProgressInv(f)'
  <2>1. CASE UNCHANGED <<writerVars, serviceVars>>
    BY <1>2, <2>1 DEF SerialInv, Alone, Idle, ProgressInv, Visited, writerVars, serviceVars
  <2>2. CASE \A f \in Flows : pc'[f] = "idle"
    BY <2>2 DEF Alone, Idle, ProgressInv
  <2> QED
    BY <2>1, <2>2
<1> QED
  BY <1>1, <1>2, <1>3 DEF SerialInv

LEMMA ProcessEndsSerial ==
  ASSUME SerialInv, BatchInv', ProcessEnds
  PROVE  SerialInv'
<1>1. /\ unacked' = {} /\ UNCHANGED <<settled, rows>>
      /\ \A f \in Flows : pc'[f] = "idle"
  BY DEF ProcessEnds, CloseChannel, Requeue
<1> QED
  BY <1>1, DropsDeliveriesSerial

\* What only opens the channel, or nothing, leaves the invariant as it was.
LEMMA NothingMovesSerial ==
  ASSUME SerialInv, BatchInv',
         UNCHANGED <<unacked, settled, rows, writerVars, eager, delivery, addAt>>
  PROVE  SerialInv'
<1>1. CoverInv'
  BY DEF SerialInv, CoverInv, Held, Stored, writerVars
<1>2. AckedIsStored'
  BY DEF SerialInv, AckedIsStored, Stored
<1>3. Alone' /\ \A f \in Flows : ProgressInv(f)'
  BY DEF SerialInv, Alone, Idle, ProgressInv, Visited, Stored, writerVars
<1> QED
  BY <1>1, <1>2, <1>3 DEF SerialInv

LEMMA EnvironmentSerial ==
  ASSUME SerialInv, BatchInv', Environment
  PROVE  SerialInv'
<1>1. CASE Kill \/ Exit
  BY <1>1, ProcessEndsSerial DEF Kill, Exit
<1>2. CASE StopAsync
  BY <1>2, DropsDeliveriesSerial DEF StopAsync, CloseChannel, Requeue
<1>3. CASE ConnectionLost
  BY <1>3, DropsDeliveriesSerial DEF ConnectionLost, LoseConnection, CloseChannel, Requeue
<1>4. CASE Restart
  BY <1>4, NothingMovesSerial DEF Restart, StartChannel, sinkVars
<1>5. CASE ConnectionRecovered
  BY <1>5, NothingMovesSerial DEF ConnectionRecovered, OpenChannel, sinkVars, serviceVars
<1> QED
  BY <1>1, <1>2, <1>3, <1>4, <1>5 DEF Environment

-----------------------------------------------------------------------------
LEMMA SerialInit ==
  Init => SerialInv
<1> SUFFICES ASSUME Init PROVE SerialInv
  OBVIOUS
<1>1. unacked = {} /\ settled = {} /\ \A f \in Flows : pc[f] = "idle"
  BY DEF Init, QueueInit, WriterInit
<1>2. Alone /\ CoverInv /\ AckedIsStored /\ \A f \in Flows : ProgressInv(f)
  BY <1>1 DEF Alone, Idle, CoverInv, AckedIsStored, ProgressInv
<1> QED
  BY <1>2, BatchInvInit DEF SerialInv

LEMMA SerialStep ==
  ASSUME Serial
  PROVE  SerialInv /\ [Next]_vars => SerialInv'
<1> SUFFICES ASSUME SerialInv, [Next]_vars PROVE SerialInv'
  OBVIOUS
<1>1. BatchInv'
  BY BatchInvStep DEF SerialInv
<1>2. ASSUME NEW h \in Handlers, Receive(h) \/ HandlerStep(h) PROVE SerialInv'
  BY <1>1, <1>2, ReceiveSerial, HandlerSerial
<1>3. ASSUME NEW t \in Timers, Elapsed(t) \/ TimerStep(t) PROVE SerialInv'
  BY <1>1, <1>3, ElapsedSerial, TimerEndSerial, ProcessEndsSerial DEF TimerStep, TimerThrows
<1>4. ASSUME NEW f \in Flows, WriteBatch(f) PROVE SerialInv'
  BY <1>1, <1>4, WriteBatchSerial
<1>5. CASE Environment
  BY <1>1, <1>5, EnvironmentSerial
<1>6. CASE UNCHANGED vars
  BY <1>1, <1>6, NothingMovesSerial DEF vars, queueVars, sinkVars, serviceVars
<1> QED
  BY <1>2, <1>3, <1>4, <1>5, <1>6 DEF Next

\* The invariant that holds when handlers and timer callbacks do not overlap.
THEOREM SerialInvariant ==
  ASSUME Serial
  PROVE  Spec => []SerialInv
  BY SerialInit, SerialStep, PTL DEF Spec

\* When handlers and timer callbacks do not overlap, an event that the broker
\* was told to forget (LoggingService.cs:49, 61, 104: BasicAck, multiple) is in
\* the table, whatever write fails and whenever the connection or the host goes.
THEOREM NothingLost ==
  ASSUME Serial
  PROVE  Spec => []AckedIsStored
<1>1. SerialInv => AckedIsStored
  BY DEF SerialInv
<1> QED
  BY <1>1, SerialInvariant, PTL

-----------------------------------------------------------------------------
(* The contract                                                              *)

\* A step that settles leaves the table alone; the others settle nothing.
LEMMA WriteOrSettle ==
  ASSUME SerialInv, [Next]_vars
  PROVE  \/ UNCHANGED settled /\ \A m \in Messages : rows'[m] >= rows[m]
         \/ UNCHANGED rows /\ settled \subseteq settled'
<1> USE DEF queueVars, sinkVars
<1>1. SinkTypeOK /\ WriterTypeOK /\ \A m \in Messages : rows[m] \in Nat
  BY DEF SerialInv, BatchInv, TypeOK, SinkTypeOK
<1>2. ASSUME NEW tag, NEW multiple, BasicAck(tag, multiple)
      PROVE  settled \subseteq settled'
  BY <1>2 DEF BasicAck, CloseChannel, Requeue
<1>3. ASSUME NEW h \in Handlers, EagerWrite(h)
      PROVE  UNCHANGED settled /\ \A m \in Messages : rows'[m] >= rows[m]
  <2>1. delivery[h].msg \in Messages
    BY <1>3 DEF EagerWrite, SerialInv, BatchInv, DeliveryInv, Deliveries, Idle
  <2>2. InsertRows(<<delivery[h].msg>>) \/ UNCHANGED rows
    BY <1>3 DEF EagerWrite, InsertCommits, InsertThrows
  <2>3. \A m \in Messages : rows'[m] >= rows[m]
    BY <1>1, <2>1, <2>2, InsertOneEffect DEF SinkTypeOK
  <2> QED
    BY <1>3, <2>3 DEF EagerWrite
<1>4. ASSUME NEW f \in Flows, WriteBatch(f)
      PROVE  UNCHANGED settled /\ \A m \in Messages : rows'[m] >= rows[m]
  BY <1>1, <1>4, WriterRows DEF WriteBatch
<1>5. ASSUME NEW h \in Handlers, Receive(h) \/ HandlerStep(h), ~EagerWrite(h)
      PROVE  UNCHANGED rows /\ settled \subseteq settled'
  BY <1>2, <1>5 DEF HandlerStep, Receive, Deliver, EagerAck, AddBegin, AddEnd, Remember,
                    CountEvents, HandlerAck, HandlerClear, HandlerFails
<1>6. ASSUME NEW t \in Timers, Elapsed(t) \/ TimerStep(t)
      PROVE  UNCHANGED rows /\ settled \subseteq settled'
  BY <1>2, <1>6 DEF TimerStep, Elapsed, TimerAck, TimerClear, TimerThrows, ProcessEnds,
                    CloseChannel, Requeue
<1>7. ASSUME Environment
      PROVE  UNCHANGED rows /\ settled \subseteq settled'
  BY <1>7 DEF Environment, Kill, StopAsync, Exit, Restart, ConnectionLost,
              ConnectionRecovered, ProcessEnds, LoseConnection, CloseChannel, Requeue,
              OpenChannel, StartChannel
<1>8. CASE UNCHANGED vars
  BY <1>8 DEF vars
<1> QED
  BY <1>3, <1>4, <1>5, <1>6, <1>7, <1>8 DEF Next

LEMMA StepKeepsContract ==
  ASSUME SerialInv, SerialInv', [Next]_vars
  PROVE  [Contract!Next]_(Contract!contractVars)
<1> USE DEF Contract!contractVars, Contract!Next
<1>1. CASE UNCHANGED settled /\ \A m \in Messages : rows'[m] >= rows[m]
  <2>1. rows \in [Messages -> 0 .. MaxRows] /\ rows' \in [Messages -> 0 .. MaxRows]
    BY DEF SerialInv, BatchInv, TypeOK, SinkTypeOK
  <2>2. Stored \subseteq Stored' /\ Stored' \in SUBSET Messages
    BY <1>1, <2>1 DEF Stored
  <2> QED
    BY <1>1, <2>2 DEF Contract!Write
<1>2. CASE UNCHANGED rows /\ settled \subseteq settled'
  <2>1. settled' \in SUBSET Messages
    BY DEF SerialInv, BatchInv, TypeOK, QueueTypeOK
  <2>2. Stored' = Stored
    BY <1>2 DEF Stored
  <2>3. settled' \ Undecodable \subseteq Stored
    BY <2>2 DEF SerialInv, AckedIsStored
  <2> QED
    BY <1>2, <2>1, <2>2, <2>3 DEF Contract!Settle
<1> QED
  BY <1>1, <1>2, WriteOrSettle

\* When handlers and timer callbacks do not overlap, the logging worker writes
\* before it settles and settles only what it has written.
THEOREM Refinement ==
  ASSUME Serial
  PROVE  Spec => KeepsContract
<1>1. Init => Contract!Init
  BY DEF Init, QueueInit, SinkInit, Stored, Contract!Init
<1> QED
  BY <1>1, StepKeepsContract, SerialInvariant, PTL DEF Spec, KeepsContract, Contract!Spec
-----------------------------------------------------------------------------
(* Acknowledgements                                                          *)

\* Either flows do not overlap at all, or there is no timer callback: then a
\* handler meets another one at work only after a recovery of the connection.
Sequenced == ~Overlap \/ Timers = {}

\* Flows that do not overlap: one is at work, with the first event only while
\* the eager option is set.
LoneInv ==
    ~Overlap =>
        /\ Alone
        /\ \A h \in Handlers : pc[h] \in {"eagerWrite", "eagerAck"} => eager

\* An acknowledgement of this tag is dropped by the client, or accepted.
Live(tag) == tag <= offset \/ \E d \in unacked : d.tag = tag

\* Tags are numbered on; a process that is down has none.
TagsInv ==
    /\ offset < nextTag
    /\ lastTag < nextTag
    /\ \A h \in Handlers : delivery[h].tag < nextTag
    /\ ~up => /\ channel = "stopped"
              /\ logEvents = <<>>
              /\ lastTag = 0
              /\ \A f \in Flows : Idle(f)
              /\ \A h \in Handlers : delivery[h].tag = 0

\* A handler whose channel is gone.
Outlived(f) == f \in Handlers /\ delivery[f].tag <= offset

\* At most one flow at work belongs to the present channel.
OneLive ==
    \A f, g \in Flows : Idle(f) \/ Idle(g) \/ f = g \/ Outlived(f) \/ Outlived(g)

\* While the channel is open, a handler can acknowledge its delivery, and a
\* timer callback the one that is remembered.
LiveInv ==
    /\ \A h \in Handlers : pc[h] \notin {"idle", "clear"} => Live(delivery[h].tag)
    /\ /\ Timers # {}
       /\ logEvents # <<>>
       /\ \A f \in Flows : pc[f] \notin {"remember", "clear"}
       => Live(lastTag)
    /\ \A t \in Timers : pc[t] \in WriterSteps => Live(lastTag)

AckInv ==
    /\ LoneInv
    /\ TagsInv
    /\ OneLive
    /\ NeverRefused
    /\ channel = "open" => LiveInv

\* The facts about types that the lemmas below need.
LEMMA TagTypes ==
  ASSUME BatchInv
  PROVE  /\ offset \in Nat /\ nextTag \in Nat /\ lastTag \in Nat
         /\ \A h \in Handlers : delivery[h].tag \in Nat
         /\ StepsOK
         /\ logEvents \in Seq(ListElements)
         /\ delivery \in [Handlers -> Deliveries \cup {NoDelivery}]
  BY DEF BatchInv, TypeOK, QueueTypeOK, WriterTypeOK, Deliveries, NoDelivery

\* A flow at work next to a timer callback, or where there are any, is alone.
LEMMA TimersAlone ==
  ASSUME Sequenced, LoneInv, Timers # {}, NEW f \in Flows, ~Idle(f)
  PROVE  OnlyFlow(f) /\ ~Overlap
  BY BusyIsAlone DEF Sequenced, LoneInv

\* A flow that moves keeps flows from overlapping.
LEMMA LoneKept ==
  ASSUME BatchInv, LoneInv, NEW f \in Flows, ~Idle(f), NEW label, Goto(f, label),
         label \in {"eagerWrite", "eagerAck"}
            => pc[f] \in {"eagerWrite", "eagerAck"} /\ eager' = eager
  PROVE  LoneInv'
<1> SUFFICES ASSUME ~Overlap PROVE Alone' /\ \A h \in Handlers :
                                      pc'[h] \in {"eagerWrite", "eagerAck"} => eager'
  BY DEF LoneInv
<1>1. OnlyFlow(f) /\ StepsOK
  BY BusyIsAlone, TagTypes DEF LoneInv
<1>2. pc'[f] = label /\ \A g \in Flows : g # f => pc'[g] = "idle"
  BY <1>1 DEF Goto, StepsOK, OnlyFlow, Idle
<1>3. Alone'
  BY <1>2 DEF Alone, Idle
<1> QED
  BY <1>2, <1>3, FlowKinds DEF LoneInv

\* A flow at work moves and leaves the queue alone.
LEMMA MoveKeepsAck ==
  ASSUME Sequenced, BatchInv, AckInv, NEW f \in Flows, ~Idle(f),
         NEW label, Goto(f, label), UNCHANGED <<queueVars, up>>,
         label \in {"eagerWrite", "eagerAck"}
            => pc[f] \in {"eagerWrite", "eagerAck"} /\ eager' = eager,
         \A h \in Handlers : \/ delivery'[h] = delivery[h]
                             \/ h = f /\ label = "idle" /\ delivery'[h].tag = 0,
         lastTag' = lastTag \/ (f \in Handlers /\ lastTag' = delivery[f].tag),
         f \in Handlers /\ label \notin {"idle", "clear"} => pc[f] # "clear",
         f \in Timers /\ label \in WriterSteps => pc[f] \in WriterSteps /\ lastTag' = lastTag,
         /\ Timers # {} /\ channel = "open" /\ logEvents' # <<>>
         /\ label \notin {"remember", "clear"}
         => Live(lastTag')
  PROVE  AckInv'
<1>1. LoneInv' /\ StepsOK
  BY LoneKept, TagTypes DEF AckInv
<1>2. pc'[f] = label /\ \A g \in Flows : g # f => pc'[g] = pc[g]
  BY <1>1 DEF Goto, StepsOK
<1>3. UNCHANGED <<unacked, nextTag, offset, channel>>
  BY DEF queueVars
<1>4. up
  BY DEF AckInv, TagsInv
<1>5. TagsInv'
  <2>1. offset' < nextTag'
    BY <1>3 DEF AckInv, TagsInv
  <2>2. 0 < nextTag
    BY TagTypes DEF AckInv, TagsInv
  <2>3. lastTag' < nextTag'
    BY <1>3 DEF AckInv, TagsInv
  <2>4. \A h \in Handlers : delivery'[h].tag < nextTag'
    BY <1>3, <2>2 DEF AckInv, TagsInv
  <2> QED
    BY <1>4, <2>1, <2>3, <2>4 DEF TagsInv
<1>6. NeverRefused'
  BY <1>3 DEF AckInv, NeverRefused
<1>7. OneLive'
  <2>1. \A g \in Flows : ~Idle(g)' => ~Idle(g) /\ (Outlived(g) => Outlived(g)')
    BY <1>2, <1>3 DEF Idle, Outlived
  <2> QED
    BY <2>1 DEF AckInv, OneLive
<1>8. ASSUME channel' = "open" PROVE LiveInv'
  <2>1. LiveInv
    BY <1>3, <1>8 DEF AckInv
  <2>2. \A h \in Handlers : pc'[h] \notin {"idle", "clear"} => Live(delivery[h].tag)'
    <3> SUFFICES ASSUME NEW h \in Handlers, pc'[h] \notin {"idle", "clear"}
                 PROVE  Live(delivery[h].tag)'
      OBVIOUS
    <3>1. delivery'[h] = delivery[h] /\ pc[h] \notin {"idle", "clear"}
      BY <1>2, FlowKinds DEF Idle
    <3>2. Live(delivery[h].tag)
      BY <2>1, <3>1 DEF LiveInv
    <3> QED
      BY <1>3, <3>1, <3>2 DEF Live
  <2>3. /\ Timers # {} /\ logEvents' # <<>>
        /\ \A g \in Flows : pc'[g] \notin {"remember", "clear"}
        => Live(lastTag)'
    BY <1>2, <1>3, <1>8 DEF Live
  <2>4. \A t \in Timers : pc'[t] \in WriterSteps => Live(lastTag)'
    <3> SUFFICES ASSUME NEW t \in Timers, pc'[t] \in WriterSteps PROVE Live(lastTag)'
      OBVIOUS
    <3>1. OnlyFlow(f)
      BY TimersAlone DEF AckInv
    <3>2. t = f
      BY <1>2, <3>1, FlowKinds DEF OnlyFlow, Idle, WriterSteps, BulkSteps
    <3>3. pc[t] \in WriterSteps /\ lastTag' = lastTag
      BY <1>2, <3>2
    <3>4. Live(lastTag)
      BY <2>1, <3>3 DEF LiveInv
    <3> QED
      BY <1>3, <3>3, <3>4 DEF Live
  <2> QED
    BY <2>2, <2>3, <2>4 DEF LiveInv
<1> QED
  BY <1>1, <1>5, <1>6, <1>7, <1>8 DEF AckInv

\* A flow acknowledges a live tag: only what it then clears is left to be
\* acknowledged by a flow of the present channel.
LEMMA AckKeepsAck ==
  ASSUME Sequenced, BatchInv, AckInv, NEW f \in Flows, ~Idle(f),
         NEW tag, BasicAck(tag, TRUE), Live(tag), tag \in Nat,
         f \in Handlers => tag = delivery[f].tag,
         NEW label \in {"clear", "idle"}, Goto(f, label),
         Timers # {} /\ label = "idle" => logEvents = <<>>,
         \A h \in Handlers : \/ delivery'[h] = delivery[h]
                             \/ h = f /\ delivery'[h].tag = 0,
         UNCHANGED <<up, lastTag, logEvents>>
  PROVE  AckInv'
<1>1. LoneInv' /\ StepsOK /\ offset \in Nat /\ nextTag \in Nat
  BY LoneKept, TagTypes DEF AckInv
<1>2. pc'[f] = label /\ \A g \in Flows : g # f => pc'[g] = pc[g]
  BY <1>1 DEF Goto, StepsOK
<1>3. UNCHANGED <<nextTag, offset, channel>> /\ (tag <= offset => UNCHANGED unacked)
  <2>1. tag <= offset => ~(tag > offset)
    BY <1>1
  <2> QED
    BY <2>1 DEF BasicAck, Live, queueVars
<1>4. up
  BY DEF AckInv, TagsInv
<1>5. TagsInv' /\ NeverRefused'
  <2>1. \A h \in Handlers : delivery'[h].tag < nextTag'
    BY <1>1, <1>3 DEF AckInv, TagsInv
  <2> QED
    BY <1>3, <1>4, <2>1 DEF AckInv, TagsInv, NeverRefused
<1>6. OneLive'
  <2>1. \A g \in Flows : ~Idle(g)' => ~Idle(g) /\ (Outlived(g) => Outlived(g)')
    BY <1>1, <1>2, <1>3 DEF Idle, Outlived
  <2> QED
    BY <2>1 DEF AckInv, OneLive
<1>7. LiveInv'
  <2>1. LiveInv
    BY DEF AckInv, BasicAck
  <2>2. ASSUME NEW h \in Handlers, pc'[h] \notin {"idle", "clear"}
        PROVE  Live(delivery[h].tag)'
    <3>1. h # f /\ h \in Flows /\ pc[h] \notin {"idle", "clear"} /\ delivery'[h] = delivery[h]
      BY <1>2, <2>2, FlowKinds
    <3>2. Live(delivery[h].tag)
      BY <2>1, <3>1 DEF LiveInv
    <3>3. CASE Outlived(h)
      BY <1>3, <3>1, <3>3 DEF Outlived, Live
    <3>4. CASE Outlived(f)
      <4>1. UNCHANGED unacked
        BY <1>3, <3>4 DEF Outlived
      <4> QED
        BY <1>3, <3>1, <3>2, <4>1 DEF Live
    <3> QED
      BY <3>1, <3>3, <3>4 DEF AckInv, OneLive, Idle
  <2>3. \A t \in Timers : pc'[t] \notin WriterSteps
    <3> SUFFICES ASSUME NEW t \in Timers, pc'[t] \in WriterSteps PROVE FALSE
      OBVIOUS
    <3>1. OnlyFlow(f)
      BY TimersAlone DEF AckInv
    <3> QED
      BY <1>2, <3>1, FlowKinds DEF OnlyFlow, Idle, WriterSteps, BulkSteps
  <2>4. Timers # {} /\ logEvents' # <<>> => pc'[f] = "clear"
    BY <1>2
  <2> QED
    BY <2>2, <2>3, <2>4 DEF LiveInv
<1> QED
  BY <1>1, <1>5, <1>6, <1>7 DEF AckInv

\* What the timer would acknowledge can be, while a flow is at work that has
\* neither to remember its delivery nor to clear the list.
LEMMA RememberedIsLive ==
  ASSUME Sequenced, AckInv, NEW f \in Flows, ~Idle(f), pc[f] \notin {"remember", "clear"},
         Timers # {}, channel = "open", logEvents # <<>>
  PROVE  Live(lastTag)
<1>1. \A g \in Flows : pc[g] \notin {"remember", "clear"}
  BY TimersAlone DEF AckInv, OnlyFlow, Idle
<1> QED
  BY <1>1 DEF AckInv, LiveInv

\* A new delivery has a tag that no other one has.
LEMMA ReceiveAck ==
  ASSUME Sequenced, BatchInv, AckInv, NEW h \in Handlers, Receive(h)
  PROVE  AckInv'
<1>1. h \in Flows /\ h \notin Timers /\ Idle(h)
  BY FlowKinds DEF Receive, MayStart
<1>2. /\ up /\ channel = "open"
      /\ UNCHANGED <<up, channel, offset, lastTag, logEvents, eager>>
      /\ nextTag' = nextTag + 1
      /\ unacked \subseteq unacked'
  BY DEF Receive, MayStart, Deliver
<1>3. /\ offset \in Nat /\ nextTag \in Nat /\ lastTag \in Nat /\ StepsOK
      /\ \A g \in Handlers : delivery[g].tag \in Nat
      /\ delivery \in [Handlers -> Deliveries \cup {NoDelivery}]
  BY TagTypes
<1>4. \A g \in Flows \ {h} : Idle(g) \/ (Outlived(g) /\ Timers = {} /\ Overlap)
  <2>1. \A g \in Handlers : Idle(g) \/ Outlived(g)
    BY DEF Receive, Outlived
  <2>2. (\A g \in Flows : Idle(g)) \/ (Timers = {} /\ Overlap)
    BY DEF Receive, MayStart, Sequenced
  <2>3. Timers = {} => Flows = Handlers
    BY LoggingServiceAssumption
  <2> QED
    BY <2>1, <2>2, <2>3
<1>5. \A g \in Flows \ {h} : pc'[g] = pc[g]
  BY <1>1, <1>3 DEF Receive, Goto, StepsOK
<1>6. \/ pc'[h] = "idle" /\ UNCHANGED delivery
      \/ /\ pc'[h] = (IF eager THEN "eagerWrite" ELSE "add")
         /\ delivery'[h].tag = nextTag
         /\ \E d \in unacked' : d.tag = nextTag
         /\ \A g \in Handlers \ {h} : delivery'[g] = delivery[g]
  <2> PICK m \in Messages :
        /\ unacked' = unacked \cup {[tag |-> nextTag, msg |-> m]}
        /\ IF m \in Undecodable
           THEN UNCHANGED <<pc, delivery>>
           ELSE /\ delivery' = [delivery EXCEPT ![h] = [tag |-> nextTag, msg |-> m]]
                /\ Goto(h, IF eager THEN "eagerWrite" ELSE "add")
    BY DEF Receive, Deliver
  <2>1. CASE UNCHANGED <<pc, delivery>>
    BY <1>1, <2>1 DEF Idle
  <2>2. CASE /\ delivery' = [delivery EXCEPT ![h] = [tag |-> nextTag, msg |-> m]]
             /\ Goto(h, IF eager THEN "eagerWrite" ELSE "add")
    <3>1. pc'[h] = (IF eager THEN "eagerWrite" ELSE "add")
      BY <1>1, <1>3, <2>2 DEF Goto, StepsOK
    <3>2. [tag |-> nextTag, msg |-> m] \in unacked'
      OBVIOUS
    <3> QED
      BY <1>3, <2>2, <3>1, <3>2
  <2> QED
    BY <2>1, <2>2
<1>7. TagsInv'
  <2>1. offset' < nextTag' /\ lastTag' < nextTag' /\ up'
    BY <1>2, <1>3 DEF AckInv, TagsInv
  <2>2. \A g \in Handlers : delivery'[g].tag < nextTag'
    BY <1>2, <1>3, <1>6 DEF AckInv, TagsInv
  <2> QED
    BY <2>1, <2>2 DEF TagsInv
<1>8. OneLive'
  <2>1. \A g \in Flows \ {h} : Idle(g)' \/ Outlived(g)'
    <3> SUFFICES ASSUME NEW g \in Flows \ {h}, ~Idle(g) PROVE Outlived(g)'
      BY <1>5 DEF Idle
    <3>1. g \in Handlers /\ delivery[g].tag <= offset
      BY <1>4 DEF Outlived
    <3>2. delivery'[g] = delivery[g]
      BY <1>6, <3>1
    <3> QED
      BY <1>2, <3>1, <3>2 DEF Outlived
  <2> QED
    BY <2>1 DEF OneLive
<1>9. LoneInv'
  <2> SUFFICES ASSUME ~Overlap PROVE LoneInv'
    BY DEF LoneInv
  <2>1. \A g \in Flows \ {h} : pc'[g] = "idle"
    BY <1>4, <1>5 DEF Idle
  <2>2. Alone'
    BY <2>1 DEF Alone, Idle
  <2> QED
    BY <1>2, <1>6, <2>1, <2>2, FlowKinds DEF LoneInv
<1>10. LiveInv'
  <2>1. LiveInv
    BY <1>2 DEF AckInv
  <2>2. \A tag : Live(tag) => Live(tag)'
    BY <1>2 DEF Live
  <2>3. \A g \in Handlers : pc'[g] \notin {"idle", "clear"} => Live(delivery[g].tag)'
    <3> SUFFICES ASSUME NEW g \in Handlers, pc'[g] \notin {"idle", "clear"}
                 PROVE  Live(delivery[g].tag)'
      OBVIOUS
    <3>1. CASE g = h
      BY <1>6, <3>1 DEF Live
    <3>2. CASE g # h
      <4>1. pc'[g] = pc[g] /\ delivery'[g] = delivery[g]
        BY <1>5, <1>6, <3>2, FlowKinds
      <4>2. Live(delivery[g].tag)
        BY <2>1, <4>1 DEF LiveInv
      <4> QED
        BY <1>2, <4>1, <4>2 DEF Live
    <3> QED
      BY <3>1, <3>2
  <2>4. Timers # {} /\ logEvents # <<>> => Live(lastTag)
    <3>1. Timers # {} => \A g \in Flows : Idle(g)
      BY <1>1, <1>4
    <3> QED
      BY <2>1, <3>1 DEF LiveInv, Idle
  <2>5. Timers # {} /\ logEvents' # <<>> => Live(lastTag)'
    BY <1>2, <2>4 DEF Live
  <2>6. \A t \in Timers : pc'[t] \notin WriterSteps
    <3>1. \A t \in Timers : pc'[t] = "idle"
      BY <1>1, <1>4, <1>5, FlowKinds DEF Idle
    <3> QED
      BY <3>1 DEF WriterSteps, BulkSteps
  <2> QED
    BY <2>3, <2>5, <2>6 DEF LiveInv
<1>11. NeverRefused'
  BY <1>2 DEF NeverRefused
<1> QED
  BY <1>2, <1>7, <1>8, <1>9, <1>10, <1>11 DEF AckInv

\* The steps of WriteBatch.
LEMMA WriteBatchAck ==
  ASSUME Sequenced, BatchInv, AckInv, NEW f \in Flows, WriteBatch(f)
  PROVE  AckInv'
<1>1. /\ WriteBatchStep(f) /\ UNCHANGED <<queueVars, serviceVars>>
      /\ StepsOK /\ WriterTypeOK
  BY DEF WriteBatch, BatchInv, TypeOK
<1>2. PICK label \in WriterSteps : Goto(f, label)
  BY <1>1, WriterMoves
<1>3. pc[f] \in WriterSteps
  BY <1>1, WriterMoves
<1>4. /\ ~Idle(f) /\ pc[f] \notin {"remember", "clear"} /\ label \notin {"remember", "clear"}
      /\ label \notin {"eagerWrite", "eagerAck"}
  BY <1>3 DEF Idle, WriterSteps, BulkSteps
<1>5. UNCHANGED <<logEvents, lastTag, delivery, up>>
  BY <1>1, WriterTypes DEF serviceVars
<1>6. Timers # {} /\ channel = "open" /\ logEvents' # <<>> => Live(lastTag')
  BY <1>4, <1>5, RememberedIsLive
<1> QED
  BY <1>1, <1>2, <1>3, <1>4, <1>5, <1>6, MoveKeepsAck

\* The steps of a handler that acknowledge.
LEMMA HandlerAcks ==
  ASSUME Sequenced, BatchInv, AckInv, NEW h \in Handlers, EagerAck(h) \/ HandlerAck(h)
  PROVE  AckInv'
<1>1. h \in Flows /\ h \notin Timers /\ pc[h] \in {"eagerAck", "written"} /\ ~Idle(h)
  BY FlowKinds DEF EagerAck, HandlerAck, Idle
<1>2. delivery \in [Handlers -> Deliveries \cup {NoDelivery}] /\ StepsOK
  BY TagTypes
<1>3. delivery[h].tag \in Nat
  BY TagTypes
<1>4. Finish(h) =>
        \A g \in Handlers : \/ delivery'[g] = delivery[g]
                            \/ g = h /\ delivery'[g].tag = 0
  BY <1>2 DEF Finish, NoDelivery
<1>5. channel = "open" => Live(delivery[h].tag)
  BY <1>1 DEF AckInv, LiveInv
<1>6. EagerAck(h) /\ Timers # {} => logEvents = <<>>
  <2>1. EagerAck(h) => pc[h] = "eagerAck"
    BY DEF EagerAck
  <2> QED
    BY <1>1, <2>1, TimersAlone DEF AckInv, LoneInv, BatchInv, EagerInv
<1>7. UNCHANGED <<up, lastTag, logEvents>>
  BY DEF EagerAck, HandlerAck
<1>8. CASE BasicAck(delivery[h].tag, TRUE)
  <2>1. Live(delivery[h].tag)
    BY <1>5, <1>8 DEF BasicAck
  <2>2. CASE EagerAck(h)
    <3>1. Finish(h) /\ Goto(h, "idle")
      BY <2>2 DEF EagerAck, Finish
    <3> QED
      BY <1>1, <1>3, <1>4, <1>6, <1>7, <1>8, <2>1, <2>2, <3>1, AckKeepsAck
  <2>3. CASE HandlerAck(h) /\ Goto(h, "clear")
    <3>1. pc' # [pc EXCEPT ![h] = "idle"]
      BY <1>1, <1>2, <2>3 DEF Goto, StepsOK
    <3>2. UNCHANGED delivery
      BY <2>3, <3>1 DEF HandlerAck, Finish, Goto
    <3> QED
      BY <1>1, <1>3, <1>7, <1>8, <2>1, <2>3, <3>2, AckKeepsAck
  <2>4. CASE HandlerAck(h) /\ ~Goto(h, "clear")
    <3>1. channel # "open"
      BY <2>4 DEF HandlerAck
    <3> QED
      BY <1>8, <3>1 DEF BasicAck
  <2> QED
    BY <2>2, <2>3, <2>4
<1>9. CASE ~BasicAck(delivery[h].tag, TRUE)
  <2>1. channel # "open" /\ UNCHANGED queueVars /\ Finish(h) /\ Goto(h, "idle")
    BY <1>9 DEF EagerAck, HandlerAck, Finish
  <2> QED
    BY <1>1, <1>4, <1>7, <2>1, MoveKeepsAck DEF WriterSteps, BulkSteps
<1> QED
  BY <1>8, <1>9

\* The other steps of a handler.
LEMMA HandlerKeepsAck ==
  ASSUME Sequenced, BatchInv, AckInv, NEW h \in Handlers, HandlerStep(h)
  PROVE  AckInv'
<1>1. h \in Flows /\ h \notin Timers
  BY FlowKinds
<1>2. delivery \in [Handlers -> Deliveries \cup {NoDelivery}] /\ StepsOK
  BY TagTypes
<1>3. Finish(h) =>
        \A g \in Handlers : \/ delivery'[g] = delivery[g]
                            \/ g = h /\ delivery'[g].tag = 0
  BY <1>2 DEF Finish, NoDelivery
<1>4. CASE EagerAck(h) \/ HandlerAck(h)
  BY <1>4, HandlerAcks
<1>5. CASE EagerWrite(h)
  <2>1. pc[h] = "eagerWrite" /\ ~Idle(h)
    BY <1>5 DEF EagerWrite, Idle
  <2>2. UNCHANGED <<queueVars, up, lastTag, logEvents, eager>>
    BY <1>5 DEF EagerWrite
  <2>3. Timers # {} => logEvents' = <<>>
    BY <1>1, <2>1, <2>2, TimersAlone DEF AckInv, LoneInv, BatchInv, EagerInv
  <2>4. CASE Goto(h, "eagerAck") /\ UNCHANGED delivery
    BY <1>1, <2>1, <2>2, <2>3, <2>4, MoveKeepsAck
  <2>5. CASE Finish(h) /\ Goto(h, "idle")
    BY <1>1, <1>3, <2>1, <2>2, <2>3, <2>5, MoveKeepsAck
  <2> QED
    BY <1>5, <2>4, <2>5 DEF EagerWrite, Finish
<1>6. CASE AddBegin(h)
  <2>1. /\ pc[h] = "add" /\ ~Idle(h) /\ Goto(h, "store")
        /\ UNCHANGED <<queueVars, up, lastTag, logEvents, delivery>>
    BY <1>6 DEF AddBegin, Idle
  <2>2. Timers # {} /\ channel = "open" /\ logEvents' # <<>> => Live(lastTag')
    BY <1>1, <2>1, RememberedIsLive
  <2> QED
    BY <1>1, <2>1, <2>2, MoveKeepsAck
<1>7. CASE AddEnd(h)
  <2>1. /\ pc[h] = "store" /\ ~Idle(h) /\ Goto(h, "remember")
        /\ UNCHANGED <<queueVars, up, lastTag, delivery>>
    BY <1>7 DEF AddEnd, Idle, serviceVars
  <2> QED
    BY <1>1, <2>1, MoveKeepsAck
<1>8. CASE Remember(h)
  <2>1. /\ pc[h] = "remember" /\ ~Idle(h) /\ Goto(h, "count") /\ lastTag' = delivery[h].tag
        /\ UNCHANGED <<queueVars, up, delivery>>
    BY <1>8 DEF Remember, Idle
  <2>2. channel = "open" => Live(lastTag')
    BY <2>1 DEF AckInv, LiveInv
  <2> QED
    BY <1>1, <2>1, <2>2, MoveKeepsAck
<1>9. CASE CountEvents(h) \/ HandlerFails(h)
  <2>1. /\ pc[h] \in {"count", "failed"} /\ ~Idle(h)
        /\ UNCHANGED <<queueVars, up, lastTag, logEvents>>
    BY <1>9 DEF CountEvents, HandlerFails, Idle
  <2>2. Timers # {} /\ channel = "open" /\ logEvents' # <<>> => Live(lastTag')
    BY <1>1, <2>1, RememberedIsLive
  <2>3. CASE Goto(h, WriteBatchEntry) /\ UNCHANGED delivery
    <3>1. WriteBatchEntry \notin {"idle", "clear", "remember", "eagerWrite", "eagerAck"}
      BY DEF WriteBatchEntry
    <3> QED
      BY <1>1, <2>1, <2>2, <2>3, <3>1, MoveKeepsAck
  <2>4. CASE Finish(h) /\ Goto(h, "idle")
    BY <1>1, <1>3, <2>1, <2>2, <2>4, MoveKeepsAck
  <2> QED
    BY <1>9, <2>3, <2>4 DEF CountEvents, CallWriteBatch, HandlerFails, Finish
<1>10. CASE HandlerClear(h)
  <2>1. /\ pc[h] = "clear" /\ ~Idle(h) /\ Finish(h) /\ Goto(h, "idle") /\ logEvents' = <<>>
        /\ UNCHANGED <<queueVars, up, lastTag>>
    BY <1>10 DEF HandlerClear, Finish, Idle
  <2> QED
    BY <1>1, <1>3, <2>1, MoveKeepsAck
<1> QED
  BY <1>4, <1>5, <1>6, <1>7, <1>8, <1>9, <1>10 DEF HandlerStep

\* A timer callback starts on a list whose last delivery can be acknowledged.
LEMMA TimerKeepsAck ==
  ASSUME Sequenced, BatchInv, AckInv, NEW t \in Timers,
         Elapsed(t) \/ TimerAck(t) \/ TimerClear(t)
  PROVE  AckInv'
<1>1. t \in Flows /\ t \notin Handlers /\ StepsOK /\ lastTag \in Nat
  BY FlowKinds, TagTypes
<1>2. CASE Elapsed(t)
  <2>1. /\ up /\ ~Overlap /\ \A g \in Flows : Idle(g)
        /\ logEvents # <<>>
        /\ Goto(t, WriteBatchEntry)
        /\ UNCHANGED <<queueVars, logEvents, serviceVars>>
    BY <1>2 DEF Elapsed, MayStart, Sequenced, CallWriteBatch
  <2>2. UNCHANGED <<up, lastTag, delivery, unacked, nextTag, offset, channel>>
    BY <2>1 DEF serviceVars, queueVars
  <2>3. \A g \in Flows : pc'[g] = "idle" \/ (g = t /\ pc'[g] = WriteBatchEntry)
    BY <1>1, <2>1 DEF Goto, StepsOK, Idle
  <2>4. channel = "open" => Live(lastTag)
    BY <2>1 DEF AckInv, LiveInv, Idle
  <2>5. TagsInv' /\ NeverRefused'
    BY <2>1, <2>2 DEF AckInv, TagsInv, NeverRefused
  <2>6. channel' = "open" => Live(lastTag)'
    BY <2>2, <2>4 DEF Live
  <2>7. \A h \in Handlers : pc'[h] = "idle"
    BY <1>1, <2>3, FlowKinds
  <2>8. LoneInv' /\ OneLive'
    BY <2>3, <2>7 DEF LoneInv, Alone, OneLive, Idle
  <2> QED
    BY <2>5, <2>6, <2>7, <2>8 DEF AckInv, LiveInv
<1>3. CASE TimerAck(t)
  <2>1. /\ pc[t] = "written" /\ ~Idle(t) /\ BasicAck(lastTag, TRUE) /\ Goto(t, "clear")
        /\ UNCHANGED <<up, lastTag, delivery, logEvents>>
    BY <1>3 DEF TimerAck, serviceVars, Idle
  <2>2. Live(lastTag)
    BY <2>1 DEF AckInv, LiveInv, BasicAck, WriterSteps
  <2> QED
    BY <1>1, <2>1, <2>2, AckKeepsAck
<1>4. CASE TimerClear(t)
  <2>1. /\ pc[t] = "clear" /\ ~Idle(t) /\ Goto(t, "idle") /\ logEvents' = <<>>
        /\ UNCHANGED <<queueVars, up, lastTag, delivery>>
    BY <1>4 DEF TimerClear, serviceVars, Idle
  <2> QED
    BY <1>1, <2>1, MoveKeepsAck DEF WriterSteps, BulkSteps
<1> QED
  BY <1>2, <1>3, <1>4

\* The surroundings that leave the flows alone keep them apart, and let the
\* handlers that were outlived stay so.
LEMMA FlowsKeptApart ==
  ASSUME BatchInv, AckInv, UNCHANGED <<pc, delivery, eager>>,
         offset' \in Nat, offset' >= offset \/ \A f \in Flows : Idle(f)
  PROVE  LoneInv' /\ OneLive'
<1>1. LoneInv'
  BY DEF AckInv, LoneInv, Alone, Idle
<1>2. offset \in Nat /\ \A h \in Handlers : delivery[h].tag \in Nat
  BY TagTypes
<1>3. CASE offset' >= offset
  <2>1. \A f \in Flows : Outlived(f) => Outlived(f)'
    BY <1>2, <1>3 DEF Outlived
  <2> QED
    BY <1>1, <2>1 DEF AckInv, OneLive, Idle
<1>4. CASE \A f \in Flows : Idle(f)
  BY <1>1, <1>4 DEF OneLive, Idle
<1> QED
  BY <1>3, <1>4

\* The surroundings close the channel, or void every tag when they open one.
LEMMA EnvironmentKeepsAck ==
  ASSUME BatchInv, AckInv, Environment \/ \E t \in Timers : TimerThrows(t)
  PROVE  AckInv'
<1>1. /\ offset \in Nat /\ nextTag \in Nat /\ lastTag \in Nat
      /\ \A h \in Handlers : delivery[h].tag \in Nat
  BY TagTypes
<1>2. CASE ProcessEnds
  <2>1. /\ channel' = "stopped" /\ logEvents' = <<>> /\ lastTag' = 0
        /\ pc' = [f \in Flows |-> "idle"]
        /\ delivery' = [h \in Handlers |-> NoDelivery]
        /\ UNCHANGED <<offset, nextTag>>
    BY <1>2 DEF ProcessEnds, CloseChannel, Requeue
  <2>2. 0 < nextTag
    BY <1>1 DEF AckInv, TagsInv
  <2>3. LoneInv' /\ OneLive'
    BY <2>1, FlowKinds DEF LoneInv, Alone, OneLive, Idle
  <2> QED
    BY <2>1, <2>2, <2>3 DEF AckInv, TagsInv, NeverRefused, Idle, NoDelivery
<1>3. CASE StopAsync
  <2>1. /\ up /\ channel' = "stopped"
        /\ UNCHANGED <<offset, nextTag, lastTag, delivery, up, pc, eager>>
    BY <1>3 DEF StopAsync, CloseChannel, Requeue, serviceVars, writerVars
  <2>2. LoneInv' /\ OneLive'
    BY <1>1, <2>1, FlowsKeptApart
  <2> QED
    BY <2>1, <2>2 DEF AckInv, TagsInv, NeverRefused
<1>4. CASE ConnectionLost
  <2>1. /\ up /\ channel' = "lost" /\ offset' = nextTag - 1
        /\ UNCHANGED <<nextTag, lastTag, delivery, up, pc, eager>>
    BY <1>4 DEF ConnectionLost, LoseConnection, CloseChannel, Requeue, serviceVars, writerVars
  <2>2. offset' \in Nat /\ offset' >= offset
    BY <1>1, <2>1 DEF AckInv, TagsInv
  <2>3. LoneInv' /\ OneLive'
    BY <2>1, <2>2, FlowsKeptApart
  <2> QED
    BY <1>1, <2>1, <2>3 DEF AckInv, TagsInv, NeverRefused
<1>5. CASE ConnectionRecovered
  <2>1. /\ up /\ channel' = "open" /\ offset' = nextTag - 1
        /\ UNCHANGED <<nextTag, lastTag, delivery, up, pc, eager>>
    BY <1>5 DEF ConnectionRecovered, OpenChannel, serviceVars, writerVars
  <2>2. TagsInv' /\ NeverRefused'
    BY <1>1, <2>1 DEF AckInv, TagsInv, NeverRefused
  <2>3. lastTag' <= offset' /\ \A h \in Handlers : delivery'[h].tag <= offset'
    BY <1>1, <2>1 DEF AckInv, TagsInv
  <2>4. offset' \in Nat /\ offset' >= offset
    BY <1>1, <2>1 DEF AckInv, TagsInv
  <2>5. LoneInv' /\ OneLive'
    BY <2>1, <2>4, FlowsKeptApart
  <2> QED
    BY <2>2, <2>3, <2>5 DEF AckInv, LiveInv, Live
<1>6. CASE Restart
  <2>1. /\ ~up /\ up' /\ channel' = "open" /\ offset' = 0 /\ nextTag' = 1
        /\ UNCHANGED <<logEvents, pc, lastTag, delivery, eager>>
    BY <1>6 DEF Restart, StartChannel, writerVars
  <2>2. /\ lastTag = 0 /\ logEvents = <<>>
        /\ \A h \in Handlers : delivery[h].tag = 0
        /\ \A f \in Flows : pc[f] = "idle"
    BY <2>1 DEF AckInv, TagsInv, Idle
  <2>3. TagsInv' /\ NeverRefused'
    BY <2>1, <2>2 DEF TagsInv, NeverRefused
  <2>4. LiveInv'
    BY <2>1, <2>2, FlowKinds DEF LiveInv, Live, WriterSteps, BulkSteps
  <2>5. LoneInv' /\ OneLive'
    BY <2>1, <2>2, FlowsKeptApart DEF Idle
  <2> QED
    BY <2>3, <2>4, <2>5 DEF AckInv
<1> QED
  BY <1>2, <1>3, <1>4, <1>5, <1>6 DEF Environment, Kill, Exit, TimerThrows

LEMMA AckInvInit ==
  Init => AckInv
<1> SUFFICES ASSUME Init PROVE AckInv
  OBVIOUS
<1>1. /\ offset = 0 /\ nextTag = 1 /\ lastTag = 0 /\ channel = "open" /\ up /\ logEvents = <<>>
      /\ \A f \in Flows : pc[f] = "idle"
      /\ \A h \in Handlers : delivery[h].tag = 0
  BY DEF Init, QueueInit, WriterInit, ServiceInit, NoDelivery
<1>2. TagsInv /\ NeverRefused
  BY <1>1 DEF TagsInv, NeverRefused
<1>3. LiveInv
  BY <1>1, FlowKinds DEF LiveInv, WriterSteps, BulkSteps
<1>4. LoneInv /\ OneLive
  BY <1>1, FlowKinds DEF LoneInv, Alone, OneLive, Idle
<1> QED
  BY <1>2, <1>3, <1>4 DEF AckInv

LEMMA AckInvStep ==
  ASSUME Sequenced
  PROVE  BatchInv /\ AckInv /\ [Next]_vars => AckInv'
<1> SUFFICES ASSUME BatchInv, AckInv, [Next]_vars PROVE AckInv'
  OBVIOUS
<1>1. ASSUME NEW h \in Handlers, Receive(h) \/ HandlerStep(h) PROVE AckInv'
  BY <1>1, ReceiveAck, HandlerKeepsAck
<1>2. ASSUME NEW t \in Timers, Elapsed(t) \/ TimerStep(t) PROVE AckInv'
  BY <1>2, TimerKeepsAck, EnvironmentKeepsAck DEF TimerStep
<1>3. ASSUME NEW f \in Flows, WriteBatch(f) PROVE AckInv'
  BY <1>3, WriteBatchAck
<1>4. CASE Environment
  BY <1>4, EnvironmentKeepsAck
<1>5. CASE UNCHANGED vars
  BY <1>5 DEF vars, queueVars, writerVars, serviceVars, AckInv, LoneInv, Alone, OneLive,
              Outlived, TagsInv, NeverRefused, LiveInv, Live, Idle
<1> QED
  BY <1>1, <1>2, <1>3, <1>4, <1>5 DEF Next

THEOREM AcksInvariant ==
  ASSUME Sequenced
  PROVE  Spec => [](BatchInv /\ AckInv)
  BY AckInvInit, AckInvStep, BatchInvariant, PTL DEF Spec

\* The worker never acknowledges a delivery that the broker no longer waits
\* for, although handlers and timer callbacks acknowledge cumulatively
\* (LoggingService.cs:49, 61, 104): when they do not overlap, and also when,
\* without a timer callback at work, the handlers of a lost channel go on next
\* to those of the recovered one.
THEOREM AcksAccepted ==
  ASSUME Sequenced
  PROVE  Spec => []NeverRefused
<1>1. AckInv => NeverRefused
  BY DEF AckInv
<1> QED
  BY <1>1, AcksInvariant, PTL

-----------------------------------------------------------------------------
(* The limit of a batch                                                      *)

\* Where a flow has rows in the DataTable, and where it is before it has put
\* its event into the list.
Filling == {"fill", "row", "connect", "copy"}
Early == {"idle", "eagerWrite", "eagerAck", "add", "store"}

\* A flow goes through the list, whose elements are in the DataTable at most
\* once; nothing fails.
FlowLimits(f) ==
    /\ pc[f] # "failed"
    /\ pc[f] = "store" => addAt[f] = Len(logEvents)
    /\ pc[f] \in {"enter", "open"} => index[f] = 0
    /\ pc[f] \in {"copy", "insert"} => ~modified[f]
    /\ pc[f] \in Filling => Len(eventTable) <= index[f]
    /\ pc[f] \in Filling \cup {"insert"} => index[f] <= Len(logEvents)
    /\ pc[f] = "row" => index[f] < Len(logEvents)
    /\ index[f] <= BatchPostingLimit
    /\ Len(copied[f]) <= BatchPostingLimit

\* The list is full only while the flow that filled it has not cleared it.
ListLimits ==
    /\ \A i \in DOMAIN logEvents : logEvents[i] # NoEvent
    /\ Len(logEvents) <= BatchPostingLimit
    /\ (\A f \in Flows : pc[f] \in Early) => Len(logEvents) < BatchPostingLimit
    /\ (\A f \in Flows : pc[f] \notin Filling) => eventTable = <<>>

LimitInv ==
    faults = 0 =>
        /\ up /\ channel = "open" /\ offset = 0
        /\ Alone
        /\ ListLimits
        /\ \A f \in Flows : FlowLimits(f)

\* The facts about types that the lemmas below need.
LEMMA LimitTypes ==
  ASSUME BatchInv
  PROVE  /\ StepsOK
         /\ faults \in Nat
         /\ logEvents \in Seq(ListElements) /\ Len(logEvents) \in Nat
         /\ eventTable \in Seq(Messages) /\ Len(eventTable) \in Nat
         /\ index \in [Flows -> Nat]
         /\ copied \in [Flows -> Seq(Messages)]
         /\ modified \in [Flows -> BOOLEAN]
         /\ BatchPostingLimit \in Nat \ {0}
<1>1. StepsOK /\ SinkTypeOK /\ WriterTypeOK
  BY DEF BatchInv, TypeOK
<1>2. faults \in Nat
  BY <1>1, LogEventsAssumption DEF SinkTypeOK
<1> QED
  BY <1>1, <1>2, LoggingServiceAssumption DEF WriterTypeOK

\* Faults are counted, never forgotten.
LEMMA FaultsGrow ==
  ASSUME faults \in Nat, [Next]_vars, faults' = 0
  PROVE  faults = 0
<1>1. \A kind : Fault(kind) => faults' = faults + 1
  BY DEF Fault
<1>2. ASSUME NEW f, WriteBatch(f) PROVE faults' = faults \/ Fault("sql")
  BY <1>2 DEF WriteBatch, WriteBatchStep, FillEnter, FillTest, FillRow, BeginCopy, CopyDone,
              BulkFails, InsertOpen, InsertNext, sinkVars
<1>3. ASSUME NEW h, Receive(h) \/ HandlerStep(h) PROVE faults' = faults \/ Fault("sql")
  BY <1>3 DEF Receive, HandlerStep, EagerWrite, EagerAck, AddBegin, AddEnd, Remember,
              CountEvents, HandlerAck, HandlerClear, HandlerFails, InsertCommits,
              InsertThrows, sinkVars
<1>4. ASSUME NEW t, Elapsed(t) \/ TimerStep(t) PROVE faults' = faults
  BY <1>4 DEF Elapsed, TimerStep, TimerAck, TimerClear, TimerThrows, sinkVars
<1>5. Environment => faults' = faults \/ \E kind : Fault(kind)
  BY DEF Environment, Kill, StopAsync, Exit, Restart, ConnectionLost, ConnectionRecovered,
         sinkVars
<1>6. UNCHANGED vars => faults' = faults
  BY DEF vars, sinkVars
<1>7. faults' = faults \/ \E kind : Fault(kind)
  BY <1>2, <1>3, <1>4, <1>5, <1>6, Zenon DEF Next
<1> QED
  BY <1>1, <1>7

\* The only flow moves: what it does to the list and to its own batch has to be
\* looked at.
LEMMA LimitKept ==
  ASSUME BatchInv, NEW f \in Flows, OnlyFlow(f), NEW label, Goto(f, label),
         up', channel' = "open", offset' = 0,
         \A g \in Flows : g # f => index'[g] = index[g] /\ copied'[g] = copied[g],
         \A g \in Flows : FlowLimits(g),
         FlowLimits(f)',
         \A i \in DOMAIN logEvents' : logEvents'[i] # NoEvent,
         Len(logEvents') <= BatchPostingLimit,
         label \in Early => Len(logEvents') < BatchPostingLimit,
         label \notin Filling => eventTable' = <<>>
  PROVE  LimitInv'
<1>1. pc'[f] = label /\ \A g \in Flows : g # f => pc'[g] = "idle"
  BY LimitTypes DEF Goto, StepsOK, OnlyFlow, Idle
<1>2. ListLimits'
  BY <1>1 DEF ListLimits
<1>3. ASSUME NEW g \in Flows, g # f PROVE FlowLimits(g)'
  <2>1. pc'[g] \notin Filling \cup {"failed", "store", "enter", "open", "copy", "insert", "row"}
    BY <1>1, <1>3 DEF Filling
  <2>2. index'[g] <= BatchPostingLimit /\ Len(copied'[g]) <= BatchPostingLimit
    BY <1>3 DEF FlowLimits
  <2> QED
    BY <2>1, <2>2 DEF FlowLimits
<1>4. Alone'
  BY <1>1 DEF Alone, Idle
<1> QED
  BY <1>2, <1>3, <1>4 DEF LimitInv

\* The bulk writer fills the DataTable with the list, and copies that.
LEMMA BulkLimits ==
  ASSUME BatchInv, Unwritable = {}, LimitInv, faults = 0, faults' = 0,
         NEW f \in Flows, WriteBatch(f),
         FillEnter(f) \/ FillTest(f) \/ FillRow(f) \/ BeginCopy(f) \/ CopyDone(f) \/ BulkFails(f)
  PROVE  LimitInv'
<1>1. /\ StepsOK /\ WriterTypeOK
      /\ UNCHANGED <<logEvents, up, channel, offset>>
  BY LimitTypes, WriterTypes DEF BatchInv, TypeOK, WriteBatch, queueVars, serviceVars
<1>2. /\ up /\ channel = "open" /\ offset = 0 /\ Alone /\ ListLimits /\ FlowLimits(f)
      /\ \A g \in Flows : FlowLimits(g)
  BY DEF LimitInv
<1>3. ~Idle(f) /\ pc[f] \in WriterSteps
  BY WriterMoves, <1>1 DEF WriteBatch, WriterSteps, BulkSteps, Idle
<1>4. OnlyFlow(f)
  BY <1>2, <1>3, BusyIsAlone
<1>5. \A g \in Flows : g # f => pc[g] \notin Filling
  BY <1>4 DEF OnlyFlow, Idle, Filling
<1>6. /\ \A i \in DOMAIN logEvents' : logEvents'[i] # NoEvent
      /\ Len(logEvents') <= BatchPostingLimit
  BY <1>1, <1>2 DEF ListLimits
<1>7. /\ index[f] \in Nat /\ copied[f] \in Seq(Messages) /\ eventTable \in Seq(Messages)
      /\ Len(eventTable) \in Nat /\ Len(logEvents) \in Nat /\ BatchPostingLimit \in Nat \ {0}
      /\ index \in [Flows -> Nat] /\ copied \in [Flows -> Seq(Messages)]
      /\ logEvents \in Seq(ListElements)
      /\ modified \in [Flows -> BOOLEAN]
  BY LimitTypes
<1>8. ~Fault("sql")
  BY DEF Fault
<1>9. CASE FillEnter(f)
  <2>1. /\ pc[f] = "enter" /\ Goto(f, "fill")
        /\ UNCHANGED <<eventTable, index, copied, modified>>
    BY <1>9 DEF FillEnter
  <2>2. eventTable = <<>> /\ index[f] = 0
    BY <1>2, <1>5, <2>1 DEF ListLimits, Filling, FlowLimits
  <2>3. pc'[f] = "fill"
    BY <1>1, <2>1 DEF Goto, StepsOK
  <2>4. FlowLimits(f)'
    BY <1>1, <1>2, <1>7, <2>1, <2>2, <2>3 DEF FlowLimits, Filling
  <2>5. "fill" \in Filling /\ "fill" \notin Early
    BY DEF Filling, Early
  <2> QED
    BY <1>1, <1>2, <1>4, <1>6, <2>1, <2>4, <2>5, LimitKept
<1>10. CASE FillTest(f)
  <2>1. pc[f] = "fill" /\ UNCHANGED <<eventTable, index, copied, modified>>
    BY <1>10 DEF FillTest
  <2>2. PICK label \in {"row", "connect"} :
          Goto(f, label) /\ (label = "row" => index[f] < Len(logEvents))
    BY <1>10 DEF FillTest
  <2>3. pc'[f] = label
    BY <1>1, <2>2 DEF Goto, StepsOK
  <2>4. FlowLimits(f)'
    BY <1>1, <1>2, <2>1, <2>2, <2>3 DEF FlowLimits, Filling
  <2>5. label \in Filling /\ label \notin Early
    BY DEF Filling, Early
  <2> QED
    BY <1>1, <1>2, <1>4, <1>6, <2>1, <2>2, <2>4, <2>5, LimitKept
<1>11. CASE FillRow(f)
  <2>1. pc[f] = "row" /\ index[f] + 1 \in DOMAIN logEvents
    BY <1>2, <1>7, <1>11 DEF FillRow, FlowLimits
  <2>2. Writable(index[f] + 1)
    BY <1>2, <2>1 DEF Writable, ListLimits
  <2>3. /\ eventTable' = Append(eventTable, logEvents[index[f] + 1])
        /\ index' = [index EXCEPT ![f] = index[f] + 1]
        /\ Goto(f, "fill")
        /\ UNCHANGED copied
    BY <1>11, <2>2 DEF FillRow
  <2>4. Len(eventTable') = Len(eventTable) + 1
    BY <1>7, <2>3
  <2>5. pc'[f] = "fill" /\ index'[f] = index[f] + 1
    BY <1>1, <1>7, <2>3 DEF Goto, StepsOK
  <2>6. index[f] < Len(logEvents) /\ Len(eventTable) <= index[f]
        /\ Len(logEvents) <= BatchPostingLimit /\ Len(copied[f]) <= BatchPostingLimit
    BY <1>2, <2>1 DEF FlowLimits, Filling, ListLimits
  <2>7. FlowLimits(f)'
    BY <1>1, <1>7, <2>3, <2>4, <2>5, <2>6 DEF FlowLimits, Filling
  <2>8. "fill" \in Filling /\ "fill" \notin Early
    BY DEF Filling, Early
  <2>9. \A g \in Flows : g # f => index'[g] = index[g] /\ copied'[g] = copied[g]
    BY <1>7, <2>3
  <2> QED
    BY <1>1, <1>2, <1>4, <1>6, <2>3, <2>7, <2>8, <2>9, LimitKept
<1>12. CASE BeginCopy(f)
  <2>1. /\ pc[f] = "connect" /\ Goto(f, "copy")
        /\ copied' = [copied EXCEPT ![f] = eventTable]
        /\ modified' = [modified EXCEPT ![f] = FALSE]
        /\ UNCHANGED <<eventTable, index>>
    BY <1>12 DEF BeginCopy
  <2>2. pc'[f] = "copy" /\ copied'[f] = eventTable /\ ~modified'[f]
    BY <1>1, <1>7, <2>1 DEF Goto, StepsOK
  <2>3. Len(eventTable) <= index[f] /\ index[f] <= BatchPostingLimit
        /\ index[f] <= Len(logEvents)
    BY <1>2, <2>1 DEF FlowLimits, Filling
  <2>4. FlowLimits(f)'
    BY <1>1, <1>7, <2>1, <2>2, <2>3 DEF FlowLimits, Filling
  <2>5. "copy" \in Filling /\ "copy" \notin Early
    BY DEF Filling, Early
  <2>6. \A g \in Flows : g # f => index'[g] = index[g] /\ copied'[g] = copied[g]
    BY <1>7, <2>1
  <2> QED
    BY <1>1, <1>2, <1>4, <1>6, <2>1, <2>4, <2>5, <2>6, LimitKept
<1>13. CASE CopyDone(f)
  <2>1. LeaveBulk(f, "written") /\ UNCHANGED index
    BY <1>13 DEF CopyDone
  <2>2. /\ eventTable' = <<>> /\ Goto(f, "written")
        /\ copied' = [copied EXCEPT ![f] = <<>>]
    BY <2>1 DEF LeaveBulk
  <2>3. pc'[f] = "written" /\ copied'[f] = <<>>
    BY <1>1, <1>7, <2>2 DEF Goto, StepsOK
  <2>4. FlowLimits(f)'
    BY <1>2, <1>7, <2>1, <2>3 DEF FlowLimits, Filling
  <2>5. "written" \notin Early
    BY DEF Early
  <2>6. \A g \in Flows : g # f => index'[g] = index[g] /\ copied'[g] = copied[g]
    BY <1>7, <2>1, <2>2
  <2> QED
    BY <1>1, <1>2, <1>4, <1>6, <2>2, <2>4, <2>5, <2>6, LimitKept
<1>14. CASE BulkFails(f)
  <2>1. pc[f] = "copy" /\ modified[f]
    BY <1>8, <1>14 DEF BulkFails
  <2> QED
    BY <1>2, <2>1 DEF FlowLimits
<1> QED
  BY <1>9, <1>10, <1>11, <1>12, <1>13, <1>14

\* The row-by-row writer goes through the list.
LEMMA InsertLimits ==
  ASSUME BatchInv, Unwritable = {}, LimitInv, faults = 0, faults' = 0,
         NEW f \in Flows, WriteBatch(f), InsertOpen(f) \/ InsertNext(f)
  PROVE  LimitInv'
<1>1. /\ StepsOK /\ WriterTypeOK
      /\ UNCHANGED <<logEvents, eventTable, copied, up, channel, offset>>
  BY LimitTypes DEF BatchInv, TypeOK, WriteBatch, queueVars, serviceVars, InsertOpen, InsertNext
<1>2. /\ up /\ channel = "open" /\ offset = 0 /\ Alone /\ ListLimits /\ FlowLimits(f)
      /\ \A g \in Flows : FlowLimits(g)
  BY DEF LimitInv
<1>3. pc[f] \in {"open", "insert"} /\ ~Idle(f)
  BY DEF InsertOpen, InsertNext, Idle
<1>4. OnlyFlow(f)
  BY <1>2, <1>3, BusyIsAlone
<1>5. eventTable = <<>>
  BY <1>2, <1>3, <1>4 DEF OnlyFlow, Idle, Filling, ListLimits
<1>6. /\ \A i \in DOMAIN logEvents' : logEvents'[i] # NoEvent
      /\ Len(logEvents') <= BatchPostingLimit
  BY <1>1, <1>2 DEF ListLimits
<1>7. /\ index[f] \in Nat /\ Len(logEvents) \in Nat /\ BatchPostingLimit \in Nat \ {0}
      /\ index \in [Flows -> Nat] /\ modified \in [Flows -> BOOLEAN]
      /\ logEvents \in Seq(ListElements)
  BY LimitTypes
<1>8. ~Fault("sql")
  BY DEF Fault
<1>9. CASE InsertOpen(f)
  <2>1. /\ pc[f] = "open" /\ Goto(f, "insert")
        /\ modified' = [modified EXCEPT ![f] = FALSE] /\ UNCHANGED index
    BY <1>8, <1>9 DEF InsertOpen
  <2>2. pc'[f] = "insert" /\ ~modified'[f] /\ index[f] = 0
    BY <1>1, <1>2, <1>7, <2>1 DEF Goto, StepsOK, FlowLimits
  <2>3. FlowLimits(f)'
    BY <1>1, <1>2, <1>7, <2>1, <2>2 DEF FlowLimits, Filling
  <2>4. "insert" \notin Early
    BY DEF Early
  <2> QED
    BY <1>1, <1>2, <1>4, <1>5, <1>6, <2>1, <2>3, <2>4, LimitKept
<1>10. CASE InsertNext(f)
  <2>1. pc[f] = "insert" /\ ~modified[f] /\ UNCHANGED modified
    BY <1>2, <1>10 DEF InsertNext, FlowLimits
  <2>2. \A i \in DOMAIN logEvents : Writable(i)
    BY <1>2 DEF Writable, ListLimits
  <2>3. \/ /\ index[f] + 1 \in DOMAIN logEvents
           /\ index' = [index EXCEPT ![f] = index[f] + 1] /\ UNCHANGED pc
        \/ Goto(f, "written") /\ UNCHANGED index
    BY <1>8, <1>10, <2>1, <2>2 DEF InsertNext, Writable
  <2>4. CASE /\ index[f] + 1 \in DOMAIN logEvents
             /\ index' = [index EXCEPT ![f] = index[f] + 1] /\ UNCHANGED pc
    <3>1. Goto(f, "insert")
      BY <1>1, <2>1, <2>4 DEF Goto, StepsOK
    <3>2. index'[f] = index[f] + 1 /\ index[f] + 1 <= Len(logEvents) /\ pc'[f] = "insert"
      BY <1>7, <2>1, <2>4
    <3>3. index'[f] <= BatchPostingLimit
      BY <1>2, <1>7, <3>2 DEF ListLimits
    <3>4. FlowLimits(f)'
      BY <1>1, <1>2, <2>1, <3>2, <3>3 DEF FlowLimits, Filling
    <3>5. "insert" \notin Early
      BY DEF Early
    <3>6. \A g \in Flows : g # f => index'[g] = index[g] /\ copied'[g] = copied[g]
      BY <1>1, <1>7, <2>4
    <3> QED
      BY <1>1, <1>2, <1>4, <1>5, <1>6, <3>1, <3>4, <3>5, <3>6, LimitKept
  <2>5. CASE Goto(f, "written") /\ UNCHANGED index
    <3>1. pc'[f] = "written"
      BY <1>1, <2>5 DEF Goto, StepsOK
    <3>2. FlowLimits(f)'
      BY <1>1, <1>2, <2>5, <3>1 DEF FlowLimits, Filling
    <3>3. "written" \notin Early
      BY DEF Early
    <3> QED
      BY <1>1, <1>2, <1>4, <1>5, <1>6, <2>5, <3>2, <3>3, LimitKept
  <2> QED
    BY <2>3, <2>4, <2>5
<1> QED
  BY <1>9, <1>10

\* A step outside the loops of WriteBatch: only the list has to be looked at.
LEMMA QuietLimits ==
  ASSUME BatchInv, LimitInv, faults = 0, NEW f \in Flows, OnlyFlow(f),
         pc[f] \notin Filling, NEW label, label \notin Filling \cup {"insert", "failed"},
         Goto(f, label), up' = up, channel' = "open", offset' = offset,
         UNCHANGED <<eventTable, copied>>,
         index' = index \/ index' = [index EXCEPT ![f] = 0],
         label \in {"enter", "open"} => index' = [index EXCEPT ![f] = 0],
         label = "store" => addAt'[f] = Len(logEvents'),
         \A i \in DOMAIN logEvents' : logEvents'[i] # NoEvent,
         Len(logEvents') <= BatchPostingLimit,
         label \in Early => Len(logEvents') < BatchPostingLimit
  PROVE  LimitInv'
<1>1. /\ up /\ offset = 0 /\ ListLimits /\ FlowLimits(f)
      /\ \A g \in Flows : FlowLimits(g)
  BY DEF LimitInv
<1>2. StepsOK /\ index \in [Flows -> Nat] /\ BatchPostingLimit \in Nat \ {0}
  BY LimitTypes
<1>3. pc'[f] = label
  BY <1>2 DEF Goto, StepsOK
<1>4. index'[f] <= BatchPostingLimit /\ \A g \in Flows : g # f => index'[g] = index[g]
  BY <1>1, <1>2 DEF FlowLimits
<1>5. Len(copied'[f]) <= BatchPostingLimit
  BY <1>1 DEF FlowLimits
<1>6. label \notin Filling \cup {"failed", "copy", "insert", "row"}
  BY DEF Filling
<1>7. label \in {"enter", "open"} => index'[f] = 0
  BY <1>2
<1>8. FlowLimits(f)'
  BY <1>3, <1>4, <1>5, <1>6, <1>7 DEF FlowLimits
<1>9. \A g \in Flows : pc[g] \notin Filling
  BY DEF OnlyFlow, Idle, Filling
<1>10. eventTable' = <<>>
  BY <1>1, <1>9 DEF ListLimits
<1> QED
  BY <1>1, <1>4, <1>8, <1>10, LimitKept

\* The handler adds an event to a list that has room for it.
LEMMA AddEndLimits ==
  ASSUME BatchInv, LimitInv, faults = 0, NEW h \in Handlers, AddEnd(h)
  PROVE  LimitInv'
<1>1. /\ h \in Flows /\ pc[h] = "store" /\ Goto(h, "remember") /\ ~Idle(h)
      /\ UNCHANGED <<eventTable, index, copied, up, channel, offset>>
  BY FlowKinds DEF AddEnd, Idle, queueVars, serviceVars
<1>2. OnlyFlow(h) /\ logEvents \in Seq(ListElements) /\ Len(logEvents) \in Nat
      /\ BatchPostingLimit \in Nat \ {0}
  BY <1>1, BusyIsAlone, LimitTypes DEF LimitInv
<1>3. addAt[h] = Len(logEvents)
  BY <1>1 DEF LimitInv, FlowLimits
<1>4. /\ up /\ channel = "open"
      /\ \A i \in DOMAIN logEvents : logEvents[i] # NoEvent
      /\ Len(logEvents) < BatchPostingLimit
  BY <1>1, <1>2 DEF LimitInv, ListLimits, OnlyFlow, Idle, Early
<1>5. delivery[h].msg # NoEvent
  BY <1>1, SqlBatchWriterAssumption DEF BatchInv, DeliveryInv, Deliveries
<1> DEFINE n == addAt[h] + 1
           added == [i \in 1 .. n |->
                       CASE i = n -> delivery[h].msg
                         [] i < n /\ i <= Len(logEvents) -> logEvents[i]
                         [] OTHER -> NoEvent]
<1>6. logEvents' = added
  BY <1>2, <1>3 DEF AddEnd
<1>7. n \in Nat /\ n <= BatchPostingLimit
  BY <1>2, <1>3, <1>4
<1>8. \A i \in 1 .. n : added[i] # NoEvent
  BY <1>2, <1>3, <1>4, <1>5
<1>9. DOMAIN added = 1 .. n /\ Len(added) = n
  BY <1>7
<1> HIDE DEF added, n
<1>10. /\ \A i \in DOMAIN logEvents' : logEvents'[i] # NoEvent
       /\ Len(logEvents') <= BatchPostingLimit
  BY <1>6, <1>7, <1>8, <1>9
<1>11. /\ "remember" \notin Early \cup {"enter", "open", "store"}
       /\ "remember" \notin Filling \cup {"insert", "failed"}
       /\ pc[h] \notin Filling
  BY <1>1 DEF Early, Filling
<1> QED
  BY <1>1, <1>2, <1>4, <1>10, <1>11, QuietLimits

\* Where a step of a handler leads: nothing refuses an acknowledgement, nothing
\* throws.
LEMMA HandlerLimits ==
  ASSUME BatchInv, Unwritable = {}, LimitInv, faults = 0, faults' = 0, NeverRefused',
         NEW h \in Handlers, HandlerStep(h)
  PROVE  LimitInv'
<1>1. /\ h \in Flows /\ logEvents \in Seq(ListElements) /\ Len(logEvents) \in Nat
      /\ BatchPostingLimit \in Nat \ {0}
  BY FlowKinds, LimitTypes
<1>2. /\ up /\ channel = "open" /\ offset = 0 /\ Alone /\ ListLimits /\ FlowLimits(h)
  BY <1>1 DEF LimitInv
<1>3. ~Idle(h) /\ pc[h] \notin Filling
  BY DEF HandlerStep, EagerWrite, EagerAck, AddBegin, AddEnd, Remember, CountEvents,
         HandlerAck, HandlerClear, HandlerFails, Idle, Filling
<1>4. OnlyFlow(h)
  BY <1>1, <1>2, <1>3, BusyIsAlone
<1>5. ~Fault("sql")
  BY DEF Fault
<1>6. pc[h] \in Early => Len(logEvents) < BatchPostingLimit
  BY <1>2, <1>4 DEF ListLimits, OnlyFlow, Idle, Early
<1>7. \A tag, multiple : BasicAck(tag, multiple) => channel' = "open" /\ offset' = offset
  BY DEF BasicAck, NeverRefused, CloseChannel, queueVars
<1>8. CASE AddEnd(h)
  BY <1>8, AddEndLimits
<1>9. CASE HandlerClear(h)
  <2>1. /\ Goto(h, "idle") /\ logEvents' = <<>>
        /\ UNCHANGED <<eventTable, index, copied, up, channel, offset>>
    BY <1>9 DEF HandlerClear, Finish, queueVars
  <2>2. Len(logEvents') < BatchPostingLimit /\ \A i \in DOMAIN logEvents' : logEvents'[i] # NoEvent
    BY <1>1, <2>1
  <2>3. "idle" \notin Filling \cup {"insert", "failed"}
    BY DEF Filling
  <2> QED
    BY <1>1, <1>2, <1>3, <1>4, <2>1, <2>2, <2>3, QuietLimits
<1>10. CASE HandlerFails(h)
  BY <1>2, <1>10 DEF HandlerFails, FlowLimits
<1>11. CASE \/ EagerWrite(h) \/ EagerAck(h) \/ AddBegin(h) \/ Remember(h)
            \/ CountEvents(h) \/ HandlerAck(h)
  <2>1. UNCHANGED <<logEvents, eventTable, copied, up, offset>> /\ channel' = "open"
    BY <1>2, <1>7, <1>11
       DEF EagerWrite, EagerAck, AddBegin, Remember, CountEvents, CallWriteBatch, HandlerAck,
           queueVars
  <2>2. addAt \in [Handlers -> Nat]
    BY DEF BatchInv, TypeOK
  <2>3. \/ /\ pc[h] \in Early /\ UNCHANGED index
           /\ \/ Goto(h, "idle") \/ Goto(h, "eagerAck")
              \/ Goto(h, "store") /\ addAt'[h] = Len(logEvents')
        \/ Len(logEvents) < BatchPostingLimit /\ UNCHANGED index /\ Goto(h, "idle")
        \/ UNCHANGED index /\ (Goto(h, "count") \/ Goto(h, "clear"))
        \/ index' = [index EXCEPT ![h] = 0] /\ (Goto(h, "enter") \/ Goto(h, "open"))
    BY <1>2, <1>11, <2>2
       DEF EagerWrite, EagerAck, AddBegin, Remember, CountEvents, CallWriteBatch, HandlerAck,
           Finish, Early, WriteBatchEntry
  <2>4. PICK label \in {"idle", "eagerAck", "store", "count", "enter", "open", "clear"} :
          /\ Goto(h, label)
          /\ label \in Early => Len(logEvents) < BatchPostingLimit
          /\ index' = index \/ index' = [index EXCEPT ![h] = 0]
          /\ label \in {"enter", "open"} => index' = [index EXCEPT ![h] = 0]
          /\ label = "store" => addAt'[h] = Len(logEvents')
    BY <1>6, <2>3 DEF Early
  <2>5. label \notin Filling \cup {"insert", "failed"}
    BY DEF Filling
  <2>6. /\ \A i \in DOMAIN logEvents' : logEvents'[i] # NoEvent
        /\ Len(logEvents') <= BatchPostingLimit
        /\ label \in Early => Len(logEvents') < BatchPostingLimit
    BY <1>2, <2>1, <2>4 DEF ListLimits
  <2> QED
    BY <1>1, <1>2, <1>3, <1>4, <2>1, <2>4, <2>5, <2>6, QuietLimits
<1> QED
  BY <1>8, <1>9, <1>10, <1>11 DEF HandlerStep

\* As long as no channel is gone, a delivery is received, and the timer
\* elapses, when nothing is at work.
LEMMA StartsAlone ==
  ASSUME Sequenced, BatchInv, offset = 0, NEW f \in Flows,
         (Receive(f) /\ f \in Handlers) \/ (Elapsed(f) /\ f \in Timers)
  PROVE  \A g \in Flows : Idle(g)
<1>1. Overlap => Flows = Handlers
  BY LoggingServiceAssumption DEF Sequenced
<1>2. ~Overlap => \A g \in Flows : Idle(g)
  BY DEF Receive, Elapsed, MayStart
<1>3. ASSUME Overlap, NEW g \in Handlers PROVE Idle(g)
  <2>1. Idle(g) \/ delivery[g].tag <= 0
    BY <1>3, LoggingServiceAssumption DEF Receive, Sequenced
  <2>2. ~Idle(g) => delivery[g].tag \in Nat \ {0}
    BY DEF BatchInv, DeliveryInv, Deliveries
  <2> QED
    BY <2>1, <2>2
<1> QED
  BY <1>1, <1>2, <1>3

LEMMA StartLimits ==
  ASSUME Sequenced, BatchInv, LimitInv, faults = 0, NEW f \in Flows,
         (Receive(f) /\ f \in Handlers) \/ (Elapsed(f) /\ f \in Timers)
  PROVE  LimitInv'
<1>1. up /\ Idle(f) /\ OnlyFlow(f) /\ \A g \in Flows : pc[g] = "idle"
  BY StartsAlone DEF Receive, Elapsed, MayStart, LimitInv, OnlyFlow, Idle
<1>2. channel = "open" /\ ListLimits /\ StepsOK
  BY LimitTypes DEF LimitInv
<1>3. Len(logEvents) < BatchPostingLimit
  BY <1>1, <1>2 DEF ListLimits, Early
<1>4. UNCHANGED <<logEvents, eventTable, copied, up, offset>> /\ channel' = "open"
  BY <1>2 DEF Receive, Elapsed, CallWriteBatch, Deliver, queueVars, serviceVars
<1>5. pc' = pc => Goto(f, "idle")
  BY <1>1, <1>2 DEF Goto, StepsOK
<1>6. PICK label \in {"idle", "eagerWrite", "add", "enter", "open"} :
        /\ Goto(f, label)
        /\ index' = index \/ index' = [index EXCEPT ![f] = 0]
        /\ label \in {"enter", "open"} => index' = [index EXCEPT ![f] = 0]
  BY <1>5 DEF Receive, Elapsed, CallWriteBatch, WriteBatchEntry
<1>7. label \notin Filling \cup {"insert", "failed"} /\ pc[f] \notin Filling
  BY <1>1 DEF Filling
<1>8. /\ \A i \in DOMAIN logEvents' : logEvents'[i] # NoEvent
      /\ Len(logEvents') <= BatchPostingLimit
      /\ Len(logEvents') < BatchPostingLimit
  BY <1>2, <1>3, <1>4 DEF ListLimits
<1> QED
  BY <1>1, <1>2, <1>4, <1>6, <1>7, <1>8, QuietLimits

\* The timer callback acknowledges and clears what it has written.
LEMMA TimerLimits ==
  ASSUME BatchInv, LimitInv, faults = 0, NeverRefused', NEW t \in Timers, TimerStep(t)
  PROVE  LimitInv'
<1>1. /\ t \in Flows /\ BatchPostingLimit \in Nat \ {0}
      /\ logEvents \in Seq(ListElements) /\ Len(logEvents) \in Nat
  BY FlowKinds, LimitTypes
<1>2. up /\ channel = "open" /\ offset = 0 /\ Alone /\ ListLimits /\ FlowLimits(t)
  BY <1>1 DEF LimitInv
<1>3. ~TimerThrows(t)
  BY <1>2 DEF TimerThrows, FlowLimits
<1>4. ~Idle(t) /\ pc[t] \notin Filling
  BY <1>3 DEF TimerStep, TimerAck, TimerClear, Idle, Filling
<1>5. OnlyFlow(t)
  BY <1>1, <1>2, <1>4, BusyIsAlone
<1>6. CASE TimerAck(t)
  <2>1. Goto(t, "clear") /\ UNCHANGED <<logEvents, eventTable, index, copied, up>>
    BY <1>6 DEF TimerAck, serviceVars
  <2>2. channel' = "open" /\ offset' = offset
    BY <1>6 DEF TimerAck, BasicAck, NeverRefused, CloseChannel, queueVars
  <2>3. /\ "clear" \notin Early \cup {"enter", "open", "store"}
        /\ "clear" \notin Filling \cup {"insert", "failed"}
    BY DEF Early, Filling
  <2> QED
    BY <1>1, <1>2, <1>4, <1>5, <2>1, <2>2, <2>3, QuietLimits DEF ListLimits
<1>7. CASE TimerClear(t)
  <2>1. /\ Goto(t, "idle") /\ logEvents' = <<>>
        /\ UNCHANGED <<eventTable, index, copied, up, channel, offset>>
    BY <1>7 DEF TimerClear, queueVars, serviceVars
  <2>2. Len(logEvents') < BatchPostingLimit /\ \A i \in DOMAIN logEvents' : logEvents'[i] # NoEvent
    BY <1>1, <2>1
  <2>3. "idle" \notin Filling \cup {"insert", "failed"}
    BY DEF Filling
  <2> QED
    BY <1>1, <1>2, <1>4, <1>5, <2>1, <2>2, <2>3, QuietLimits
<1> QED
  BY <1>3, <1>6, <1>7 DEF TimerStep

LEMMA LimitInvInit ==
  Init => LimitInv
<1> SUFFICES ASSUME Init PROVE LimitInv
  OBVIOUS
<1>1. /\ up /\ channel = "open" /\ offset = 0 /\ logEvents = <<>> /\ eventTable = <<>>
      /\ \A f \in Flows : pc[f] = "idle" /\ index[f] = 0 /\ copied[f] = <<>>
  BY DEF Init, QueueInit, WriterInit
<1>2. BatchPostingLimit \in Nat \ {0} /\ Len(logEvents) = 0
  BY <1>1, LoggingServiceAssumption
<1>3. ListLimits
  BY <1>1, <1>2 DEF ListLimits
<1>4. \A f \in Flows : FlowLimits(f)
  BY <1>1, <1>2 DEF FlowLimits, Filling
<1>5. Alone
  BY <1>1 DEF Alone, Idle
<1> QED
  BY <1>1, <1>3, <1>4, <1>5 DEF LimitInv

LEMMA LimitInvStep ==
  ASSUME Sequenced, Unwritable = {}
  PROVE  BatchInv /\ AckInv' /\ LimitInv /\ [Next]_vars => LimitInv'
<1> SUFFICES ASSUME BatchInv, AckInv', LimitInv, [Next]_vars, faults' = 0 PROVE LimitInv'
  BY DEF LimitInv
<1>1. faults = 0
  BY FaultsGrow, LimitTypes
<1>2. NeverRefused'
  BY DEF AckInv
<1>3. ASSUME NEW h \in Handlers, Receive(h) \/ HandlerStep(h) PROVE LimitInv'
  BY <1>1, <1>2, <1>3, StartLimits, HandlerLimits, FlowKinds
<1>4. ASSUME NEW t \in Timers, Elapsed(t) \/ TimerStep(t) PROVE LimitInv'
  BY <1>1, <1>2, <1>4, StartLimits, TimerLimits, FlowKinds
<1>5. ASSUME NEW f \in Flows, WriteBatch(f) PROVE LimitInv'
  BY <1>1, <1>5, BulkLimits, InsertLimits DEF WriteBatch, WriteBatchStep
<1>6. CASE Environment
  <2>1. \A kind : ~Fault(kind)
    BY <1>1 DEF Fault
  <2>2. up /\ channel = "open"
    BY <1>1 DEF LimitInv
  <2> QED
    BY <1>6, <2>1, <2>2 DEF Environment, Kill, StopAsync, Exit, Restart, ConnectionLost,
                            ConnectionRecovered
<1>7. CASE UNCHANGED vars
  BY <1>7 DEF vars, queueVars, sinkVars, writerVars, serviceVars, LimitInv, Alone, Idle, ListLimits,
              FlowLimits
<1> QED
  BY <1>3, <1>4, <1>5, <1>6, <1>7 DEF Next

THEOREM LimitInvariant ==
  ASSUME Sequenced, Unwritable = {}
  PROVE  Spec => []LimitInv
  BY AcksInvariant, LimitInvInit, LimitInvStep, PTL DEF Spec

\* When the table takes every row, and handlers and timer callbacks do not
\* overlap or there is no timer callback, no batch exceeds BatchPostingLimit
\* (LoggingService.cs:57) before the first fault, whichever of the two, handler
\* or timer, writes it.
THEOREM BatchesLimited ==
  ASSUME Sequenced, Unwritable = {}
  PROVE  Spec => []BatchWithinLimit
<1>1. LimitInv => BatchWithinLimit
  BY DEF LimitInv, BatchWithinLimit, FlowLimits
<1> QED
  BY <1>1, LimitInvariant, PTL

-----------------------------------------------------------------------------
(* No write of what was acknowledged                                         *)

\* The broker was told to forget no element of this sequence.
Awaited(events) == \A i \in DOMAIN events : events[i] \notin settled

\* The broker has an event once: in the queue, as a delivery it waits for, or as
\* one that was acknowledged.
QueueInv ==
    /\ \A m \in ready : m \notin settled /\ \A d \in unacked : d.msg # m
    /\ \A d \in unacked : d.msg \notin settled
    /\ \A d, e \in unacked : d.msg = e.msg => d = e

\* What a flow holds, has put into the DataTable or copies is awaited.
FlowAwaited(f) ==
    /\ f \in Handlers /\ pc[f] \in {"eagerWrite", "add", "store"}
         => delivery[f].msg \notin settled
    /\ pc[f] \in Filling => Awaited(eventTable)
    /\ pc[f] = "copy" => Awaited(copied[f])

\* So is the list, but between an acknowledgement and its clearing; the DataTable
\* is empty outside WriteBatch.
WaitInv ==
    /\ QueueInv
    /\ (\A f \in Flows : pc[f] # "clear") => Awaited(logEvents)
    /\ (\A f \in Flows : pc[f] \notin Filling) => eventTable = <<>>
    /\ \A f \in Flows : FlowAwaited(f)

\* The facts about types that the lemmas below need.
LEMMA WaitTypes ==
  ASSUME BatchInv
  PROVE  /\ StepsOK /\ WriterTypeOK /\ QueueTypeOK
         /\ rows \in [Messages -> 0 .. MaxRows]
         /\ settled \subseteq Messages
         /\ \A h \in Handlers : ~Idle(h) => delivery[h].msg \in Messages
  BY DEF BatchInv, TypeOK, SinkTypeOK, QueueTypeOK, DeliveryInv, Deliveries

\* Closing the channel gives the queue back what was unacknowledged.
LEMMA CloseKeepsQueue ==
  ASSUME QueueInv, NEW state, CloseChannel(state)
  PROVE  QueueInv' /\ settled' = settled
  BY DEF QueueInv, CloseChannel, Requeue, MessagesOf

\* An acknowledgement takes the events of the deliveries that it covers.
LEMMA AckKeepsQueue ==
  ASSUME QueueInv, NEW tag, BasicAck(tag, TRUE)
  PROVE  QueueInv'
<1>1. CASE UNCHANGED queueVars
  BY <1>1 DEF queueVars, QueueInv
<1>2. CASE CloseChannel("refused")
  BY <1>2, CloseKeepsQueue
<1>3. CASE /\ settled' = settled \cup MessagesOf(Covered(tag, TRUE))
           /\ unacked' = unacked \ Covered(tag, TRUE)
           /\ UNCHANGED ready
  <2>1. Covered(tag, TRUE) \subseteq unacked
    BY DEF Covered
  <2> HIDE DEF Covered
  <2>2. \A d \in unacked' : d.msg \notin MessagesOf(Covered(tag, TRUE))
    BY <1>3, <2>1 DEF MessagesOf, QueueInv
  <2>3. \A m \in ready : m \notin MessagesOf(Covered(tag, TRUE))
    BY <2>1 DEF MessagesOf, QueueInv
  <2> QED
    BY <1>3, <2>2, <2>3 DEF QueueInv
<1> QED
  BY <1>1, <1>2, <1>3 DEF BasicAck

\* The only flow moves: the queue, the list, the DataTable and what it holds have
\* to be looked at.
LEMMA WaitKept ==
  ASSUME StepsOK, NEW f \in Flows, OnlyFlow(f), NEW label, Goto(f, label),
         QueueInv',
         label # "clear" => Awaited(logEvents)',
         label \notin Filling => eventTable' = <<>>,
         FlowAwaited(f)'
  PROVE  WaitInv'
<1>1. pc'[f] = label /\ \A g \in Flows : g # f => pc'[g] = "idle"
  BY DEF Goto, StepsOK, OnlyFlow, Idle
<1>2. \A g \in Flows : g # f => FlowAwaited(g)'
  BY <1>1 DEF FlowAwaited, Filling
<1> QED
  BY <1>1, <1>2 DEF WaitInv

\* What the invariant says of the only flow.
LEMMA OnlyFlowWaits ==
  ASSUME WaitInv, NEW f \in Flows, OnlyFlow(f)
  PROVE  /\ pc[f] # "clear" => Awaited(logEvents)
         /\ pc[f] \notin Filling => eventTable = <<>>
         /\ FlowAwaited(f)
  BY DEF WaitInv, OnlyFlow, Idle, Filling

\* A step that acknowledges nothing, and leaves the DataTable alone when it is
\* empty, keeps the list or empties it.
LEMMA QuietWaits ==
  ASSUME StepsOK, WaitInv, NEW f \in Flows, OnlyFlow(f), pc[f] \notin Filling,
         NEW label, label \notin Filling, Goto(f, label),
         UNCHANGED <<settled, eventTable>>, QueueInv',
         logEvents' = <<>> \/ (UNCHANGED logEvents /\ pc[f] # "clear"),
         f \in Handlers /\ label \in {"eagerWrite", "add", "store"}
            => delivery'[f].msg \notin settled
  PROVE  WaitInv'
<1>1. Awaited(logEvents)' /\ eventTable' = <<>>
  BY OnlyFlowWaits DEF Awaited
<1>2. pc'[f] = label
  BY DEF Goto, StepsOK
<1>3. FlowAwaited(f)'
  BY <1>2 DEF FlowAwaited, Filling
<1> QED
  BY <1>1, <1>3, WaitKept

\* WriteBatch puts the list into the DataTable, and that into the copy.
LEMMA WriteBatchWaits ==
  ASSUME BatchInv, Alone, WaitInv, NEW f \in Flows, WriteBatch(f)
  PROVE  WaitInv'
<1>1. StepsOK /\ WriterTypeOK /\ WriteBatchStep(f)
  BY WaitTypes DEF WriteBatch
<1>2. UNCHANGED <<logEvents, ready, unacked, settled, delivery>> /\ QueueInv'
  BY <1>1, WriterTypes DEF WriteBatch, queueVars, serviceVars, WaitInv, QueueInv
<1>3. pc[f] \in WriterSteps /\ OnlyFlow(f)
  BY <1>1, WriterMoves, BusyIsAlone DEF WriterSteps, BulkSteps, Idle
<1>4. Awaited(logEvents) /\ (pc[f] \notin Filling => eventTable = <<>>) /\ FlowAwaited(f)
  BY <1>3, OnlyFlowWaits DEF WriterSteps, BulkSteps
<1>5. Awaited(logEvents)'
  BY <1>2, <1>4 DEF Awaited
<1>6. PICK label \in WriterSteps : Goto(f, label)
  BY <1>1, WriterMoves
<1>7. pc'[f] = label /\ label \notin {"eagerWrite", "add", "store", "clear"}
  BY <1>1, <1>6 DEF Goto, StepsOK, WriterSteps, BulkSteps
<1>8. CASE eventTable' = <<>> /\ label # "copy"
  <2>1. FlowAwaited(f)'
    BY <1>7, <1>8 DEF FlowAwaited, Awaited
  <2> QED
    BY <1>1, <1>2, <1>3, <1>5, <1>6, <1>8, <2>1, WaitKept
<1>9. CASE FillTest(f)
  <2>1. pc[f] = "fill" /\ UNCHANGED eventTable /\ pc'[f] \in {"row", "connect"}
    BY <1>1, <1>9 DEF FillTest, Goto, StepsOK
  <2>2. FlowAwaited(f)'
    BY <1>2, <1>4, <2>1 DEF FlowAwaited, Awaited, Filling
  <2> QED
    BY <1>1, <1>2, <1>3, <1>5, <1>6, <1>7, <2>1, <2>2, WaitKept DEF Filling
<1>10. CASE FillRow(f)
  <2>1. CASE LeaveBulk(f, "failed")
    BY <1>1, <1>7, <1>8, <2>1 DEF LeaveBulk, Goto, StepsOK
  <2>2. CASE /\ Writable(index[f] + 1)
             /\ eventTable' = Append(eventTable, logEvents[index[f] + 1])
             /\ Goto(f, "fill")
    <3> DEFINE e == logEvents[index[f] + 1]
               more == Append(eventTable, e)
    <3>1. e \notin settled
      BY <1>4, <2>2 DEF Writable, Awaited
    <3>2. Awaited(eventTable) /\ eventTable \in Seq(Messages) /\ pc[f] = "row"
      BY <1>1, <1>4, <1>10 DEF FillRow, FlowAwaited, Filling, WriterTypeOK
    <3>3. \A i \in DOMAIN more : more[i] = e \/ (i \in DOMAIN eventTable /\ more[i] = eventTable[i])
      BY <3>2
    <3>4. Awaited(eventTable)'
      BY <1>2, <2>2, <3>1, <3>2, <3>3 DEF Awaited
    <3>5. pc'[f] = "fill"
      BY <1>1, <2>2 DEF Goto, StepsOK
    <3>6. FlowAwaited(f)'
      BY <3>4, <3>5 DEF FlowAwaited
    <3> QED
      BY <1>1, <1>2, <1>3, <1>5, <1>6, <1>7, <3>5, <3>6, WaitKept DEF Filling
  <2> QED
    BY <1>10, <2>1, <2>2 DEF FillRow
<1>11. CASE BeginCopy(f)
  <2>1. /\ pc[f] = "connect" /\ pc'[f] = "copy" /\ UNCHANGED eventTable
        /\ copied'[f] = eventTable
    BY <1>1, <1>11 DEF BeginCopy, Goto, StepsOK, WriterTypeOK
  <2>2. FlowAwaited(f)'
    BY <1>2, <1>4, <2>1 DEF FlowAwaited, Awaited, Filling
  <2> QED
    BY <1>1, <1>2, <1>3, <1>5, <1>6, <1>7, <2>1, <2>2, WaitKept DEF Filling
<1>12. CASE CopyDone(f) \/ BulkFails(f)
  <2>1. eventTable' = <<>> /\ pc'[f] \in {"written", "failed"}
    BY <1>1, <1>12 DEF CopyDone, BulkFails, LeaveBulk, Goto, StepsOK
  <2> QED
    BY <1>7, <1>8, <2>1
<1>13. CASE FillEnter(f) \/ InsertOpen(f) \/ InsertNext(f)
  <2>1. /\ pc[f] \notin Filling /\ UNCHANGED eventTable
        /\ pc'[f] # "copy"
    BY <1>1, <1>13 DEF FillEnter, InsertOpen, InsertNext, Goto, StepsOK, Filling
  <2> QED
    BY <1>4, <1>7, <1>8, <2>1
<1> QED
  BY <1>1, <1>9, <1>10, <1>11, <1>12, <1>13 DEF WriteBatchStep

\* A flow that acknowledges is about to clear the list, or has none.
LEMMA AckWaits ==
  ASSUME BatchInv, Alone, WaitInv, NEW f \in Flows, pc[f] \in {"eagerAck", "written"},
         NEW tag, BasicAck(tag, TRUE) \/ UNCHANGED queueVars,
         NEW label \in {"clear", "idle"}, Goto(f, label), UNCHANGED <<logEvents, eventTable>>,
         label = "clear" \/ UNCHANGED queueVars \/ logEvents = <<>>
  PROVE  WaitInv'
<1>1. StepsOK /\ OnlyFlow(f) /\ pc[f] \notin Filling /\ label \notin Filling
  BY WaitTypes, BusyIsAlone DEF Idle, Filling
<1>2. Awaited(logEvents) /\ eventTable = <<>>
  BY <1>1, OnlyFlowWaits
<1>3. QueueInv'
  BY AckKeepsQueue DEF WaitInv, QueueInv, queueVars
<1>4. label # "clear" => Awaited(logEvents)'
  BY <1>2 DEF Awaited, queueVars
<1>5. pc'[f] = label
  BY <1>1 DEF Goto, StepsOK
<1>6. FlowAwaited(f)'
  BY <1>1, <1>5 DEF FlowAwaited, Filling
<1> QED
  BY <1>1, <1>2, <1>3, <1>4, <1>6, WaitKept

\* The steps of a handler: what it adds to the list is its own delivery.
LEMMA HandlerWaits ==
  ASSUME ~Overlap, BatchInv, LoneInv, WaitInv, NEW h \in Handlers, HandlerStep(h)
  PROVE  WaitInv'
<1>1. h \in Flows /\ StepsOK /\ Alone
  BY FlowKinds, WaitTypes DEF LoneInv
<1>2. /\ ~Idle(h) /\ pc[h] \notin Filling
      /\ pc[h] # "clear" \/ HandlerClear(h)
  BY DEF HandlerStep, EagerWrite, EagerAck, AddBegin, AddEnd, Remember, CountEvents,
         HandlerAck, HandlerClear, HandlerFails, Idle, Filling
<1>3. OnlyFlow(h)
  BY <1>1, <1>2, BusyIsAlone
<1>4. CASE EagerAck(h)
  <2>1. pc[h] = "eagerAck" /\ logEvents = <<>>
    BY <1>4 DEF EagerAck, LoneInv, BatchInv, EagerInv
  <2> QED
    BY <1>1, <1>4, <2>1, AckWaits DEF EagerAck, Finish
<1>5. CASE HandlerAck(h)
  BY <1>1, <1>5, AckWaits DEF HandlerAck, Finish
<1>6. CASE AddEnd(h)
  <2>1. pc[h] = "store" /\ UNCHANGED <<queueVars, eventTable>> /\ Goto(h, "remember")
    BY <1>6 DEF AddEnd
  <2>2. Awaited(logEvents) /\ eventTable = <<>> /\ delivery[h].msg \notin settled
    BY <1>1, <1>2, <1>3, <2>1, OnlyFlowWaits DEF FlowAwaited
  <2>3. NoEvent \notin settled
    BY SqlBatchWriterAssumption, WaitTypes
  <2>4. Awaited(logEvents)'
    <3> DEFINE n == addAt[h] + 1
               added == [i \in 1 .. n |->
                           CASE i = n -> delivery[h].msg
                             [] i < n /\ i <= Len(logEvents) -> logEvents[i]
                             [] OTHER -> NoEvent]
    <3>1. logEvents' = added \/ UNCHANGED logEvents
      BY <1>6 DEF AddEnd
    <3>2. logEvents \in Seq(ListElements) /\ addAt[h] \in Nat
      BY WaitTypes DEF WriterTypeOK, BatchInv, TypeOK
    <3>3. \A i \in 1 .. n :
            \/ added[i] \in {delivery[h].msg, NoEvent}
            \/ i \in DOMAIN logEvents /\ added[i] = logEvents[i]
      BY <3>2
    <3>4. DOMAIN added = 1 .. n
      OBVIOUS
    <3> HIDE DEF added, n
    <3> QED
      BY <2>1, <2>2, <2>3, <3>1, <3>3, <3>4 DEF Awaited, queueVars
  <2>5. pc'[h] = "remember"
    BY <1>1, <2>1 DEF Goto, StepsOK
  <2>6. FlowAwaited(h)' /\ "remember" \notin Filling
    BY <2>5 DEF FlowAwaited, Filling
  <2>7. QueueInv'
    BY <2>1 DEF WaitInv, QueueInv, queueVars
  <2> QED
    BY <1>1, <1>3, <2>1, <2>2, <2>4, <2>6, <2>7, WaitKept
<1>7. CASE \/ EagerWrite(h) \/ AddBegin(h) \/ Remember(h) \/ CountEvents(h)
           \/ HandlerClear(h) \/ HandlerFails(h)
  <2>1. UNCHANGED <<queueVars, eventTable>> /\ (UNCHANGED logEvents \/ logEvents' = <<>>)
    BY <1>7 DEF EagerWrite, AddBegin, Remember, CountEvents, HandlerClear, HandlerFails
  <2>2. HandlerClear(h) => logEvents' = <<>>
    BY DEF HandlerClear
  <2>3. \/ pc[h] = "add" /\ Goto(h, "store") /\ UNCHANGED delivery
        \/ \E label \in {"eagerAck", "idle", "count", "enter", "open"} : Goto(h, label)
    BY <1>7 DEF EagerWrite, AddBegin, Remember, CountEvents, CallWriteBatch, HandlerClear,
                HandlerFails, Finish, WriteBatchEntry
  <2>4. PICK label \in {"store", "eagerAck", "idle", "count", "enter", "open"} :
          /\ Goto(h, label)
          /\ label = "store" => pc[h] = "add" /\ UNCHANGED delivery
    BY <2>3
  <2>5. label = "store" => delivery'[h].msg \notin settled
    BY <1>1, <2>4 DEF WaitInv, FlowAwaited
  <2>6. QueueInv' /\ label \notin Filling /\ settled' = settled
    BY <2>1 DEF WaitInv, QueueInv, queueVars, Filling
  <2> QED
    BY <1>1, <1>2, <1>3, <2>1, <2>2, <2>4, <2>5, <2>6, QuietWaits
<1> QED
  BY <1>4, <1>5, <1>6, <1>7 DEF HandlerStep

\* A delivery was in the queue, and not acknowledged.
LEMMA StartWaits ==
  ASSUME ~Overlap, BatchInv, WaitInv, NEW f \in Flows,
         (Receive(f) /\ f \in Handlers) \/ (Elapsed(f) /\ f \in Timers)
  PROVE  WaitInv'
<1>1. OnlyFlow(f) /\ pc[f] = "idle" /\ StepsOK /\ pc[f] \notin Filling
  BY WaitTypes DEF Receive, Elapsed, MayStart, OnlyFlow, Idle, Filling
<1>2. UNCHANGED <<logEvents, eventTable>> /\ settled' = settled
  BY DEF Receive, Deliver, Elapsed, queueVars
<1>3. CASE Receive(f) /\ f \in Handlers
  <2>1. PICK m \in ready :
          /\ ready' = ready \ {m}
          /\ unacked' = unacked \cup {[tag |-> nextTag, msg |-> m]}
          /\ \/ UNCHANGED pc
             \/ /\ delivery' = [delivery EXCEPT ![f] = [tag |-> nextTag, msg |-> m]]
                /\ Goto(f, IF eager THEN "eagerWrite" ELSE "add")
    BY <1>3 DEF Receive, Deliver
  <2>2. m \notin settled
    BY DEF WaitInv, QueueInv
  <2>3. QueueInv'
    <3> DEFINE new == [tag |-> nextTag, msg |-> m]
    <3>1. new.msg = m /\ unacked' = unacked \cup {new}
      BY <2>1
    <3> HIDE DEF new
    <3> QED
      BY <1>2, <2>1, <3>1 DEF WaitInv, QueueInv
  <2>4. CASE UNCHANGED pc
    <3>1. Goto(f, "idle") /\ "idle" \notin Filling
      BY <1>1, <2>4 DEF Goto, StepsOK, Filling
    <3> QED
      BY <1>1, <1>2, <2>3, <3>1, QuietWaits
  <2>5. CASE /\ delivery' = [delivery EXCEPT ![f] = [tag |-> nextTag, msg |-> m]]
             /\ Goto(f, IF eager THEN "eagerWrite" ELSE "add")
    <3>1. delivery'[f].msg = m
      BY <1>3, <2>5, TagTypes
    <3>2. PICK label \in {"eagerWrite", "add"} : Goto(f, label)
      BY <2>5
    <3>3. label \notin Filling
      BY DEF Filling
    <3> QED
      BY <1>1, <1>2, <2>2, <2>3, <3>1, <3>2, <3>3, QuietWaits
  <2> QED
    BY <2>1, <2>4, <2>5
<1>4. CASE Elapsed(f) /\ f \in Timers
  <2>1. PICK label \in {"enter", "open"} : Goto(f, label)
    BY <1>4 DEF Elapsed, CallWriteBatch, WriteBatchEntry
  <2>2. QueueInv' /\ label \notin Filling
    BY <1>4 DEF Elapsed, queueVars, WaitInv, QueueInv, Filling
  <2> QED
    BY <1>1, <1>2, <2>1, <2>2, QuietWaits
<1> QED
  BY <1>3, <1>4

\* The end of the process empties the list and the DataTable.
LEMMA ProcessEndsWaits ==
  ASSUME WaitInv, ProcessEnds
  PROVE  WaitInv'
<1>1. QueueInv'
  BY CloseKeepsQueue DEF ProcessEnds, WaitInv
<1>2. /\ logEvents' = <<>> /\ eventTable' = <<>>
      /\ \A f \in Flows : pc'[f] = "idle"
  BY DEF ProcessEnds
<1>3. Awaited(logEvents)' /\ \A f \in Flows : FlowAwaited(f)'
  BY <1>2 DEF Awaited, FlowAwaited, Filling
<1> QED
  BY <1>1, <1>2, <1>3 DEF WaitInv

LEMMA TimerWaits ==
  ASSUME ~Overlap, BatchInv, LoneInv, WaitInv, NEW t \in Timers, TimerStep(t)
  PROVE  WaitInv'
<1>1. t \in Flows /\ StepsOK /\ Alone
  BY FlowKinds, WaitTypes DEF LoneInv
<1>2. CASE TimerAck(t)
  BY <1>1, <1>2, AckWaits DEF TimerAck
<1>3. CASE TimerClear(t)
  <2>1. /\ pc[t] = "clear" /\ OnlyFlow(t) /\ pc[t] \notin Filling
        /\ Goto(t, "idle") /\ "idle" \notin Filling /\ t \notin Handlers
    BY <1>1, <1>3, BusyIsAlone, FlowKinds DEF TimerClear, Idle, Filling
  <2>2. logEvents' = <<>> /\ UNCHANGED <<settled, eventTable>> /\ QueueInv'
    BY <1>3 DEF TimerClear, queueVars, WaitInv, QueueInv
  <2> QED
    BY <1>1, <2>1, <2>2, QuietWaits
<1>4. CASE TimerThrows(t)
  BY <1>4, ProcessEndsWaits DEF TimerThrows
<1> QED
  BY <1>2, <1>3, <1>4 DEF TimerStep

\* A step that moves no flow and acknowledges nothing.
LEMMA NothingMovesWaits ==
  ASSUME WaitInv, QueueInv', UNCHANGED <<settled, writerVars, delivery>>
  PROVE  WaitInv'
  BY DEF WaitInv, FlowAwaited, Awaited, writerVars

LEMMA EnvironmentWaits ==
  ASSUME WaitInv, Environment
  PROVE  WaitInv'
<1>1. CASE Kill \/ Exit
  BY <1>1, ProcessEndsWaits DEF Kill, Exit
<1>2. CASE StopAsync \/ ConnectionLost
  <2>1. \E state : CloseChannel(state)
    BY <1>2 DEF StopAsync, ConnectionLost, LoseConnection
  <2>2. QueueInv' /\ settled' = settled
    BY <2>1, CloseKeepsQueue DEF WaitInv
  <2> QED
    BY <1>2, <2>2, NothingMovesWaits DEF StopAsync, ConnectionLost, serviceVars
<1>3. CASE Restart \/ ConnectionRecovered
  <2>1. UNCHANGED <<ready, unacked, settled, writerVars, delivery>>
    BY <1>3 DEF Restart, ConnectionRecovered, StartChannel, OpenChannel, serviceVars
  <2>2. QueueInv'
    BY <2>1 DEF WaitInv, QueueInv
  <2> QED
    BY <2>1, <2>2, NothingMovesWaits
<1> QED
  BY <1>1, <1>2, <1>3 DEF Environment

LEMMA WaitInvInit ==
  Init => WaitInv
<1> SUFFICES ASSUME Init PROVE WaitInv
  OBVIOUS
<1>1. /\ logEvents = <<>> /\ eventTable = <<>>
      /\ unacked = {} /\ settled = {}
      /\ \A f \in Flows : pc[f] = "idle"
  BY DEF Init, QueueInit, WriterInit
<1> QED
  BY <1>1 DEF WaitInv, QueueInv, FlowAwaited, Awaited, Filling

LEMMA WaitInvStep ==
  ASSUME ~Overlap
  PROVE  BatchInv /\ AckInv /\ WaitInv /\ [Next]_vars => WaitInv'
<1> SUFFICES ASSUME BatchInv, AckInv, WaitInv, [Next]_vars PROVE WaitInv'
  OBVIOUS
<1>1. LoneInv /\ Alone
  BY DEF AckInv, LoneInv
<1>2. ASSUME NEW h \in Handlers, Receive(h) \/ HandlerStep(h) PROVE WaitInv'
  BY <1>1, <1>2, StartWaits, HandlerWaits, FlowKinds
<1>3. ASSUME NEW t \in Timers, Elapsed(t) \/ TimerStep(t) PROVE WaitInv'
  BY <1>1, <1>3, StartWaits, TimerWaits, FlowKinds
<1>4. ASSUME NEW f \in Flows, WriteBatch(f) PROVE WaitInv'
  BY <1>1, <1>4, WriteBatchWaits
<1>5. CASE Environment
  BY <1>5, EnvironmentWaits
<1>6. CASE UNCHANGED vars
  BY <1>6, NothingMovesWaits DEF vars, queueVars, serviceVars, WaitInv, QueueInv
<1> QED
  BY <1>2, <1>3, <1>4, <1>5, <1>6 DEF Next

\* What is written is awaited.
LEMMA WritesAwaited ==
  ASSUME ~Overlap, BatchInv, AckInv, WaitInv, [Next]_vars
  PROVE  \A m \in settled : rows'[m] = rows[m]
<1>1. /\ rows \in [Messages -> 0 .. MaxRows] /\ settled \subseteq Messages
      /\ Alone /\ WriterTypeOK
  BY WaitTypes DEF AckInv, LoneInv
<1>2. ASSUME NEW events, Awaited(events), InsertRows(events)
      PROVE  \A m \in settled : rows'[m] = rows[m]
  BY <1>1, <1>2, InsertRowsElsewhere DEF Awaited
<1>3. ASSUME NEW m, m \notin settled PROVE Awaited(<<m>>)
  BY <1>3 DEF Awaited
<1>4. ASSUME NEW h \in Handlers, EagerWrite(h)
      PROVE  \A m \in settled : rows'[m] = rows[m]
  <2>1. delivery[h].msg \notin settled
    BY <1>4, FlowKinds DEF EagerWrite, WaitInv, FlowAwaited
  <2>2. UNCHANGED rows \/ InsertRows(<<delivery[h].msg>>)
    BY <1>4 DEF EagerWrite, InsertCommits, InsertThrows, sinkVars
  <2> QED
    BY <1>2, <1>3, <2>1, <2>2
<1>5. ASSUME NEW f \in Flows, WriteBatch(f)
      PROVE  \A m \in settled : rows'[m] = rows[m]
  <2>1. CASE pc[f] = "copy" /\ (UNCHANGED rows \/ InsertRows(copied[f]))
    BY <1>2, <2>1 DEF WaitInv, FlowAwaited
  <2>2. CASE InsertNext(f)
    <3>1. OnlyFlow(f) /\ pc[f] # "clear"
      BY <1>1, <2>2, BusyIsAlone DEF InsertNext, Idle
    <3>2. Awaited(logEvents)
      BY <3>1, OnlyFlowWaits
    <3>3. \/ UNCHANGED rows
          \/ index[f] + 1 \in DOMAIN logEvents /\ InsertRows(<<logEvents[index[f] + 1]>>)
      BY <2>2 DEF InsertNext, Writable, sinkVars
    <3> QED
      BY <1>2, <1>3, <3>2, <3>3 DEF Awaited
  <2>3. CASE UNCHANGED rows
    BY <2>3
  <2> QED
    BY <1>5, <2>1, <2>2, <2>3
       DEF WriteBatch, WriteBatchStep, FillEnter, FillTest, FillRow, BeginCopy, CopyDone,
           BulkFails, InsertOpen, sinkVars
<1>6. CASE UNCHANGED rows
  BY <1>6
<1> QED
  BY <1>4, <1>5, <1>6
     DEF Next, HandlerStep, Receive, Deliver, EagerAck, AddBegin, AddEnd, Remember,
         CountEvents, HandlerAck, HandlerClear, HandlerFails, Elapsed, TimerStep, TimerAck,
         TimerClear, TimerThrows, Environment, Kill, StopAsync, Exit, Restart,
         ConnectionLost, ConnectionRecovered, ProcessEnds, vars, sinkVars

\* When handlers and timer callbacks do not overlap, an event that was acknowledged
\* gets no further row (LoggingService.cs:61-63, 104-105: BasicAck, then Clear),
\* whatever failed before, whichever writer is configured, and however often the
\* connection, the host or the database went.
THEOREM WrittenUntilAcked ==
  ASSUME ~Overlap
  PROVE  Spec => NeverRewritten
<1>1. Sequenced
  BY DEF Sequenced
<1>2. BatchInv /\ AckInv /\ WaitInv /\ [Next]_vars
        => [\A m \in settled : rows'[m] = rows[m]]_vars
  BY WritesAwaited
<1> QED
  BY <1>1, <1>2, BatchInvariant, AcksInvariant, WaitInvInit, WaitInvStep, PTL
     DEF Spec, NeverRewritten
=============================================================================
