--------------------------- MODULE LoggingService ---------------------------
(***************************************************************************)
(* The logging worker (WorkerService<T> and LoggingService): messages of the *)
(* logging queue are collected in a list that is written to the table, and   *)
(* acknowledged cumulatively, when it is full or when a timer elapses.        *)
(*                                                                         *)
(* Flows of control: a consumer dispatcher awaits one Received handler before*)
(* it starts the next (ConsumerDispatchConcurrency = 1), except that the      *)
(* dispatcher of a recovered channel does not wait for a handler of the lost  *)
(* one; the AutoReset timer starts a callback each period, whether or not the *)
(* previous one has completed.  All of them share _logEvents, _eventTable and *)
(* _basicDeliverEventArgs, without a lock.                                    *)
(***************************************************************************)
EXTENDS EventQueue, SqlBatchWriter

CONSTANTS
    Handlers,                \* Received handlers that can be in flight
    Timers,                  \* timer callbacks that can be in flight
    BatchPostingLimit,       \* MSSqlServerSinkOptions.BatchPostingLimit
    EagerlyEmitFirstEvent,   \* ... .EagerlyEmitFirstEvent, as configured
    Overlap                  \* may a flow start while another is in flight?

ASSUME LoggingServiceAssumption ==
    /\ Flows = Handlers \cup Timers
    /\ Handlers \cap Timers = {}
    /\ BatchPostingLimit \in Nat \ {0}
    /\ EagerlyEmitFirstEvent \in BOOLEAN
    /\ Overlap \in BOOLEAN

VARIABLES
    up,              \* the host process runs
    eager,           \* SinkOptions.EagerlyEmitFirstEvent, cleared by the service
    timerStarted,    \* _timer # null
    lastTag,         \* tag of _basicDeliverEventArgs, 0 for null
    delivery,        \* the delivery each handler processes
    addAt            \* List.Add: the size it read

serviceVars == <<up, eager, timerStarted, lastTag, delivery, addAt>>
vars == <<queueVars, sinkVars, writerVars, serviceVars>>

NoDelivery == [tag |-> 0, msg |-> NoEvent]

HandlerSteps == WriterSteps \cup
    {"idle", "eagerWrite", "eagerAck", "add", "store", "remember", "count", "clear"}
TimerSteps == WriterSteps \cup {"idle", "clear"}

StepsOK ==
    /\ pc \in [Flows -> HandlerSteps]
    /\ \A t \in Timers : pc[t] \in TimerSteps

TypeOK ==
    /\ QueueTypeOK
    /\ SinkTypeOK
    /\ WriterTypeOK
    /\ StepsOK
    /\ up \in BOOLEAN
    /\ eager \in BOOLEAN
    /\ timerStarted \in BOOLEAN
    /\ lastTag \in Nat
    /\ delivery \in [Handlers -> Deliveries \cup {NoDelivery}]
    /\ addAt \in [Handlers -> Nat]

ServiceInit ==
    /\ eager = EagerlyEmitFirstEvent
    /\ timerStarted = FALSE
    /\ lastTag = 0
    /\ delivery = [h \in Handlers |-> NoDelivery]
    /\ addAt = [h \in Handlers |-> 0]

Init ==
    /\ QueueInit
    /\ SinkInit
    /\ WriterInit
    /\ ServiceInit
    /\ up = TRUE

Idle(f) == pc[f] = "idle"

MayStart(f) ==
    /\ up
    /\ Idle(f)
    /\ Overlap \/ \A g \in Flows : Idle(g)

\* Mutant: the handler's delivery becomes null instead of an empty one.
FinishWithNull(h) ==
    /\ Goto(h, "idle")
    /\ delivery' = [delivery EXCEPT ![h] = NoEvent]

Finish(h) ==
    /\ Goto(h, "idle")
    /\ delivery' = [delivery EXCEPT ![h] = NoDelivery]

-----------------------------------------------------------------------------
(* The Received handler                                                      *)

\* Mutant: the test of the eager option is forgotten.
ReceiveWithoutEager(h) ==
    /\ MayStart(h)
    /\ \A g \in Handlers : Idle(g) \/ delivery[g].tag <= offset
    /\ \E m \in Messages :
        /\ Deliver(m)
        /\ delivery' = [delivery EXCEPT ![h] = [tag |-> nextTag, msg |-> m]]
        /\ Goto(h, "add")
    /\ UNCHANGED <<sinkVars, logEvents, eventTable, balanceLock, index, copied,
                   modified, up, eager, timerStarted, lastTag, addAt>>

\* A dispatcher hands a delivery to the handler.  One that does not
\* deserialize is logged and left unacknowledged; ProcessMessage writes the
\* very first one at once and adds every other one to the list.
Receive(h) ==
    /\ MayStart(h)
    /\ \A g \in Handlers : Idle(g) \/ delivery[g].tag <= offset
    /\ \E m \in Messages :
        /\ Deliver(m)
        /\ IF m \in Undecodable
           THEN UNCHANGED <<pc, delivery>>
           ELSE /\ delivery' = [delivery EXCEPT ![h] = [tag |-> nextTag, msg |-> m]]
                /\ Goto(h, IF eager THEN "eagerWrite" ELSE "add")
    /\ UNCHANGED <<sinkVars, logEvents, eventTable, balanceLock, index, copied,
                   modified, up, eager, timerStarted, lastTag, addAt>>

\* WriteEvent of the first event.  An exception ends the handler: the retry
\* policy has returned by then, the catch logs.
EagerWrite(h) ==
    /\ pc[h] = "eagerWrite"
    /\ \/ /\ InsertCommits(delivery[h].msg)
          /\ Goto(h, "eagerAck")
          /\ UNCHANGED delivery
       \/ /\ InsertThrows(delivery[h].msg)
          /\ Finish(h)
    /\ UNCHANGED <<queueVars, logEvents, eventTable, balanceLock, index, copied,
                   modified, up, eager, timerStarted, lastTag, addAt>>

\* BasicAck(tag, multiple: true) of the first event, which throws when the
\* channel is not open.
EagerAck(h) ==
    /\ pc[h] = "eagerAck"
    /\ \/ /\ BasicAck(delivery[h].tag, TRUE)
          /\ eager' = FALSE
       \/ /\ channel # "open"
          /\ UNCHANGED <<queueVars, eager>>
    /\ Finish(h)
    /\ UNCHANGED <<sinkVars, logEvents, eventTable, balanceLock, index, copied,
                   modified, up, timerStarted, lastTag, addAt>>

\* _logEvents.Add reads the size ...
AddBegin(h) ==
    /\ pc[h] = "add"
    /\ addAt' = [addAt EXCEPT ![h] = Len(logEvents)]
    /\ Goto(h, "store")
    /\ UNCHANGED <<queueVars, sinkVars, logEvents, eventTable, balanceLock, index,
                   copied, modified, up, eager, timerStarted, lastTag, delivery>>

\* Mutant: _basicDeliverEventArgs is not assigned after the Add.
AddEndForgets(h) ==
    /\ pc[h] = "store"
    /\ logEvents' = Append(logEvents, delivery[h].msg)
    /\ modified' = Spoiled("insert")
    /\ Goto(h, "count")
    /\ UNCHANGED <<queueVars, sinkVars, eventTable, balanceLock, index, copied,
                   serviceVars>>

\* ... and sets the element after it.  When the list was cleared meanwhile,
\* the cleared elements come back as nulls before the new one, or the new
\* one is left beyond the size.
AddEnd(h) ==
    /\ pc[h] = "store"
    /\ LET n == addAt[h] + 1
           added == [i \in 1 .. n |->
                       CASE i = n -> delivery[h].msg
                         [] i < n /\ i <= Len(logEvents) -> logEvents[i]
                         [] OTHER -> NoEvent]
       IN  \/ logEvents' = added
           \/ Len(logEvents) < addAt[h] /\ UNCHANGED logEvents
    /\ modified' = Spoiled("insert")
    /\ Goto(h, "remember")
    /\ UNCHANGED <<queueVars, sinkVars, eventTable, balanceLock, index, copied,
                   serviceVars>>

\* _basicDeliverEventArgs = basicDeliverEventArgs
Remember(h) ==
    /\ pc[h] = "remember"
    /\ lastTag' = delivery[h].tag
    /\ Goto(h, "count")
    /\ UNCHANGED <<queueVars, sinkVars, logEvents, eventTable, balanceLock, index,
                   copied, modified, up, eager, timerStarted, delivery, addAt>>

\* Mutant: > for >= in the test of the limit.
CountEventsBeyond(h) ==
    /\ pc[h] = "count"
    /\ \/ /\ Len(logEvents) > BatchPostingLimit
          /\ CallWriteBatch(h)
          /\ UNCHANGED <<delivery, timerStarted>>
       \/ /\ Len(logEvents) <= BatchPostingLimit
          /\ timerStarted' = TRUE
          /\ Finish(h)
          /\ UNCHANGED <<index, copied, modified>>
    /\ UNCHANGED <<queueVars, sinkVars, logEvents, eventTable, balanceLock, up, eager,
                   lastTag, addAt>>

\* Mutant: the timer is never started.
CountEventsUntimed(h) ==
    /\ pc[h] = "count"
    /\ \/ /\ Len(logEvents) >= BatchPostingLimit
          /\ CallWriteBatch(h)
          /\ UNCHANGED delivery
       \/ /\ Len(logEvents) < BatchPostingLimit
          /\ Finish(h)
          /\ UNCHANGED <<index, copied, modified>>
    /\ UNCHANGED <<queueVars, sinkVars, logEvents, eventTable, balanceLock, up, eager,
                   timerStarted, lastTag, addAt>>

\* A full list is written by the handler; otherwise the timer is started,
\* once.
CountEvents(h) ==
    /\ pc[h] = "count"
    /\ \/ /\ Len(logEvents) >= BatchPostingLimit
          /\ CallWriteBatch(h)
          /\ UNCHANGED <<delivery, timerStarted>>
       \/ /\ Len(logEvents) < BatchPostingLimit
          /\ timerStarted' = TRUE
          /\ Finish(h)
          /\ UNCHANGED <<index, copied, modified>>
    /\ UNCHANGED <<queueVars, sinkVars, logEvents, eventTable, balanceLock, up, eager,
                   lastTag, addAt>>

\* Mutant: the remembered delivery is acknowledged, as the timer does.
HandlerAckRemembered(h) ==
    /\ pc[h] = "written"
    /\ \/ /\ BasicAck(lastTag, TRUE)
          /\ Goto(h, "clear")
          /\ UNCHANGED delivery
       \/ /\ channel # "open"
          /\ Finish(h)
          /\ UNCHANGED queueVars
    /\ UNCHANGED <<sinkVars, logEvents, eventTable, balanceLock, index, copied,
                   modified, up, eager, timerStarted, lastTag, addAt>>

\* The batch is written: BasicAck(own tag, multiple: true), which throws when
\* the channel is not open, and then leaves the list as it is.
HandlerAck(h) ==
    /\ pc[h] = "written"
    /\ \/ /\ BasicAck(delivery[h].tag, TRUE)
          /\ Goto(h, "clear")
          /\ UNCHANGED delivery
       \/ /\ channel # "open"
          /\ Finish(h)
          /\ UNCHANGED queueVars
    /\ UNCHANGED <<sinkVars, logEvents, eventTable, balanceLock, index, copied,
                   modified, up, eager, timerStarted, lastTag, addAt>>

\* Mutant: the list is not cleared after the acknowledgement.
HandlerClearForgotten(h) ==
    /\ pc[h] = "clear"
    /\ Finish(h)
    /\ UNCHANGED <<queueVars, sinkVars, logEvents, eventTable, balanceLock, index,
                   copied, modified, up, eager, timerStarted, lastTag, addAt>>

\* _logEvents.Clear(); the timer's interval starts anew.
HandlerClear(h) ==
    /\ pc[h] = "clear"
    /\ logEvents' = <<>>
    /\ modified' = Spoiled("insert")
    /\ Finish(h)
    /\ UNCHANGED <<queueVars, sinkVars, eventTable, balanceLock, index, copied, up,
                   eager, timerStarted, lastTag, addAt>>

\* Mutant: the list is cleared although the batch was not written.
HandlerFailsAndClears(h) ==
    /\ pc[h] = "failed"
    /\ logEvents' = <<>>
    /\ Finish(h)
    /\ UNCHANGED <<queueVars, sinkVars, eventTable, balanceLock, index, copied,
                   modified, up, eager, timerStarted, lastTag, addAt>>

\* WriteBatch threw: the exception is logged, the list stays.
HandlerFails(h) ==
    /\ pc[h] = "failed"
    /\ Finish(h)
    /\ UNCHANGED <<queueVars, sinkVars, logEvents, eventTable, balanceLock, index,
                   copied, modified, up, eager, timerStarted, lastTag, addAt>>

-----------------------------------------------------------------------------
(* The timer callback                                                        *)

\* The timer elapses on a list that is not empty (on an empty one the
\* callback returns).  Its branch for the eager option is never taken: see
\* EagerBeforeBatching.
Elapsed(t) ==
    /\ MayStart(t)
    /\ timerStarted
    /\ Len(logEvents) # 0
    /\ ~eager
    /\ CallWriteBatch(t)
    /\ UNCHANGED <<queueVars, sinkVars, logEvents, eventTable, balanceLock, serviceVars>>

\* BasicAck of the delivery that was remembered last, whatever was written.
TimerAck(t) ==
    /\ pc[t] = "written"
    /\ BasicAck(lastTag, TRUE)
    /\ Goto(t, "clear")
    /\ UNCHANGED <<sinkVars, logEvents, eventTable, balanceLock, index, copied,
                   modified, serviceVars>>

TimerClear(t) ==
    /\ pc[t] = "clear"
    /\ logEvents' = <<>>
    /\ modified' = Spoiled("insert")
    /\ Goto(t, "idle")
    /\ UNCHANGED <<queueVars, sinkVars, eventTable, balanceLock, index, copied,
                   serviceVars>>

-----------------------------------------------------------------------------
(* The process and its connection                                            *)

\* The process ends: nothing it held in memory survives, and the broker
\* takes back what it had not acknowledged.
ProcessEnds ==
    /\ up' = FALSE
    /\ CloseChannel("stopped")
    /\ UNCHANGED <<offset, rows>>
    /\ logEvents' = <<>>
    /\ eventTable' = <<>>
    /\ balanceLock' = NoFlow
    /\ pc' = [f \in Flows |-> "idle"]
    /\ index' = [f \in Flows |-> 0]
    /\ copied' = [f \in Flows |-> <<>>]
    /\ modified' = [f \in Flows |-> FALSE]
    /\ eager' = EagerlyEmitFirstEvent
    /\ timerStarted' = FALSE
    /\ lastTag' = 0
    /\ delivery' = [h \in Handlers |-> NoDelivery]
    /\ addAt' = [h \in Handlers |-> 0]

\* The callback is an async void lambda: what WriteBatch or BasicAck throws in
\* it is unhandled, and ends the process.
TimerThrows(t) ==
    /\ \/ pc[t] = "failed"
       \/ pc[t] = "written" /\ channel # "open"
    /\ ProcessEnds
    /\ UNCHANGED faults

Kill ==
    /\ up
    /\ Fault("kill")
    /\ ProcessEnds

\* StopAsync: the factory closes the connection while flows are in flight;
\* the host then exits.
StopAsync ==
    /\ up
    /\ channel \in {"open", "lost"}
    /\ Fault("stop")
    /\ CloseChannel("stopped")
    /\ UNCHANGED <<offset, rows, writerVars, serviceVars>>

Exit ==
    /\ up
    /\ channel = "stopped"
    /\ ProcessEnds
    /\ UNCHANGED faults

Restart ==
    /\ ~up
    /\ up' = TRUE
    /\ StartChannel
    /\ UNCHANGED <<sinkVars, writerVars, eager, timerStarted, lastTag, delivery, addAt>>

ConnectionLost ==
    /\ up
    /\ Fault("connection")
    /\ LoseConnection
    /\ UNCHANGED <<rows, writerVars, serviceVars>>

ConnectionRecovered ==
    /\ up
    /\ channel = "lost"
    /\ OpenChannel
    /\ UNCHANGED <<sinkVars, writerVars, serviceVars>>

-----------------------------------------------------------------------------
WriteBatch(f) ==
    /\ WriteBatchStep(f)
    /\ UNCHANGED <<queueVars, serviceVars>>

HandlerStep(h) ==
    \/ EagerWrite(h) \/ EagerAck(h)
    \/ AddBegin(h) \/ AddEnd(h) \/ Remember(h) \/ CountEvents(h)
    \/ HandlerAck(h) \/ HandlerClear(h) \/ HandlerFails(h)

TimerStep(t) == TimerAck(t) \/ TimerClear(t) \/ TimerThrows(t)

Environment ==
    \/ Kill \/ StopAsync \/ Exit \/ Restart
    \/ ConnectionLost \/ ConnectionRecovered

Next ==
    \/ \E h \in Handlers : Receive(h) \/ HandlerStep(h)
    \/ \E t \in Timers : Elapsed(t) \/ TimerStep(t)
    \/ \E f \in Flows : WriteBatch(f)
    \/ Environment

Spec == Init /\ [][Next]_vars

\* The dispatcher, the flows, the timer and the client library run on; a
\* stopped host exits, an ended process is started again, a lost connection
\* is recovered.
Fairness ==
    /\ \A h \in Handlers : WF_vars(Receive(h)) /\ WF_vars(HandlerStep(h))
    /\ \A t \in Timers : WF_vars(Elapsed(t)) /\ WF_vars(TimerStep(t))
    /\ \A f \in Flows : WF_vars(WriteBatch(f))
    /\ WF_vars(Exit) /\ WF_vars(Restart) /\ WF_vars(ConnectionRecovered)

FairSpec == Spec /\ Fairness

-----------------------------------------------------------------------------
(* Properties                                                                *)

\* The eager option is cleared before the list is first used: a started timer
\* or a non-empty list never meets it set, so the timer callback's eager
\* branch (which would iterate the list while handlers add to it) is dead.
EagerBeforeBatching == timerStarted \/ logEvents # <<>> => ~eager

\* A timer callback that has written a batch finds the delivery it is about
\* to acknowledge: _basicDeliverEventArgs is not null.
RememberedDelivery == \A t \in Timers : ~Idle(t) => lastTag # 0

\* What the broker was told to forget is in the table (an undecodable message
\* can be acknowledged by the cumulative acknowledgement of a later one).
AckedIsStored == settled \ Undecodable \subseteq Stored

\* The worker never acknowledges a delivery twice: the broker would close the
\* channel, and the process would go on without ever consuming again.
NeverRefused == channel # "refused"

\* A write is repeated only as long as the broker waits for the event: one that
\* was acknowledged gets no further row, however often the list, a redelivery or
\* a batch that failed in part brought it back before.  (Of flows that do not
\* overlap; a timer callback and a handler share the list and the DataTable.)
NeverRewritten == [][\A m \in settled : rows'[m] = rows[m]]_vars

\* Before the first fault no batch is larger than the configured limit.  (After
\* one, the list keeps the events of a failed batch and grows beyond it.)
BatchWithinLimit ==
    faults = 0 => \A f \in Flows :
        index[f] <= BatchPostingLimit /\ Len(copied[f]) <= BatchPostingLimit

\* A call of WriteBatch ends, whatever the other flows do: a flow that throws
\* inside FillDataTable gives the lock back.
EveryWriteReturns ==
    \A f \in Flows : pc[f] = WriteBatchEntry ~> pc[f] \in {"written", "failed", "idle"}

\* The contract speaks of the events that have a row, however many.
Contract == INSTANCE SinkContract WITH
    Messages <- Messages, Undecodable <- Undecodable,
    stored <- Stored, settled <- settled

\* The logging worker keeps the contract of a worker.
KeepsContract == Contract!Spec

\* Every event that was published, can be decoded and has a row the table
\* takes is in the end written and acknowledged.
EveryEventSettled == <>(Messages \ (Undecodable \cup Unwritable) \subseteq settled)
=============================================================================
