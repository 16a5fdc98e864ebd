---------------------------- MODULE AuditService ----------------------------
(***************************************************************************)
(* The audit worker (WorkerService<T> and AuditService): every message of    *)
(* the audit queue is written to the table by itself, and acknowledged by    *)
(* itself once it is there.                                                  *)
(***************************************************************************)
EXTENDS EventQueue

CONSTANTS
    Handlers,     \* Received handlers that can be in flight
    NoMessage     \* not a message

ASSUME AuditServiceAssumption == NoMessage \notin Messages

VARIABLES
    up,           \* the host process runs
    pc,           \* where each handler is
    delivery      \* the delivery each handler processes

serviceVars == <<up, pc, delivery>>
vars == <<queueVars, sinkVars, serviceVars>>

NoDelivery == [tag |-> 0, msg |-> NoMessage]

TypeOK ==
    /\ QueueTypeOK
    /\ SinkTypeOK
    /\ up \in BOOLEAN
    /\ pc \in [Handlers -> {"idle", "write", "ack"}]
    /\ delivery \in [Handlers -> Deliveries \cup {NoDelivery}]
    /\ \A h \in Handlers : pc[h] # "idle" => delivery[h] \in Deliveries

Init ==
    /\ QueueInit
    /\ SinkInit
    /\ up = TRUE
    /\ pc = [h \in Handlers |-> "idle"]
    /\ delivery = [h \in Handlers |-> NoDelivery]

Idle(h) == pc[h] = "idle"

\* Mutant: the handler's delivery becomes null instead of an empty one.
FinishWithNull(h) ==
    /\ pc' = [pc EXCEPT ![h] = "idle"]
    /\ delivery' = [delivery EXCEPT ![h] = NoMessage]

Finish(h) ==
    /\ pc' = [pc EXCEPT ![h] = "idle"]
    /\ delivery' = [delivery EXCEPT ![h] = NoDelivery]

-----------------------------------------------------------------------------
\* A dispatcher hands a delivery to the handler, which leaves one that does
\* not deserialize unacknowledged.  The dispatcher of a recovered channel
\* does not wait for a handler of the lost one.
Receive(h) ==
    /\ up
    /\ Idle(h)
    /\ \A g \in Handlers : Idle(g) \/ delivery[g].tag <= offset
    /\ \E m \in Messages :
        /\ Deliver(m)
        /\ IF m \in Undecodable
           THEN UNCHANGED <<pc, delivery>>
           ELSE /\ delivery' = [delivery EXCEPT ![h] = [tag |-> nextTag, msg |-> m]]
                /\ pc' = [pc EXCEPT ![h] = "write"]
    /\ UNCHANGED <<sinkVars, up>>

\* Mutant: a failed write is logged, and the message acknowledged all the same.
WriteEventSwallows(h) ==
    /\ pc[h] = "write"
    /\ InsertCommits(delivery[h].msg) \/ InsertThrows(delivery[h].msg)
    /\ pc' = [pc EXCEPT ![h] = "ack"]
    /\ UNCHANGED <<queueVars, up, delivery>>

\* Mutant: the acknowledgement is forgotten.
WriteEventOnly(h) ==
    /\ pc[h] = "write"
    /\ InsertCommits(delivery[h].msg) \/ InsertThrows(delivery[h].msg)
    /\ Finish(h)
    /\ UNCHANGED <<queueVars, up>>

\* WriteEvent inserts the event's row.  ProcessMessage logs an exception and
\* returns: the delivery stays unacknowledged, with or without a row.
WriteEvent(h) ==
    /\ pc[h] = "write"
    /\ \/ /\ InsertCommits(delivery[h].msg)
          /\ pc' = [pc EXCEPT ![h] = "ack"]
          /\ UNCHANGED delivery
       \/ /\ InsertThrows(delivery[h].msg)
          /\ Finish(h)
    /\ UNCHANGED <<queueVars, up>>

\* Mutant: multiple: true, as in the logging worker.
AcknowledgeMultiple(h) ==
    /\ pc[h] = "ack"
    /\ \/ BasicAck(delivery[h].tag, TRUE)
       \/ channel # "open" /\ UNCHANGED queueVars
    /\ Finish(h)
    /\ UNCHANGED <<sinkVars, up>>

\* Mutant: the acknowledgement is repeated.
AcknowledgeAgain(h) ==
    /\ pc[h] = "ack"
    /\ BasicAck(delivery[h].tag, FALSE)
    /\ UNCHANGED <<sinkVars, serviceVars>>

\* BasicAck(tag, multiple: false); what it throws is logged too.
Acknowledge(h) ==
    /\ pc[h] = "ack"
    /\ \/ BasicAck(delivery[h].tag, FALSE)
       \/ channel # "open" /\ UNCHANGED queueVars
    /\ Finish(h)
    /\ UNCHANGED <<sinkVars, up>>

-----------------------------------------------------------------------------
(* The process and its connection                                            *)

ProcessEnds ==
    /\ up' = FALSE
    /\ CloseChannel("stopped")
    /\ pc' = [h \in Handlers |-> "idle"]
    /\ delivery' = [h \in Handlers |-> NoDelivery]
    /\ UNCHANGED <<offset, rows>>

Kill ==
    /\ up
    /\ Fault("kill")
    /\ ProcessEnds

\* StopAsync: the factory closes the connection under the handlers.
StopAsync ==
    /\ up
    /\ channel \in {"open", "lost"}
    /\ Fault("stop")
    /\ CloseChannel("stopped")
    /\ UNCHANGED <<offset, rows, serviceVars>>

Exit ==
    /\ up
    /\ channel = "stopped"
    /\ ProcessEnds
    /\ UNCHANGED faults

Restart ==
    /\ ~up
    /\ up' = TRUE
    /\ StartChannel
    /\ UNCHANGED <<sinkVars, pc, delivery>>

ConnectionLost ==
    /\ up
    /\ Fault("connection")
    /\ LoseConnection
    /\ UNCHANGED <<rows, serviceVars>>

ConnectionRecovered ==
    /\ up
    /\ channel = "lost"
    /\ OpenChannel
    /\ UNCHANGED <<sinkVars, serviceVars>>

-----------------------------------------------------------------------------
HandlerStep(h) == WriteEvent(h) \/ Acknowledge(h)

Environment ==
    \/ Kill \/ StopAsync \/ Exit \/ Restart
    \/ ConnectionLost \/ ConnectionRecovered

Next ==
    \/ \E h \in Handlers : Receive(h) \/ HandlerStep(h)
    \/ Environment

Spec == Init /\ [][Next]_vars

\* The dispatcher and the handlers run on; a stopped host exits, an ended
\* process is started again, a lost connection is recovered.
Fairness ==
    /\ \A h \in Handlers : WF_vars(Receive(h)) /\ WF_vars(HandlerStep(h))
    /\ WF_vars(Exit) /\ WF_vars(Restart) /\ WF_vars(ConnectionRecovered)

FairSpec == Spec /\ Fairness

-----------------------------------------------------------------------------
(* Properties                                                                *)

\* What the broker was told to forget is in the table, whatever failed.
AckedIsStored == settled \subseteq Stored

\* A handler that outlived its connection never makes the broker close the
\* channel of the next one: its acknowledgement names no live delivery.
NeverRefused == channel # "refused"

\* The contract speaks of the events that have a row, however many.
Contract == INSTANCE SinkContract WITH
    Messages <- Messages, Undecodable <- Undecodable,
    stored <- Stored, settled <- settled

\* AuditService keeps the contract of a worker: write first, settle afterwards.
KeepsContract == Contract!Spec

\* Every event that can be decoded and has a row the table takes is written
\* and then acknowledged, whatever happens to the others.
EveryEventSettled == <>(Messages \ (Undecodable \cup Unwritable) \subseteq settled)
=============================================================================
