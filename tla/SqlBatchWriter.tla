--------------------------- MODULE SqlBatchWriter ---------------------------
(***************************************************************************)
(* ISqlBulkBatchWriter.WriteBatch(_logEvents, _eventTable), in its two       *)
(* implementations, step by step: it is called on the service's own list and *)
(* data table, which other flows of control go on using while it awaits.     *)
(*                                                                         *)
(* A flow calls it by setting its pc to WriteBatchEntry, and finds its pc    *)
(* at "written" when the returned task completed, at "failed" when it threw. *)
(* One operation on the List or the DataTable is one step.                   *)
(***************************************************************************)
EXTENDS LogEvents

CONSTANTS
    Flows,            \* flows of control: message handlers, timer callbacks
    NoFlow,           \* not a flow
    NoEvent,          \* a null element of the list
    UseSqlBulkCopy    \* MSSqlServerSinkOptions.UseSqlBulkCopy

ASSUME SqlBatchWriterAssumption ==
    /\ NoFlow \notin Flows
    /\ NoEvent \notin Messages
    /\ UseSqlBulkCopy \in BOOLEAN

VARIABLES
    logEvents,        \* _logEvents, the list being batched
    eventTable,       \* the rows of _eventTable
    balanceLock,      \* the flow inside FillDataTable's lock, or NoFlow
    pc,               \* where each flow is
    index,            \* elements of the list the flow has gone through
    copied,           \* rows the flow's bulk copy sends
    modified          \* the collection the flow enumerates was changed

writerVars == <<logEvents, eventTable, balanceLock, pc, index, copied, modified>>

ListElements == Messages \cup {NoEvent}

\* GetColumnsAndValues throws on a null event, the indexer beyond the size,
\* and a row may be refused.
Writable(i) == i \in DOMAIN logEvents /\ logEvents[i] \notin Unwritable \cup {NoEvent}

WriteBatchEntry == IF UseSqlBulkCopy THEN "enter" ELSE "open"

BulkSteps == {"enter", "fill", "row", "connect", "copy"}
WriterSteps == BulkSteps \cup {"open", "insert", "written", "failed"}

WriterTypeOK ==
    /\ logEvents \in Seq(ListElements)
    /\ eventTable \in Seq(Messages)
    /\ balanceLock \in Flows \cup {NoFlow}
    /\ index \in [Flows -> Nat]
    /\ copied \in [Flows -> Seq(Messages)]
    /\ modified \in [Flows -> BOOLEAN]

WriterInit ==
    /\ logEvents = <<>>
    /\ eventTable = <<>>
    /\ balanceLock = NoFlow
    /\ pc = [f \in Flows |-> "idle"]
    /\ index = [f \in Flows |-> 0]
    /\ copied = [f \in Flows |-> <<>>]
    /\ modified = [f \in Flows |-> FALSE]

Goto(f, label) == pc' = [pc EXCEPT ![f] = label]

\* A flow that changes the table (the list) spoils the enumerations of it
\* that are under way in other flows.
Spoiled(label) == [g \in Flows |-> modified[g] \/ pc[g] = label]

CallWriteBatch(f) ==
    /\ Goto(f, WriteBatchEntry)
    /\ index' = [index EXCEPT ![f] = 0]
    /\ UNCHANGED <<copied, modified>>

\* The finally block: the table is emptied, whichever way the call ends.
LeaveBulk(f, label) ==
    /\ eventTable' = <<>>
    /\ modified' = Spoiled("copy")
    /\ copied' = [copied EXCEPT ![f] = <<>>]
    /\ Goto(f, label)

-----------------------------------------------------------------------------
(* SqlBulkBatchWriter: fill the shared table under a lock, copy it outside.  *)

FillEnter(f) ==
    /\ pc[f] = "enter"
    /\ balanceLock = NoFlow
    /\ balanceLock' = f
    /\ Goto(f, "fill")
    /\ UNCHANGED <<logEvents, eventTable, index, copied, modified, sinkVars>>

\* The loop's test, i < events.Count, on a list others may add to or clear.
FillTest(f) ==
    /\ pc[f] = "fill"
    /\ \/ /\ index[f] < Len(logEvents)
          /\ Goto(f, "row")
          /\ UNCHANGED balanceLock
       \/ /\ index[f] >= Len(logEvents)
          /\ balanceLock' = NoFlow
          /\ Goto(f, "connect")
    /\ UNCHANGED <<logEvents, eventTable, index, copied, modified, sinkVars>>

\* Mutant: the lock is kept when the body throws.
FillRowKeepsLock(f) ==
    /\ pc[f] = "row"
    /\ LET i == index[f] + 1 IN
       \/ /\ Writable(i)
          /\ eventTable' = Append(eventTable, logEvents[i])
          /\ modified' = Spoiled("copy")
          /\ index' = [index EXCEPT ![f] = i]
          /\ Goto(f, "fill")
          /\ UNCHANGED copied
       \/ /\ ~Writable(i)
          /\ LeaveBulk(f, "failed")
          /\ UNCHANGED index
    /\ UNCHANGED <<logEvents, balanceLock, sinkVars>>

\* The loop's body: throws on an index the list no longer has, on null, and on
\* a row that is refused.
FillRow(f) ==
    /\ pc[f] = "row"
    /\ LET i == index[f] + 1 IN
       \/ /\ Writable(i)
          /\ eventTable' = Append(eventTable, logEvents[i])
          /\ modified' = Spoiled("copy")
          /\ index' = [index EXCEPT ![f] = i]
          /\ Goto(f, "fill")
          /\ UNCHANGED <<balanceLock, copied>>
       \/ /\ ~Writable(i)
          /\ balanceLock' = NoFlow
          /\ LeaveBulk(f, "failed")
          /\ UNCHANGED index
    /\ UNCHANGED <<logEvents, sinkVars>>

\* OpenAsync has completed: the copy takes the rows the table has by now.
BeginCopy(f) ==
    /\ pc[f] = "connect"
    /\ copied' = [copied EXCEPT ![f] = eventTable]
    /\ modified' = [modified EXCEPT ![f] = FALSE]
    /\ Goto(f, "copy")
    /\ UNCHANGED <<logEvents, eventTable, balanceLock, index, sinkVars>>

\* WriteToServerAsync completes; its rows commit together.
CopyDone(f) ==
    /\ pc[f] = "copy"
    /\ InsertRows(copied[f])
    /\ LeaveBulk(f, "written")
    /\ UNCHANGED <<logEvents, balanceLock, index, faults>>

\* Opening or copying throws: on a SQL error, with or without the rows having
\* been committed, or because the table was changed under the enumeration.
BulkFails(f) ==
    /\ pc[f] \in {"connect", "copy"}
    /\ \/ /\ Fault("sql")
          /\ UNCHANGED rows
       \/ /\ pc[f] = "copy"
          /\ Fault("sql")
          /\ InsertRows(copied[f])
       \/ /\ pc[f] = "copy"
          /\ modified[f]
          /\ UNCHANGED sinkVars
    /\ LeaveBulk(f, "failed")
    /\ UNCHANGED <<logEvents, balanceLock, index>>

-----------------------------------------------------------------------------
(* SqlInsertStatementWriter: one INSERT per element, no transaction.         *)

\* OpenAsync has completed, or throws; the enumerator of the list is created.
InsertOpen(f) ==
    /\ pc[f] = "open"
    /\ \/ /\ Goto(f, "insert")
          /\ modified' = [modified EXCEPT ![f] = FALSE]
          /\ UNCHANGED faults
       \/ /\ Fault("sql")
          /\ Goto(f, "failed")
          /\ UNCHANGED modified
    /\ UNCHANGED <<logEvents, eventTable, balanceLock, index, copied, rows>>

\* Mutant: every other element is skipped.
InsertEveryOther(f) ==
    /\ pc[f] = "insert"
    /\ LET i == index[f] + 1 IN
       \/ /\ Writable(i)
          /\ InsertRows(<<logEvents[i]>>)
          /\ index' = [index EXCEPT ![f] = i + 1]
          /\ UNCHANGED <<pc, faults>>
       \/ /\ i > Len(logEvents)
          /\ Goto(f, "written")
          /\ UNCHANGED <<index, sinkVars>>
    /\ UNCHANGED <<logEvents, eventTable, balanceLock, copied, modified>>

\* One turn of the foreach over the live list: MoveNext throws once the list
\* was changed, a null element throws, an INSERT commits or fails.
InsertNext(f) ==
    /\ pc[f] = "insert"
    /\ LET i == index[f] + 1 IN
       \/ /\ ~modified[f]
          /\ Writable(i)
          /\ InsertRows(<<logEvents[i]>>)
          /\ index' = [index EXCEPT ![f] = i]
          /\ \/ UNCHANGED <<pc, faults>>
             \/ Fault("sql") /\ Goto(f, "failed")
       \/ /\ ~modified[f]
          /\ i > Len(logEvents)
          /\ Goto(f, "written")
          /\ UNCHANGED <<index, sinkVars>>
       \/ /\ modified[f] \/ (i \in DOMAIN logEvents /\ ~Writable(i))
          /\ Goto(f, "failed")
          /\ UNCHANGED <<index, sinkVars>>
       \/ /\ Fault("sql")
          /\ Goto(f, "failed")
          /\ UNCHANGED <<index, rows>>
    /\ UNCHANGED <<logEvents, eventTable, balanceLock, copied, modified>>

WriteBatchStep(f) ==
    \/ FillEnter(f) \/ FillTest(f) \/ FillRow(f)
    \/ BeginCopy(f) \/ CopyDone(f) \/ BulkFails(f)
    \/ InsertOpen(f) \/ InsertNext(f)
=============================================================================
