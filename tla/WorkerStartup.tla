---------------------------- MODULE WorkerStartup ----------------------------
(***************************************************************************)
(* How the hosts of an installation start, side by side, on one database and *)
(* one broker.  A host constructs the logging worker and the audit worker,    *)
(* each of which creates the database and the table unless they exist        *)
(* (WorkerService's constructor), and then starts the two, each of which      *)
(* connects, declares both queues and consumes its own (ExecuteAsync).  What  *)
(* throws on the way ends the process; it is started again.                  *)
(*                                                                         *)
(* The SQL scripts test and create in separate statements, without a          *)
(* transaction or a lock: other hosts run in between.                        *)
(***************************************************************************)
EXTENDS Naturals

CONSTANTS
    Hosts,                    \* the hosts that start on the same database
    AutoCreateSqlDatabase,    \* those whose sink options ask to create the database
    AutoCreateSqlTable,       \* those whose sink options ask to create the table
    AutoCreateExchange,       \* those configured to declare exchanges and queues
    Provisioned,              \* the objects that exist before the first host starts
    FaultKinds,               \* the kinds of fault that happen
    MaxFaults                 \* bound: faults of one behaviour

Workers == {"logging", "audit"}

QueueOf == [w \in Workers |-> IF w = "logging" THEN "loggingQueue" ELSE "auditQueue"]

\* "indexes" are those that the table's script creates after the table.
SqlObjects == {"database", "schema", "table", "indexes"}
Queues == {"loggingQueue", "auditQueue"}

ASSUME WorkerStartupAssumption ==
    /\ AutoCreateSqlDatabase \subseteq Hosts
    /\ AutoCreateSqlTable \subseteq Hosts
    /\ AutoCreateExchange \subseteq Hosts
    /\ Provisioned \subseteq SqlObjects \cup Queues
    /\ "table" \in Provisioned => "indexes" \in Provisioned
    /\ FaultKinds \subseteq {"sql", "connection", "kill"}
    /\ MaxFaults \in Nat

VARIABLES
    exists,       \* the database objects and queues there are
    pc,           \* where each host is
    worker,       \* the worker it constructs or starts
    failed,       \* a statement of the script it runs has failed
    consuming,    \* its workers that consume
    faults        \* faults so far

vars == <<exists, pc, worker, failed, consuming, faults>>

ConstructorSteps ==
    {"checkDatabase", "createDatabase", "checkSchema", "createSchema",
     "checkTable", "createTable", "createIndexes", "constructed"}
StartSteps == {"connect", "declareLogging", "declareAudit", "consume", "running"}

TypeOK ==
    /\ exists \subseteq SqlObjects \cup Queues
    /\ pc \in [Hosts -> {"down"} \cup ConstructorSteps \cup StartSteps]
    /\ worker \in [Hosts -> Workers]
    /\ failed \in [Hosts -> BOOLEAN]
    /\ consuming \in [Hosts -> SUBSET Workers]
    /\ faults \in 0 .. MaxFaults

Init ==
    /\ exists = Provisioned
    /\ pc = [h \in Hosts |-> "down"]
    /\ worker = [h \in Hosts |-> "logging"]
    /\ failed = [h \in Hosts |-> FALSE]
    /\ consuming = [h \in Hosts |-> {}]
    /\ faults = 0

Fault(kind) ==
    /\ kind \in FaultKinds
    /\ faults < MaxFaults
    /\ faults' = faults + 1

Goto(h, label) == pc' = [pc EXCEPT ![h] = label]

\* An exception leaves the constructor or ExecuteAsync: the process ends.
Throws(h) ==
    /\ Goto(h, "down")
    /\ worker' = [worker EXCEPT ![h] = "logging"]
    /\ failed' = [failed EXCEPT ![h] = FALSE]
    /\ consuming' = [consuming EXCEPT ![h] = {}]

Launch(h) ==
    /\ pc[h] = "down"
    /\ Goto(h, "checkDatabase")
    /\ UNCHANGED <<exists, worker, failed, consuming, faults>>

-----------------------------------------------------------------------------
(* The constructor: SqlDatabaseCreator.Execute, SqlTableCreator.Execute       *)

\* IF NOT EXISTS (...) of a script.
Check(h, object, create, skip) ==
    /\ Goto(h, IF object \in exists THEN skip ELSE create)
    /\ UNCHANGED <<exists, worker, failed, consuming, faults>>

\* A CREATE statement: it succeeds, fails because another host was faster, or
\* fails on a SQL error, perhaps after it was carried out.  A failure either
\* ends the script or lets its later statements run; Execute throws in both.
Create(h, object, next) ==
    \/ /\ object \notin exists
       /\ exists' = exists \cup {object}
       /\ Goto(h, next)
       /\ UNCHANGED <<worker, failed, consuming, faults>>
    \/ /\ object \in exists
       /\ \/ Throws(h)
          \/ /\ Goto(h, next)
             /\ failed' = [failed EXCEPT ![h] = TRUE]
             /\ UNCHANGED <<worker, consuming>>
       /\ UNCHANGED <<exists, faults>>
    \/ /\ Fault("sql")
       /\ exists' \in {exists, exists \cup {object}}
       /\ Throws(h)

\* Mutant: the script creates the database without the test.
CheckDatabaseNever(h) ==
    /\ pc[h] = "checkDatabase"
    /\ Goto(h, IF h \in AutoCreateSqlDatabase THEN "createDatabase" ELSE "checkSchema")
    /\ UNCHANGED <<exists, worker, failed, consuming, faults>>

CheckDatabase(h) ==
    /\ pc[h] = "checkDatabase"
    /\ \/ /\ h \in AutoCreateSqlDatabase
          /\ Check(h, "database", "createDatabase", "checkSchema")
       \/ /\ h \notin AutoCreateSqlDatabase
          /\ Goto(h, "checkSchema")
          /\ UNCHANGED <<exists, worker, failed, consuming, faults>>

\* The script has one statement only: Execute throws if it failed.
CreateDatabase(h) ==
    /\ pc[h] = "createDatabase"
    /\ Create(h, "database", "checkSchema")
    /\ ~failed'[h]

\* The table's script runs on a connection to the database, which must exist.
CheckSchema(h) ==
    /\ pc[h] = "checkSchema"
    /\ \/ /\ h \in AutoCreateSqlTable
          /\ "database" \in exists
          /\ Check(h, "schema", "createSchema", "checkTable")
       \/ /\ h \in AutoCreateSqlTable
          /\ "database" \notin exists
          /\ Throws(h)
          /\ UNCHANGED <<exists, faults>>
       \/ /\ h \notin AutoCreateSqlTable
          /\ Goto(h, "constructed")
          /\ UNCHANGED <<exists, worker, failed, consuming, faults>>

CreateSchema(h) ==
    /\ pc[h] = "createSchema"
    /\ Create(h, "schema", "checkTable")

CheckTable(h) ==
    /\ pc[h] = "checkTable"
    /\ Check(h, "table", "createTable", "constructed")

\* Mutant: the indexes are left out.
CreateTableOnly(h) ==
    /\ pc[h] = "createTable"
    /\ Create(h, "table", "constructed")

\* Mutant: Execute logs the exception and does not throw it again.
CreateTableSwallows(h) ==
    /\ pc[h] = "createTable"
    /\ \/ Create(h, "table", "createIndexes")
       \/ /\ Fault("sql")
          /\ Goto(h, "constructed")
          /\ UNCHANGED <<exists, worker, failed, consuming>>

CreateTable(h) ==
    /\ pc[h] = "createTable"
    /\ Create(h, "table", "createIndexes")

CreateIndexes(h) ==
    /\ pc[h] = "createIndexes"
    /\ Create(h, "indexes", "constructed")

\* The script is done: Execute throws if a statement of it failed.  The host
\* constructs the audit worker after the logging worker, and then starts both.
Constructed(h) ==
    /\ pc[h] = "constructed"
    /\ \/ /\ failed[h]
          /\ Throws(h)
       \/ /\ ~failed[h]
          /\ worker[h] = "logging"
          /\ worker' = [worker EXCEPT ![h] = "audit"]
          /\ Goto(h, "checkDatabase")
          /\ UNCHANGED <<failed, consuming>>
       \/ /\ ~failed[h]
          /\ worker[h] = "audit"
          /\ worker' = [worker EXCEPT ![h] = "logging"]
          /\ Goto(h, "connect")
          /\ UNCHANGED <<failed, consuming>>
    /\ UNCHANGED <<exists, faults>>

-----------------------------------------------------------------------------
(* ExecuteAsync                                                              *)

\* GetConnectionAsync and CreateModel; what throws is thrown on.
Connect(h) ==
    /\ pc[h] = "connect"
    /\ Goto(h, IF h \in AutoCreateExchange THEN "declareLogging" ELSE "consume")
    /\ UNCHANGED <<exists, worker, failed, consuming, faults>>

\* CreateExchangesAndQueues: each worker declares the queues of both, whether
\* or not they exist.
Declare(h, queue, next) ==
    /\ exists' = exists \cup {queue}
    /\ Goto(h, next)
    /\ UNCHANGED <<worker, failed, consuming, faults>>

DeclareLogging(h) ==
    /\ pc[h] = "declareLogging"
    /\ Declare(h, "loggingQueue", "declareAudit")

DeclareAudit(h) ==
    /\ pc[h] = "declareAudit"
    /\ Declare(h, "auditQueue", "consume")

\* Mutant: the consumer is remembered under the name of its queue.
ConsumeQueue(h) ==
    /\ pc[h] = "consume"
    /\ QueueOf[worker[h]] \in exists
    /\ consuming' = [consuming EXCEPT ![h] = @ \cup {QueueOf[worker[h]]}]
    /\ Goto(h, "running")
    /\ UNCHANGED <<exists, worker, failed, faults>>

\* BasicConsume, which the broker refuses when there is no such queue.
Consume(h) ==
    /\ pc[h] = "consume"
    /\ \/ /\ QueueOf[worker[h]] \in exists
          /\ consuming' = [consuming EXCEPT ![h] = @ \cup {worker[h]}]
          /\ worker' = [worker EXCEPT ![h] = "audit"]
          /\ Goto(h, IF worker[h] = "logging" THEN "connect" ELSE "running")
          /\ UNCHANGED failed
       \/ /\ QueueOf[worker[h]] \notin exists
          /\ Throws(h)
    /\ UNCHANGED <<exists, faults>>

-----------------------------------------------------------------------------
\* The connection to the broker breaks while a worker of the host starts.
BrokerFails(h) ==
    /\ pc[h] \in StartSteps \ {"running"}
    /\ Fault("connection")
    /\ Throws(h)
    /\ UNCHANGED exists

\* The process ends, between any two statements.
Kill(h) ==
    /\ pc[h] # "down"
    /\ Fault("kill")
    /\ Throws(h)
    /\ UNCHANGED exists

HostStep(h) ==
    \/ Launch(h)
    \/ CheckDatabase(h) \/ CreateDatabase(h) \/ CheckSchema(h) \/ CreateSchema(h)
    \/ CheckTable(h) \/ CreateTable(h) \/ CreateIndexes(h) \/ Constructed(h)
    \/ Connect(h) \/ DeclareLogging(h) \/ DeclareAudit(h) \/ Consume(h)

Next == \E h \in Hosts : HostStep(h) \/ BrokerFails(h) \/ Kill(h)

Spec == Init /\ [][Next]_vars

\* A host that has ended is started again, and runs on.
FairSpec == Spec /\ \A h \in Hosts : WF_vars(HostStep(h))

-----------------------------------------------------------------------------
(* Properties                                                                *)

\* A worker that consumes finds the table that its host was to create and the
\* queues, whichever host created them and whatever failed meanwhile.
ConsumesIntoTable ==
    \A h \in Hosts : consuming[h] # {} =>
        /\ h \in AutoCreateSqlTable => "table" \in exists
        /\ \A w \in consuming[h] : QueueOf[w] \in exists
        /\ h \in AutoCreateExchange => Queues \subseteq exists

\* While nothing fails but the CREATE statements that come too late, a table
\* without its indexes is one that some host is about to give its indexes.
\* (A process that is killed in between leaves it without them for good.)
IndexesFollowTable ==
    faults = 0 /\ "table" \in exists /\ "indexes" \notin exists =>
        \E h \in Hosts : pc[h] = "createIndexes"

\* Hosts that lose the race to create an object start at their next attempt:
\* in the end all of them run both workers, those that create nothing too.
EveryHostStarts == <>[](\A h \in Hosts : consuming[h] = Workers)
=============================================================================
