------------------------- MODULE WorkerStartupProofs -------------------------
(***************************************************************************)
(* Safety of the start-up for any number of hosts, any options of each, any  *)
(* objects that exist beforehand and any number of faults.                   *)
(***************************************************************************)
EXTENDS WorkerStartup, TLAPS

\* What a host has got past exists: nothing is ever dropped.
PassedInv ==
    \A h \in Hosts :
        /\ pc[h] \in {"createIndexes", "constructed"} \cup StartSteps =>
              (h \in AutoCreateSqlTable => "table" \in exists)
        /\ pc[h] = "declareAudit" => "loggingQueue" \in exists
        /\ pc[h] = "consume" => (h \in AutoCreateExchange => Queues \subseteq exists)
        /\ consuming[h] # {} => pc[h] \in StartSteps

StartupInv == TypeOK /\ PassedInv /\ ConsumesIntoTable /\ IndexesFollowTable

-----------------------------------------------------------------------------
LEMMA StartupInit ==
  Init => StartupInv
  BY WorkerStartupAssumption
     DEF Init, StartupInv, TypeOK, PassedInv, ConsumesIntoTable, IndexesFollowTable,
         Workers, ConstructorSteps, StartSteps

\* A host that throws starts from nothing; what exists stays.
LEMMA ThrowsInv ==
  ASSUME StartupInv, NEW h \in Hosts, Throws(h),
         exists \subseteq exists', exists' \subseteq SqlObjects \cup Queues,
         faults' \in 0 .. MaxFaults, IndexesFollowTable'
  PROVE  StartupInv'
<1>1. /\ pc'[h] = "down" /\ consuming'[h] = {}
      /\ \A g \in Hosts : g # h => pc'[g] = pc[g] /\ consuming'[g] = consuming[g]
  BY DEF Throws, Goto, StartupInv, TypeOK
<1>2. TypeOK'
  <2>1. failed' \in [Hosts -> BOOLEAN]
    BY Zenon DEF Throws, StartupInv, TypeOK
  <2> QED
    BY <2>1 DEF Throws, Goto, StartupInv, TypeOK, Workers
<1>3. PassedInv'
  BY <1>1 DEF StartupInv, PassedInv, StartSteps
<1>4. ConsumesIntoTable'
  BY <1>1 DEF StartupInv, ConsumesIntoTable
<1> QED
  BY <1>2, <1>3, <1>4 DEF StartupInv

\* A host that goes on to a later step of the construction or of the start,
\* when what that step relies on exists.
LEMMA GoesOnInv ==
  ASSUME StartupInv, NEW h \in Hosts,
         NEW label \in ConstructorSteps \cup StartSteps, Goto(h, label),
         exists \subseteq exists', exists' \subseteq SqlObjects \cup Queues,
         worker' \in [Hosts -> Workers], failed' \in [Hosts -> BOOLEAN],
         UNCHANGED <<consuming, faults>>,
         label \in {"createIndexes", "constructed"} \cup StartSteps =>
            (h \in AutoCreateSqlTable => "table" \in exists'),
         label = "declareAudit" => "loggingQueue" \in exists',
         label = "consume" => (h \in AutoCreateExchange => Queues \subseteq exists'),
         consuming[h] # {} => label \in StartSteps,
         IndexesFollowTable'
  PROVE  StartupInv'
<1>1. /\ pc'[h] = label
      /\ \A g \in Hosts : g # h => pc'[g] = pc[g]
  BY DEF Goto, StartupInv, TypeOK
<1>2. TypeOK'
  BY DEF Goto, StartupInv, TypeOK
<1>3. PassedInv'
  BY <1>1 DEF StartupInv, PassedInv
<1>4. ConsumesIntoTable'
  BY DEF StartupInv, ConsumesIntoTable
<1> QED
  BY <1>2, <1>3, <1>4 DEF StartupInv

\* As long as the table or the indexes do not change, a host that was not
\* about to create the indexes cannot take them away by moving.
LEMMA IndexesKept ==
  ASSUME StartupInv, NEW h \in Hosts, pc[h] # "createIndexes", NEW label, Goto(h, label),
         exists \subseteq exists', "table" \in exists' => "table" \in exists,
         faults' >= faults, faults' \in Nat
  PROVE  IndexesFollowTable'
<1>1. \A g \in Hosts : g # h => pc'[g] = pc[g]
  BY DEF Goto, StartupInv, TypeOK
<1>2. faults' = 0 => faults = 0
  BY WorkerStartupAssumption DEF StartupInv, TypeOK
<1> QED
  BY <1>1, <1>2 DEF StartupInv, IndexesFollowTable

\* After a fault the property speaks of the indexes no more.
LEMMA FaultInv ==
  ASSUME StartupInv, NEW kind, Fault(kind)
  PROVE  faults' \in 0 .. MaxFaults /\ IndexesFollowTable'
  BY WorkerStartupAssumption DEF Fault, StartupInv, TypeOK, IndexesFollowTable

\* A CREATE statement, whichever way it ends.
LEMMA CreateInv ==
  ASSUME StartupInv, NEW h \in Hosts,
         NEW object \in SqlObjects, NEW next \in ConstructorSteps, Create(h, object, next),
         consuming[h] = {},
         next \in {"createIndexes", "constructed"} =>
            object = "table" \/ (h \in AutoCreateSqlTable => "table" \in exists),
         object = "table" <=> next = "createIndexes",
         object = "indexes" <=> pc[h] = "createIndexes"
  PROVE  StartupInv'
<1> USE DEF StartSteps, ConstructorSteps
<1>1. CASE /\ object \notin exists
           /\ exists' = exists \cup {object}
           /\ Goto(h, next)
           /\ UNCHANGED <<worker, failed, consuming, faults>>
  <2>1. pc'[h] = next /\ \A g \in Hosts : g # h => pc'[g] = pc[g]
    BY <1>1 DEF Goto, StartupInv, TypeOK
  <2>2. IndexesFollowTable'
    BY <1>1, <2>1 DEF StartupInv, IndexesFollowTable
  <2>3. worker' \in [Hosts -> Workers] /\ failed' \in [Hosts -> BOOLEAN]
    BY <1>1, Zenon DEF StartupInv, TypeOK
  <2>4. exists' \subseteq SqlObjects \cup Queues
    BY <1>1 DEF StartupInv, TypeOK
  <2> QED
    BY <1>1, <2>2, <2>3, <2>4, GoesOnInv
<1>2. ASSUME object \in exists, UNCHANGED <<exists, faults>>, NEW label, Goto(h, label)
      PROVE  IndexesFollowTable'
  <2>1. \A g \in Hosts : g # h => pc'[g] = pc[g]
    BY <1>2 DEF Goto, StartupInv, TypeOK
  <2> QED
    BY <1>2, <2>1 DEF StartupInv, IndexesFollowTable
<1>3. CASE object \in exists /\ Throws(h) /\ UNCHANGED <<exists, faults>>
  <2>1. IndexesFollowTable'
    BY <1>2, <1>3 DEF Throws
  <2> QED
    BY <1>3, <2>1, ThrowsInv DEF StartupInv, TypeOK
<1>4. CASE /\ object \in exists
           /\ Goto(h, next)
           /\ failed' = [failed EXCEPT ![h] = TRUE]
           /\ UNCHANGED <<worker, consuming, exists, faults>>
  <2>1. IndexesFollowTable'
    BY <1>2, <1>4
  <2>2. failed' \in [Hosts -> BOOLEAN]
    BY <1>4, Zenon DEF StartupInv, TypeOK
  <2>3. worker' \in [Hosts -> Workers] /\ exists' \subseteq SqlObjects \cup Queues
    BY <1>4 DEF StartupInv, TypeOK
  <2> QED
    BY <1>4, <2>1, <2>2, <2>3, GoesOnInv
<1>5. CASE Fault("sql") /\ exists' \in {exists, exists \cup {object}} /\ Throws(h)
  <2>1. exists \subseteq exists' /\ exists' \subseteq SqlObjects \cup Queues
    BY <1>5 DEF StartupInv, TypeOK
  <2> QED
    BY <1>5, <2>1, FaultInv, ThrowsInv
<1> QED
  BY <1>1, <1>3, <1>4, <1>5 DEF Create

\* The steps that change neither what exists nor the faults, nor whether a
\* statement has failed.
LEMMA QuietInv ==
  ASSUME StartupInv, NEW h \in Hosts, pc[h] # "createIndexes",
         NEW label \in ConstructorSteps \cup StartSteps, Goto(h, label),
         worker' \in [Hosts -> Workers], UNCHANGED <<exists, failed, consuming, faults>>,
         label \in {"createIndexes", "constructed"} \cup StartSteps =>
            (h \in AutoCreateSqlTable => "table" \in exists),
         label # "declareAudit",
         label = "consume" => (h \in AutoCreateExchange => Queues \subseteq exists),
         consuming[h] # {} => label \in StartSteps
  PROVE  StartupInv'
<1>1. IndexesFollowTable'
  BY IndexesKept DEF StartupInv, TypeOK
<1>2. failed' \in [Hosts -> BOOLEAN]
  BY Zenon DEF StartupInv, TypeOK
<1> QED
  BY <1>1, <1>2, GoesOnInv DEF StartupInv, TypeOK

\* A host that throws with nothing created.
LEMMA QuietThrowsInv ==
  ASSUME StartupInv, NEW h \in Hosts, pc[h] # "createIndexes", Throws(h),
         UNCHANGED <<exists, faults>>
  PROVE  StartupInv'
<1>1. IndexesFollowTable'
  BY IndexesKept DEF Throws, StartupInv, TypeOK
<1> QED
  BY <1>1, ThrowsInv DEF StartupInv, TypeOK

-----------------------------------------------------------------------------
LEMMA ConstructorInv ==
  ASSUME StartupInv, NEW h \in Hosts,
         \/ Launch(h) \/ CheckDatabase(h) \/ CreateDatabase(h) \/ CheckSchema(h)
         \/ CreateSchema(h) \/ CheckTable(h) \/ CreateTable(h) \/ CreateIndexes(h)
         \/ Constructed(h)
  PROVE  StartupInv'
<1> USE DEF ConstructorSteps, StartSteps
<1>1. worker \in [Hosts -> Workers]
  BY DEF StartupInv, TypeOK
<1>2. pc[h] \notin StartSteps => consuming[h] = {}
  BY DEF StartupInv, PassedInv
<1>3. CASE Launch(h)
  BY <1>1, <1>2, <1>3, QuietInv DEF Launch
<1>4. CASE CheckDatabase(h)
  BY <1>1, <1>2, <1>4, QuietInv DEF CheckDatabase, Check
<1>5. CASE CreateDatabase(h)
  BY <1>2, <1>5, CreateInv DEF CreateDatabase, SqlObjects
<1>6. CASE CheckSchema(h)
  BY <1>1, <1>2, <1>6, QuietInv, QuietThrowsInv DEF CheckSchema, Check
<1>7. CASE CreateSchema(h)
  BY <1>2, <1>7, CreateInv DEF CreateSchema, SqlObjects
<1>8. CASE CheckTable(h)
  BY <1>1, <1>2, <1>8, QuietInv DEF CheckTable, Check
<1>9. CASE CreateTable(h)
  BY <1>2, <1>9, CreateInv DEF CreateTable, SqlObjects
<1>10. CASE CreateIndexes(h)
  <2>1. h \in AutoCreateSqlTable => "table" \in exists
    BY <1>10 DEF CreateIndexes, StartupInv, PassedInv
  <2> QED
    BY <1>2, <1>10, <2>1, CreateInv DEF CreateIndexes, SqlObjects
<1>11. CASE Constructed(h)
  <2>1. pc[h] = "constructed" /\ (h \in AutoCreateSqlTable => "table" \in exists)
    BY <1>11 DEF Constructed, StartupInv, PassedInv
  <2>2. CASE Throws(h)
    BY <1>11, <2>1, <2>2, QuietThrowsInv DEF Constructed
  <2>3. ASSUME NEW w \in Workers, worker' = [worker EXCEPT ![h] = w],
               NEW label \in {"checkDatabase", "connect"}, Goto(h, label),
               UNCHANGED <<failed, consuming, exists, faults>>
        PROVE  StartupInv'
    <3>1. worker' \in [Hosts -> Workers]
      BY <1>1, <2>3
    <3> QED
      BY <1>2, <2>1, <2>3, <3>1, QuietInv
  <2> QED
    BY <1>11, <2>2, <2>3 DEF Constructed, Workers
<1> QED
  BY <1>3, <1>4, <1>5, <1>6, <1>7, <1>8, <1>9, <1>10, <1>11

LEMMA StartInv ==
  ASSUME StartupInv, NEW h \in Hosts,
         Connect(h) \/ DeclareLogging(h) \/ DeclareAudit(h) \/ Consume(h)
  PROVE  StartupInv'
<1> USE DEF ConstructorSteps, StartSteps
<1>1. worker \in [Hosts -> Workers] /\ exists \subseteq SqlObjects \cup Queues
  BY DEF StartupInv, TypeOK
<1>2. pc[h] \in StartSteps /\ (h \in AutoCreateSqlTable => "table" \in exists)
  BY DEF Connect, DeclareLogging, DeclareAudit, Consume, StartupInv, PassedInv
<1>3. CASE Connect(h)
  BY <1>1, <1>2, <1>3, QuietInv DEF Connect
<1>4. ASSUME NEW queue \in Queues, NEW label \in StartSteps, Declare(h, queue, label),
             pc[h] \in StartSteps,
             label = "declareAudit" => queue = "loggingQueue",
             label = "consume" => Queues \subseteq exists \cup {queue}
      PROVE  StartupInv'
  <2>1. exists' = exists \cup {queue} /\ Goto(h, label)
        /\ UNCHANGED <<worker, failed, consuming, faults>>
    BY <1>4 DEF Declare
  <2>2. IndexesFollowTable'
    BY <1>4, <2>1, IndexesKept DEF StartupInv, TypeOK, Queues
  <2>3. failed' \in [Hosts -> BOOLEAN]
    BY <2>1, Zenon DEF StartupInv, TypeOK
  <2> QED
    BY <1>1, <1>2, <1>4, <2>1, <2>2, <2>3, GoesOnInv
<1>5. CASE DeclareLogging(h)
  BY <1>4, <1>5 DEF DeclareLogging, Queues
<1>6. CASE DeclareAudit(h)
  <2>1. "loggingQueue" \in exists
    BY <1>6 DEF DeclareAudit, StartupInv, PassedInv
  <2> QED
    BY <1>4, <1>6, <2>1 DEF DeclareAudit, Queues
<1>7. CASE Consume(h)
  <2>1. CASE Throws(h)
    BY <1>7, <2>1, QuietThrowsInv DEF Consume
  <2>2. CASE /\ QueueOf[worker[h]] \in exists
             /\ consuming' = [consuming EXCEPT ![h] = @ \cup {worker[h]}]
             /\ worker' = [worker EXCEPT ![h] = "audit"]
             /\ Goto(h, IF worker[h] = "logging" THEN "connect" ELSE "running")
             /\ UNCHANGED failed
    <3>1. UNCHANGED <<exists, faults>> /\ pc[h] = "consume"
      BY <1>7 DEF Consume
    <3>2. /\ pc'[h] \in {"connect", "running"}
          /\ \A g \in Hosts : g # h => pc'[g] = pc[g] /\ consuming'[g] = consuming[g]
          /\ consuming'[h] = consuming[h] \cup {worker[h]}
      BY <2>2 DEF Goto, StartupInv, TypeOK
    <3>3. TypeOK'
      <4>1. failed' \in [Hosts -> BOOLEAN]
        BY <2>2, Zenon DEF StartupInv, TypeOK
      <4> QED
        BY <2>2, <3>1, <4>1 DEF Goto, StartupInv, TypeOK, Workers
    <3>4. PassedInv'
      BY <1>2, <3>1, <3>2 DEF StartupInv, PassedInv
    <3>5. ConsumesIntoTable'
      <4>1. h \in AutoCreateExchange => Queues \subseteq exists
        BY <3>1 DEF StartupInv, PassedInv
      <4> QED
        BY <1>2, <2>2, <3>1, <3>2, <4>1 DEF StartupInv, ConsumesIntoTable
    <3>6. IndexesFollowTable'
      BY <2>2, <3>1, IndexesKept DEF StartupInv, TypeOK
    <3> QED
      BY <3>3, <3>4, <3>5, <3>6 DEF StartupInv
  <2> QED
    BY <1>7, <2>1, <2>2 DEF Consume
<1> QED
  BY <1>3, <1>5, <1>6, <1>7

LEMMA StartupStep ==
  StartupInv /\ [Next]_vars => StartupInv'
<1> SUFFICES ASSUME StartupInv, [Next]_vars PROVE StartupInv'
  OBVIOUS
<1>1. ASSUME NEW h \in Hosts, HostStep(h) PROVE StartupInv'
  BY <1>1, ConstructorInv, StartInv DEF HostStep
<1>2. ASSUME NEW h \in Hosts, BrokerFails(h) \/ Kill(h) PROVE StartupInv'
  <2>1. Throws(h) /\ UNCHANGED exists /\ exists \subseteq SqlObjects \cup Queues
    BY <1>2 DEF BrokerFails, Kill, StartupInv, TypeOK
  <2>2. faults' \in 0 .. MaxFaults /\ IndexesFollowTable'
    BY <1>2, FaultInv DEF BrokerFails, Kill
  <2> QED
    BY <2>1, <2>2, ThrowsInv
<1>3. CASE UNCHANGED vars
  <2>1. TypeOK'
    BY <1>3, Zenon DEF vars, StartupInv, TypeOK
  <2>2. PassedInv' /\ ConsumesIntoTable' /\ IndexesFollowTable'
    BY <1>3 DEF vars, StartupInv, PassedInv, ConsumesIntoTable, IndexesFollowTable
  <2> QED
    BY <2>1, <2>2 DEF StartupInv
<1> QED
  BY <1>1, <1>2, <1>3 DEF Next

\* The invariant holds in every state of every start-up.
THEOREM StartupInvariant == Spec => []StartupInv
  BY StartupInit, StartupStep, PTL DEF Spec

\* The variables of the start-up keep their types.
THEOREM TypeCorrect == Spec => []TypeOK
<1>1. StartupInv => TypeOK
  BY DEF StartupInv
<1> QED
  BY <1>1, StartupInvariant, PTL

\* Whatever hosts start beside each other and whatever fails, a worker that
\* consumes (WorkerService.cs:148) has the table and the queues it needs.
THEOREM NeverWithoutTable == Spec => []ConsumesIntoTable
<1>1. StartupInv => ConsumesIntoTable
  BY DEF StartupInv
<1> QED
  BY <1>1, StartupInvariant, PTL

\* Hosts that race to create the table leave it without its indexes
\* (SqlCreateTableWriter.cs:71-75) only when a fault stops one in between.
THEOREM IndexesNotForgotten == Spec => []IndexesFollowTable
<1>1. StartupInv => IndexesFollowTable
  BY DEF StartupInv
<1> QED
  BY <1>1, StartupInvariant, PTL
=============================================================================
