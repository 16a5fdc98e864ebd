# A verification of the log consumer

The program in `src/` takes log events from two RabbitMQ queues and stores them in a table of
SQL Server. Beside it stand example producers, whose pages check their forms in the browser. This
directory holds TLA+ models of both, the TLC configurations that check them, and proofs for the TLA+
proof system. Paths below are relative to
`src/src/Serilog.RabbitMQ.Consumer.MSSqlServer/` unless they begin with `src/`.

Contents: [the system](#the-system) · [the modules](#the-modules) · [the runs](#the-runs) ·
[what the runs found](#what-the-runs-found) · [the proofs](#the-proofs) ·
[bounds and fairness](#bounds-and-fairness) · [what is not modelled](#what-is-not-modelled) ·
[plan](#plan)

Inside this directory: `tlc -workers 2 -config X.cfg M` runs a configuration (see the table of the
runs for its module), `tlapm MProofs.tla` checks the proofs of a module.

## The system

One process hosts two background workers. Each has its own connection factory, sink options and
SQL writers (every service is registered as transient, `Setup/WebApplicationBuilderExtensions.cs`),
so that the workers meet only in the database and on the broker.

    producers --> RabbitMQ --logging queue--> LoggingService --batches--> ISqlBulkBatchWriter --\
                          \--audit queue----> AuditService ---one by one-> ISqlLogEventWriter ---> log table

The pages of the examples (`src/src/Serilog.RabbitMq.Producer.Example`, `src/IntegrationTest.WebApplication`)
are a system of their own: `jquery.validate.unobtrusive.js` reads the `data-val-*` attributes that the
server renders, hands rules to the jQuery validator, and is called back to show what that finds. Both
copies of the file are the same; paths below say `unobtrusive.js`, and `jquery.validate.js` for the
validator beside it.

| component | state | operations | correct when |
|---|---|---|---|
| Logging worker, `BackgroundWorkers/LoggingService.cs`, `WorkerService.cs` | the list `_logEvents`, the DataTable `_eventTable`, `_basicDeliverEventArgs`, the timer, the eager option | the `Received` handler with `ProcessMessage`; the timer's `Elapsed`; `StopAsync` | an event is acknowledged only when its row is in the table; no acknowledgement is refused; every event is in the end settled; no batch exceeds the limit |
| Audit worker, `BackgroundWorkers/AuditService.cs`, `WorkerService.cs` | none but the deliveries in flight | the handler with `ProcessMessage`; `StopAsync` | the same, event by event |
| Batch writers, `MSSqlServer/Platform/SqlBulkBatchWriter.cs`, `SqlInsertStatementWriter.cs` | the lock, the shared DataTable | `WriteBatch`, `WriteEvent` | the lock is given back; what returns normally has written the batch |
| Connection factory, `RabbitMQ/RabbitMQConnectionFactory.cs` | the connection, a semaphore, a cancellation token | `GetConnectionAsync`, `Close`, `Dispose` | one connection for all callers, none left open by a shutdown, every call ends |
| Worker start-up, `WorkerService.cs`, `MSSqlServer/Platform/Sql*Creator.cs`, `Sql*Writer.cs` | database, schema, table, indexes, queues | check-then-create scripts, declarations, `BasicConsume` | no worker consumes without its table and queues; every host starts in the end |
| Column options, `MSSqlServer/ColumnOptions/*`, `SqlColumn.cs`, `DataTableCreator.cs` | options of each column, the key, the index | setters, `FinalizeConfigurationForSinkConstructor`, DDL, DataTable | a finalized configuration gives a script that SQL Server takes; the DataTable and a table made by the script take the same values |
| Row generation, `MSSqlServer/Output/*`, `Extensions/StringExtensions.cs` | none | `GetColumnsAndValues` | a value fits its column |
| Message deserialization, `BackgroundWorkers/LogEventJsonConverter.cs`, `ExceptionJsonConverter.cs` | the position in the JSON, nested calls | `Read` of both converters | an event is what its message says, and no field goes to another exception |
| Client-side validation, `unobtrusive.js` | the options of a form, the containers and the summary that show errors, the flag of a reset | `parse`, `parseElement`, the adapters, `onError`, `onErrors`, `onSuccess`, `onReset`, `validate` | what is shown is what was found last; a form that is let pass meets its attributes |
| Broker queue and channel, log table (external) | ready, unacknowledged and settled messages; rows | deliveries, `BasicAck`, recovery; INSERT, bulk copy | |
| Transient error detector, SQL client wrappers, `SqlLogEventWriter`, host set-up, the rest of the producers | none of their own | | not modelled, see below |

What is hard about it, each at its line under "hazards" in `PROJECT.json`:

- *Flows without a lock.* The handler and the timer's callbacks share the list, the DataTable and the
  remembered delivery, and await the database in between (`LoggingService.cs:55-69`, `:81-107`). The
  timer is AutoReset: a callback starts whether or not the previous one is done.
- *Cumulative acknowledgements.* `BasicAck(tag, multiple: true)` covers every earlier delivery, those
  that failed, do not deserialize, or arrived meanwhile included.
- *Partial failure.* The row-by-row writer commits part of a list and then fails; a bulk copy may fail
  after it has committed; `BasicAck` fails after everything is written; the list is kept in all cases.
- *Crash and recovery.* What the timer's `async void` callback throws ends the process. After a lost
  connection the client recovers by itself while a handler of the lost channel still runs.
- *A retry that never retries.* `WorkerService.cs:134` executes an `async` lambda under a synchronous
  policy: the policy gets a task, never an exception.
- *Races at start-up.* Several hosts run check-then-create scripts without a lock or a transaction.
- *Sequences of settings.* Any order of setters must leave options of which a table can be made.
- *A recursive reader* that takes the first end of an object as its own.
- *Property names* that are compared without case in one place and with it in another, and a setter that
  appends to the name it should replace (`SqlColumn.cs:111`).
- *A page between two libraries*: a label that one of them places, the other finds and uses again; resets
  while remote checks are pending; answers that come late, for values that have changed, or not at all.

## The modules

| module | models | state and actions, and the code they stand for |
|---|---|---|
| `LogEvents` | the table and the faults (external) | `rows[m]` counts the rows of event m. `InsertCommits`, `InsertThrows`: one INSERT. `Unwritable` are events whose row is refused, such as one without a property that a NOT NULL column is to hold. `Fault` counts SQL errors, lost connections, stops and kills. |
| `EventQueue` | queue and channel (external) | `ready`, `unacked`, `settled`, delivery tags, `channel`. `Deliver`, `BasicAck`, `Requeue`, `LoseConnection`, `OpenChannel`, as AMQP 0-9-1 and the client library define them |
| `SqlBatchWriter` | both `WriteBatch` | one step per operation on the list or the DataTable: `FillEnter` takes the lock, `FillTest` and `FillRow` are the loop in it, `BeginCopy` to `BulkFails` the copy outside of it, `LeaveBulk` the `finally`; `InsertOpen` and `InsertNext` the `foreach` over the live list |
| `LoggingService` | the logging worker | one `pc` per flow (handlers and timer callbacks). `Receive`, `EagerWrite`, `EagerAck`, `AddBegin`, `AddEnd`, `Remember`, `CountEvents`, `HandlerAck`, `HandlerClear`, `HandlerFails` follow `WorkerService.cs:113-146` and `ProcessMessage`; `Elapsed`, `TimerAck`, `TimerClear`, `TimerThrows` the callback; `Kill`, `StopAsync`, `Exit`, `Restart`, `ConnectionLost`, `ConnectionRecovered` the process |
| `MCLoggingService` | | the flows of the runs, and their symmetry |
| `SinkContract` | what a worker promises | the abstract specification, of two variables: `Write` adds to what is `stored` and takes none away, `Settle` gives up events that are stored. Both workers instantiate it WITH `stored <- Stored`, the events that have a row, however many, and their queue's `settled` |
| `AuditService` | the audit worker | `Receive`, `WriteEvent`, `Acknowledge` and the process, as above |
| `RabbitConnectionFactory` | the connection factory | each caller steps through `GetConnectionAsync` (`Call`, `Acquire`, `Awake`, `Recheck`, `Create`, `Release`), StopAsync through `Close` and `Dispose` (`Cancel`, `WaitForLock`, `CloseConnection`, `DisposeLock`, `DisposeConnection`) |
| `WorkerStartup` | the start of several hosts | statement by statement: the database's script, the table's script, the end of each constructor, then connection, declarations and `BasicConsume` of both workers |
| `SqlColumns` | columns and types | the tables of `SqlDataTypes`, the types that each class of column accepts, `AsDataColumn`, the DDL of a column |
| `RowGeneration` | what a column gets for an event | `Truncate`, `GetStandardColumnValue`, `GetPropertyValueForColumn` (both resolvers), `GetAdditionalColumnValue`; `Takes` and `TakesParameter` are what the DataTable and an INSERT accept. A text is its length, a value is `outside` if the .NET type holds it and the SQL type does not, the name of a property the sequence of its parts |
| `ColumnOptions` | the life of a `ColumnOptions` object | the setters, `Finalize`, `CreateTable` (the script is accepted, refused, or leaves alone a table that was there), `CreateDataTable`, `GenerateCell`; `FilteredProperties` are the properties that the text columns keep |
| `MCColumnOptions` | | the property names of the run |
| `MessageReader` | the two JSON converters | `ReadHeader`, `ReadProperty`, `ReadDetail`, `ReadPlainDetail` walk through the message; a stack of `frames` holds the recursive calls that read its exception, of which `ReadName`, `SkipToken`, `EndObject`, `ReadText`, `ReadInner`, `SkipValue` are the steps. `Return` is the verification that `JsonSerializer` makes after each call |
| `UnobtrusiveAdapters` | how a form is read, `unobtrusive.js:28-53, 177-226, 260-428` | pure operators: the list of `adapters` with what each was registered with, `Adapt` for the rules it sets, `setValidationValues`, `RulesOf` for `parseElement`, the methods `regex` and `nonalphamin` |
| `UnobtrusiveForm` | a page, from its loading to its leaving, `unobtrusive.js:55-172, 228-255` | parsing (`Parse`, `ParseElement`, `Insert`) into `options` by field, of which an attached validator keeps its own copy, `settings`; the validator (`CheckField`, `Submit`, `Validate`), what bypasses it (`SubmitCancelled`, `SubmitUnattached`) or ends it with an exception (`SubmitThrows`, `ValidateThrows`, `AnswerThrows`), what is shown (`onError`, `onErrors`, `onSuccess` inside `ShowErrors`), a reset in its steps (`Reset`, `NestedReset`, `ResetEnds`), the answers to remote checks (`AnswerAccepted`, `AnswerSends`, `AnswerRefused`, `AnswerLost`) |
| `MCUnobtrusiveForm` | | the 28 pages of the run |
| `*Proofs` | | the theorems, see below |

`LoggingService` extends `EventQueue` and `SqlBatchWriter`; `AuditService` extends `EventQueue`; both
extend `LogEvents` through them, and instantiate `SinkContract`. `ColumnOptions` extends
`RowGeneration`, which extends `SqlColumns`, and `UnobtrusiveForm` extends `UnobtrusiveAdapters`.
Definitions whose comment begins with "Mutant:"
are plausible bugs of the definition after them: put in its place, each makes the property fail that
`PROJECT.json` names with it. No specification uses them.

Some choices that a reader of the code may ask about:

- *Delivery tags* are numbered on across a recovery, as the client library does, and begin anew in a
  new process; tags up to `offset` belong to a channel that is gone, and the client drops them.
  A message reaches the client and its handler in one step. The real client prefetches, but a
  prefetched tag is greater than any that a handler can acknowledge. The queue is a set: its order
  is abstracted, so the models allow every order.
- *Two handlers* are in flight only after a recovery (`ConsumerDispatchConcurrency = 1`).
- *List and DataTable.* One operation on either is one step, except that `List.Add` is two: it reads
  the size, and then sets an element. An `Add` that a `Clear` cuts in two leaves nulls in the list, or
  its event beyond the size.
- *The dead branch.* The eager branch of the timer's callback is not modelled as an action:
  `EagerBeforeBatching`, proved for any overlap, shows that nothing reaches it.
- *`Overlap`* is a constant. With FALSE a flow starts only when no other is in flight: it isolates
  what the worker's sequential protocol guarantees from what the races below destroy.
- *Scripts.* A CREATE that fails ends the script or lets the later statements run, depending on the
  error; `Execute` throws in both cases. Something outside restarts a host that ended.
- *The reader* reveals the message as it reads it: a step picks the next token among those JSON allows.
  The code parses the whole body first, so a body that is not JSON is one that is `other`. The field
  `Data` stands for every field that the reader does not know, `Message` for those `GetString` reads.
- *The validator* (`jquery.validate.js`) is a package, modelled from its source as far as it calls this
  library or is called by it: which rules it tries in which order, when it finds its label again, what it
  forgets at a reset. When it checks a single field is left to the user. A handler of a page runs to its
  end before the next, as JavaScript has it, except that a reset may raise another inside it.
- *A page* is a record of what the server rendered: attributes, containers, which inputs come late, lie
  outside of the form or are parsed by a script, what the server accepts. A value is a sequence of
  characters, a pattern the sequence of its alternatives.
- *Setters* that throw change nothing and are left out. A cell depends on the options and one
  event only, so a behaviour of `ColumnOptions` generates one.

## The runs

`CHECK_DEADLOCK FALSE` stands in every configuration since the program may really stop: a host with an
empty queue idles, calls end, a construction and a message come to their end.

| run | module | states | shows |
|---|---|---|---|
| `LoggingSerial` | `MCLoggingService` | 730k | Flows one at a time, the row-by-row writer, four messages of which one is undecodable, limit 2, two faults of any kind: the worker keeps the contract (`KeepsContract`, `AckedIsStored`), an event that was acknowledged gets no further row, although redeliveries and lists that were written in part are written again (`NeverRewritten`), until a fault no batch exceeds the limit (`BatchWithinLimit`), every decodable event is in the end settled (`EveryEventSettled`) |
| `LoggingOverlap` | `MCLoggingService` | 198k | One handler and two overlapping callbacks, the bulk writer: the eager branch stays dead (`EagerBeforeBatching`), the remembered delivery is never null (`RememberedDelivery`), each `WriteBatch` ends (`EveryWriteReturns`) although the list changes under it |
| `LoggingRecovered` | `MCLoggingService` | 379k | A handler of a lost channel overlaps one of the recovered channel, with SQL errors: `NeverRefused`, since a handler acknowledges its own delivery; `EveryWriteReturns` |
| `Audit` | `AuditService` | 27k | Three messages, one undecodable and one whose row is refused, up to three lost connections, stops or kills, overlapping handlers: contract, acknowledgements, and liveness |
| `ConnectionFactory` | `RabbitConnectionFactory` | 3k | Three calls and a shutdown in every order: `OneConnection`, `MutualExclusion`, `ClosedForGood`, `EveryCallEnds` |
| `Startup` | `WorkerStartup` | 45k | Three hosts with different options on an empty database and broker, two faults: `ConsumesIntoTable`, `IndexesFollowTable`, `EveryHostStarts` |
| `Configuration` | `MCColumnOptions` | 1.4M | Three settings in any order on six columns, then the constructors, with or without a table that exists: for which reasons a script is refused (`OnlyIndexesRefused`), which values the DataTable or an INSERT refuses (`OnlyUncutRefused`), exactly which properties vanish with `ExcludeAdditionalProperties` (`PropertiesKept`) |
| `Reading` | `MessageReader` | 352k | Every message of two properties whose exception has up to nine tokens: the event that is read is what the message said (`EventIsMessage`), with the fields of each exception's own object (`OwnFieldsRead`); why a message cannot be read (`UnreadableHasReason`) |
| `Forms` | `MCUnobtrusiveForm` | 220k | 28 pages that use every adapter, alone and in pairs that set the same rule, hidden inputs, malformed patterns, buttons that cancel the check, and every way to show an error, under three edits: `ContainersTell` (but for the containers of `Orphan`) and `SummaryFollowsErrors` (what is shown was found), `SubmittedIsValid` (a form that is let pass meets the attributes of its fields that are neither hidden nor disabled), `UncheckedHasReason` (the four reasons for which one is sent unchecked), `MessagesFollowRules` |
| `LoggingRace`, `LoggingEagerFails`, `AuditStuck` | | | counterexamples, see the next section |

A type invariant is checked once per module that has one. Each property that passes has a mutant of
the code, in `PROJECT.json`, that breaks it under the same configuration.

## What the runs found

Each of these runs checks a property that the repository's end-to-end tests promise
("ConsumedAndLogsStoredToTheDatabase", `EndToEndTests.cs:21` and `:47`), and ends with a counterexample:

- `LoggingRace` (no fault at all): the timer's callback copies the list and awaits the database. Meanwhile
  the handler adds an event and remembers its delivery. The callback acknowledges the remembered delivery
  and clears the list (`LoggingService.cs:104-105`): the event is gone from queue and list, without a row.
- `LoggingEagerFails` (one SQL error, no overlap): the eager write of the first event throws; its delivery
  is in no list. The next acknowledgement, which is cumulative, covers it (`LoggingService.cs:49`).
- `AuditStuck` (one SQL error): `ProcessMessage` swallows the exception, so neither the retry policy nor
  anything else writes the event again as long as the connection lives (`AuditService.cs:28`).

Met while modelling, without a run of their own:

- Callbacks that overlap acknowledge the same remembered delivery, once each. The broker refuses the second
  and closes the channel (`LoggingService.cs:104`); hence `Sequenced` in `AcksAccepted`, and no run of
  overlapping callbacks lists `NeverRefused`.
- Rows are duplicated without any fault: an event with a refused row lets the row-by-row writer write the events
  before it in the list once more with the next batch (`SqlInsertStatementWriter.cs`), and a callback that
  overlaps a handler shares the DataTable with it (`SqlBulkBatchWriter.cs:62`). With timers that overlap
  not even `NeverRewritten` holds.
- An event whose row is refused makes each `WriteBatch` of a list that holds it throw. The callback's
  exception ends the process, the broker delivers the event again, and no event that shares a list with
  it is ever stored (`LoggingService.cs:99`). `EveryEventSettled` excepts such events only themselves:
  with one of them in the constants of `LoggingSerial` it fails.
- A property name that is set twice, or one of several parts, gives a column that is always NULL, while
  the text columns leave the property out (`SqlColumn.cs:111`, `LogEventJsonConverter.cs:82`); so does a
  name in another case (`Output/StandardColumnDataGenerator.cs:32`), and a value that a column cannot
  convert and may be NULL (`Output/AdditionalColumnDataGenerator.cs:61`). `PropertiesKept` is an equivalence:
  a property vanishes in these cases and in no other.
- The length of a column goes into the script as it was set (`SqlCreateTableWriter.cs:95`): CHAR(MAX), which is
  what the default of -1 gives, NVARCHAR(5000), or texts of fixed length beyond the limits of a row or a key are
  refused by SQL Server. `OnlyIndexesRefused` lists them.
- A table that exists is left alone (`SqlCreateTableWriter.cs:38`), and nothing compares its columns with the
  configured ones. What `OnlyUncutRefused` says of an INSERT is about a table that the script made.
- A timestamp before 1753 in a DATETIME column, and a converted value beyond its SQL type, are passed on and
  refused by the server (`Output/StandardColumnDataGenerator.cs:73`); `OnlyUncutRefused` lists these too.
- `TraceId` and `SpanId` are passed as structs, which the parameter of an INSERT does not take
  (`SqlInsertStatementWriter.cs:66`): no event can be audited in a table with these columns.
- `nonalphamin` refuses every value without a special character, also where it asks for none
  (`unobtrusive.js:357`, `match` is null). An `equalto` whose other input is missing is dropped by the
  validator, and an attribute without a method (`creditcard` without `additional-methods.js`, a `minlength`
  with both bounds) makes it throw, so that the browser sends the form unchecked.
- Inputs that are hidden or disabled are never checked, whatever attributes they have
  (`jquery.validate.js:294, 655-656`): `SubmittedIsValid` does not ask about them.
- A button with the class `cancel`, or with `formnovalidate`, sends the form unchecked
  (`jquery.validate.js:53-60, 102-105`).
- A pattern that JavaScript does not accept makes `new RegExp` throw as soon as its field has a value
  (`unobtrusive.js:349`). A submission is then left to the browser, which sends the form unchecked; in
  `validate()`, and in the answer to a remote check, the exception leaves a check half done, of which the
  page shows nothing. `ValidateThrows` and `AnswerThrows` are these.
- Rules of inputs that are parsed after the validator was attached never reach it (`unobtrusive.js:161`).
- With an `errorClass` of its own a page's labels stay in their containers over a reset; the validator
  uses them again without calling the library, and the container keeps its class (`Orphan`).
- A message whose `ExceptionDetail` holds an object that is no exception (`Data`, an element of
  `InnerExceptions`) cannot be read, although the JSON text of the detail is kept just before
  (`LogEventJsonConverter.cs:64`): the reader takes the end of that object for its own
  (`ExceptionJsonConverter.cs:16`), and `JsonSerializer` throws. This is the last reason that
  `UnreadableHasReason` lists.
- A number that is not a 32-bit integer makes an event unreadable (`LogEventJsonConverter.cs:77`), and so does
  a property with an empty or blank name, on which `LogEventProperty` throws (`:104`).
- An `ExceptionDetail` that is null discards the text of `Exception` (`LogEventJsonConverter.cs:64-65`):
  `EventIsMessage` says so.
- After a failed batch the list grows beyond `BatchPostingLimit`, which, says the comment at
  `MSSqlServer/MSSqlServerSinkOptions.cs:78`, "limits how many log events are written to the database per
  batch"; hence `faults = 0` in `BatchWithinLimit`.
- When a process ends, or a statement fails, between CREATE TABLE and CREATE INDEX, the indexes are never
  created (`SqlCreateTableWriter.cs:71`), hence `faults = 0` in `IndexesFollowTable`.
- Columns other than `Message`, `MessageTemplate` and `Exception` are not cut to their length, and what
  stands for a missing value in a NOT NULL column is refused; `OnlyUncutRefused` lists them.

## The proofs

All theorems hold for every value of the constants that satisfies the named assumptions of the modules
(`...Assumption`), with any number of messages, flows, callers, hosts, columns or tokens.

| module | theorem | states | from |
|---|---|---|---|
| `LoggingServiceProofs` | `TypeCorrect`, `EagerFirst`, `TimerHasDelivery` | `TypeOK`, `EagerBeforeBatching`, `RememberedDelivery`, however flows overlap | `BatchInv` |
| | `NothingLost`, `Refinement` | `AckedIsStored`, `KeepsContract`, assuming `Serial` | `SerialInv` |
| | `AcksAccepted` | `NeverRefused`, assuming `Sequenced` | `AckInv` |
| | `BatchesLimited` | `BatchWithinLimit`, assuming `Sequenced` and `Unwritable = {}` | `LimitInv` |
| | `WrittenUntilAcked` | `NeverRewritten`, assuming `~Overlap` | `WaitInv` |
| `AuditServiceProofs` | `TypeCorrect`, `NothingLost`, `AcksAccepted`, `Refinement` | `TypeOK`, `AckedIsStored`, `NeverRefused`, `KeepsContract` | `IInv` |
| `RabbitConnectionFactoryProofs` | `TypeCorrect`, `OneConnectionForAll`, `Exclusion`, `NothingLeftOpen` | `TypeOK`, `OneConnection`, `MutualExclusion`, `ClosedForGood` | `IInv` |
| `WorkerStartupProofs` | `TypeCorrect`, `NeverWithoutTable`, `IndexesNotForgotten` | `TypeOK`, `ConsumesIntoTable`, `IndexesFollowTable` | `StartupInv` |
| `ColumnOptionsProofs` | `TypeCorrect`, `FinalizedIsValid`, `CutValuesTaken`, `VanishingProperties` | `TypeOK`, `OnlyIndexesRefused`, `OnlyUncutRefused`, `PropertiesKept` | `ConfigInv` |
| `MessageReaderProofs` | `TypeCorrect`, `ReadAsSaid`, `ReasonGiven` | `TypeOK`, `EventIsMessage`, `UnreadableHasReason` | `SaidInv`, `FrameInv` |
| | `OwnFields` | `OwnFieldsRead` | `NestInv`, `ForeignInv`, `FieldsInv`, `ObjectsInv`, `DoneInv` |
| `UnobtrusiveFormProofs` | `TypeCorrect`, `ErrorsShown`, `SummaryTrue` | `TypeOK`, `ContainersTell`, `SummaryFollowsErrors` | `IInv` |
| | `MessagesFollow` | `MessagesFollowRules` | `ParseInv` |
| | `UncheckedReason` | `UncheckedHasReason` | `ParseInv`, `LeftInv` |
| | `Submitted` | `SubmittedIsValid` | `ParseInv`, `RemoteInv`, `LeftInv`, `ValidInv` |
| `LogEventsProofs` | lemmas | rows only grow, and an inserted event is stored | |

*Logging worker, any overlap.* `BatchInv` says that a handler at work has a delivery and remembers it
before it counts the list (`DeliveryInv`), that while `eager` is set no handler is past the eager branch
and no callback runs (`EagerInv`), and that a started timer implies a remembered delivery (`TimerInv`).
The properties themselves are not inductive: they speak of the list, the timer and the option, while
what connects these is where the handlers are. With two in flight, one may clear the option while the
other, which read it set, is still in the eager branch; the reverse, a handler past it while the option
is set, is what `EagerInv` excludes.

*Logging worker, flows one at a time.* `Serial` is: flows do not overlap, and the eager option is off
or no eager write can fail. `AckedIsStored` alone is not inductive: a cumulative acknowledgement settles
everything below its tag. `SerialInv` adds where each unacknowledged delivery is, namely at a handler that
has not yet written it, in the list, in the table, or undecodable (`CoverInv`), and how far the flow at
work has got (`ProgressInv`): the elements it has gone through are in the DataTable, then among the rows
it copies, then in the table. So when a flow is at "written", whatever its acknowledgement covers is
stored. `LoggingRace` and `LoggingEagerFails` show that both parts of `Serial` are needed. The refinement
follows step by step: a step writes, settles, or leaves the contract's variables alone.

*Its acknowledgements.* `NeverRefused` needs to know which tags the broker still waits for. The theorem
assumes less than `Serial`: `Sequenced` is that flows do not overlap, or that there is no timer callback, in
which case a handler of a lost channel may still be at work while the recovered channel delivers to another.
`OneLive`: of the flows at work at most one belongs to the present channel, the others have outlived theirs, and
whatever tag they hold the client drops (`Outlived`). `TagsInv`: every tag that a handler or `lastTag` holds was
given out, and an ended process holds none. `LiveInv`, while the channel is open: the delivery of a handler that
has not acknowledged is unacknowledged or of a lost channel (`Live`), and so is the remembered one whenever the
list is not empty and nobody is between its acknowledgement and the clearing of the list, which is where a
callback starts. An acknowledgement by one flow would take a tag away from another of the same channel; by
`OneLive` there is none. With flows of one channel at work side by side the claim is false: two callbacks may both
acknowledge the delivery that is remembered.

*Its batches.* `LimitInv` holds until the first fault. The list is full only between the `Add` that fills it
and the `Clear` of the same flow; a flow goes through no more elements than the list has, and copies no more
rows than it has gone through; the DataTable is empty unless a flow is filling or copying it. All of it would
break if a write or an acknowledgement failed, and left the list as it is: the first cannot happen without a
fault or a refused row, the second by `NeverRefused`, so that the proof uses `AckInv`.

*Its rows.* A row may be written twice: after a fault, after a refused row (the row-by-row writer has committed the
rows before it, the list is kept), or by overlapping flows, which share list and DataTable. `NeverRewritten` says
when that must end. `WaitInv` finds no acknowledged event anywhere a write could take it from: the broker has
each event once, queued, unacknowledged or settled (`QueueInv`), so that a delivery is of an event that is not
settled; the delivery that a handler has not stored yet, the list, the DataTable, which is empty outside of
`WriteBatch`, and the rows that a bulk copy sends are all unsettled (`FlowAwaited`). Only an acknowledgement
settles, and the flow that makes it clears the list before anything else happens; the eager acknowledgement
finds the list empty (`EagerInv`). An event may be twice in the list, redelivered after an acknowledgement that
failed: the one that succeeds comes with a `Clear` of both.

*Audit worker.* `IInv` says that an unacknowledged delivery has a tag of its own, which the present
channel gave out (`TagsInv`), that a handler with a delivery of the present channel is alone and the
broker still waits for its acknowledgement (`LiveInv`), and that a handler about to acknowledge has
written (`WrittenInv`). From them an acknowledgement is accepted and covers a stored event. A handler of
a lost channel keeps its delivery, but its tag is not above `offset`, and the client drops it.

*Connection factory.* `LockInv`: the one permit is free, inside one call, or kept by `Close`.
`ConnectionInv`: the connection is null or the only one ever created, and a call past the second test
knows which.

*Start-up.* `PassedInv`: what a host has got past exists, and nothing is ever dropped.

*Column options.* `KeyInv`: past the finalization the key is NOT NULL, and there is none beside a
columnstore index. `LayoutInv` and `CellInv` say of which options a layout or a cell was made, which
turns `OnlyUncutRefused` into lemmas about the operators of `SqlColumns` and `RowGeneration`: a value that the
code fits to its column is taken by the layout, and only conversions give one that is outside of the SQL type.
`NameInv` is what the setter of a property's name keeps, and all that `PropertiesKept` needs to know.

*Message reader.* `SaidInv` is `EventIsMessage` at every step: what was read so far is in the event, and its
exception is that of the last `ExceptionDetail` (`LastDetail`).
`FrameInv` is about the
nested calls: each frame stands at the depth at which its object is open, outer ones lower than inner
ones, and as long as there is no foreign object, every open object belongs to a frame. Hence an end of an
object that is not the innermost call's own shows that there is a foreign one. `OwnFieldsRead` compares what the
calls have read with the tokens themselves, by the depth of each token (`DepthIn`: the openings up to it, less the
closings). `NestInv` ties the two: a call's object begins at its `start`, at the call's depth, and the tokens
after it have not come out of it. `ForeignInv`: a call cannot return across a foreign object, so if there was
one, it is still open. `FieldsInv`, for the calls that run, and `DoneInv`, for those that returned: what a call
has for a name is the value after the last such name in its own object, to which an inner call, or a token of
one, adds nothing. `ObjectsInv` says that no exception's object is without a call. When the outermost call has
returned, no object is open, so that there was no foreign one, and every call is among those that returned.

*Pages.* `ContainersTell` is not inductive. Where the validator finds its own label again, it does not call
the library, and the container keeps the class it has. `TellInv` adds that a label that is found again, and
still knows its container, stands in one that shows an error. A reset unties labels, which on a page with an
`errorClass` of its own leaves the ones that `ContainersTell` excepts (`Orphan`).

The other three are about nested loops of the library: over the adapters, over the rules that an adapter sets,
and over the rules that the validator copies. In the model they are folds. A fold is a loop (`LoopsAreFolds`),
and what holds before the first round and is kept by each holds after the last (`UpTo` and `LoopSteps`), so that
an invariant of a loop can be proved for lists of any length. After the i-th adapter an element has the rules
that no later adapter up to the i-th set again (`LastSets`) and the message of the last that had one
(`LastSaid`). `ParseInv` says that the options of a field are what parsing makes of its attributes among the
inputs that were there, that the validator has no rules for a field or a copy of those, and that it has some for
all that was there when it was attached, unless a script parses. That yields `MessagesFollow`. `LeftInv` says
what each way of leaving tells of the page. For `UncheckedReason` it must follow from the rules that the
validator holds that some attribute is to blame: a rule without a method comes from one of three adapters, a
pattern that throws from one of four. `RemoteInv` says what is known of a
remote check whatever answers are late, lost or dropped: the value that the last question was about, and,
unless an answer is awaited, that a positive result is the server's about that value. For `Submitted` one lemma
for each kind of adapter then shows that the rule it set and the check that found nothing give what the
attribute demands, with `Overridden` for the attributes whose rule a later adapter replaced; `ValidInv` carries
that from the step that sends the form to the page's end. `PagesAssumption` is about what pages render: names and
values are texts, no attribute has an undefined message or an empty parameter, an `equalto` and a `remote`
attribute have the parameters that their adapters dereference, `data-valmsg-replace` is JSON.
A pattern may be malformed. That is how the server's validation attributes are rendered; TLC checks the
assumption for the pages of `Forms`.

Only model-checked:

- all liveness (`EveryEventSettled`, `EveryWriteReturns`, `EveryCallEnds`, `EveryHostStarts`), which the proof
  system cannot do under fairness.

Of the logging worker, what `Serial` and `Sequenced` exclude is neither proved nor true: `LoggingRace` and
`LoggingEagerFails` are its counterexamples. The invariants and action properties of the other runs are all
stated by a theorem.

## Bounds and fairness

| bound | why it is enough |
|---|---|
| `MaxFaults` 2 or 3 | one fault to leave something behind, one to meet it; the liveness runs need it finite, since a system that fails forever promises nothing |
| `MaxDeliveries` (per process) | 12 where liveness is checked: more deliveries than the messages can have within the faults of the run, so that the bound does not itself stop a behaviour; 3 to 5 in the runs of overlapping flows |
| `MaxRows` 1 or 2 | rows are counted up to it; the properties tell apart no row, one and more |
| `Messages` 2 to 4 | a batch that is full, one that is not, and an event beyond it |
| `BatchPostingLimit` 1 to 3 | batches of one and of several events |
| `Handlers`, `Timers` at most 2 | two of a kind overlap |
| `MaxTokens` 9 | an inner exception, or an object of a foreign field, with a field of its own and one of the outer exception after it |
| `MaxProperties` 2 | a property that comes twice, or one beside an exception |
| `MaxEdits` 3, `Values` 3, `Fields` 3, `Pages` 28 | a value is corrected and spoiled again between the question of a remote check and its answer; nothing, a letter, and a letter with a special character tell every method apart that the pages use; two inputs that refer to each other and one outside of the form; each adapter, pairs of adapters that set one rule, each way to show an error, a hidden input, a button that cancels the check and each attribute with a malformed pattern come in some page |
| `PropertyKeys`, `Segments` | names of one and of two parts, and two that differ in case only |
| `MaxChanges` 3, `DataTypes`, `DataLengths`, `TextLengths` | a column selected, made the key and changed; a type of each kind that code and SQL Server tell apart (fixed and variable text, XML, a type as wide as its .NET type and one that is narrower); lengths below, at and above a column's and the suffix's, and one that SQL Server does not have |

Fairness is weak and on single flows. A flow that is not waiting runs on, because it is a task on the
thread pool; the dispatcher hands over what the queue has, the timer elapses again and again; a stopped
process exits; a lost connection is recovered (`AutomaticRecoveryEnabled`); a process that has ended is
started again, which is the task of whatever supervises the host. No fault is fair. Neither a
`GetConnectionAsync` nor a shutdown has to begin. `Configuration`, `Reading` and `Forms` state no fairness:
nobody has to set an option, finish a message or submit a form.

## What is not modelled

- `MSSqlServer/SqlServerTransientExceptionDetector.cs`: a table of error numbers, consulted by the retry
  policy that cannot retry.
- The wrappers of `Microsoft.Data.SqlClient` and `SqlConnectionFactory`: thin; what they do to the
  table is in `SqlBatchWriter` and `LogEvents`.
- `SqlLogEventWriter` and the body of `SinkDependenciesFactory`: nothing uses them.
- `Program.cs`, registration, settings and health checks: no state of their own. The options that the
  workers read are constants of the modules.
- Producers and examples, except the validation of their pages: they publish through a package. Of the pages,
  the hooks that a page may register (`defaultOptions`, `errorPlacement` and its like), several forms on one
  page, inputs that are shown or hidden while the page lives (one that is hidden or disabled stays so),
  submit buttons and images with attributes, a `data-valmsg-replace` that is no JSON (on which `parseJSON`
  throws), and when the validator checks a single field, which the model leaves to the user. `site.js` holds
  comments only.
- Of the column options: replacing a standard column's object, names that clash, the conversion from
  DataColumn; limits on the number of columns. Of the columns of a table that was there before: all. Of the
  rows: the layout of JSON and XML.
- Of the readers: `Write` of both, and what the header's fields hold beside the level. The workers see what the reader refuses as `Undecodable`.
- What a `SemaphoreSlim` does to a call that waits while it is disposed.
- There is no `BasicQos`: how many deliveries pile up in the process is a matter of the bounds.

## Plan

Done, in this order: queue, writers and logging worker, with the contract and its proofs; audit worker;
connection factory; start-up; column options and rows; message reader; property names and the parameters of
the row-by-row writer; client-side validation. Next:

1. Compose `MessageReader` with `RowGeneration`, so that a row is followed from its message, and make
   `Undecodable` and `Unwritable` of the workers what these two modules say.
2. A run for nested objects in an exception's details, in the place of one that can be merged.
3. Proofs: what remains of the contract when flows do overlap (no event is acknowledged before some batch that
   began after its arrival was written); that the lock of the bulk writer is held by one flow at a time, however
   flows overlap.
