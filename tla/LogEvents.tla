------------------------------ MODULE LogEvents ------------------------------
(***************************************************************************)
(* What every part of the host shares: the log events that producers have   *)
(* published, the rows of the SQL table they end up in, and the faults of    *)
(* the world around the host (SQL errors, lost connections, stops, kills),   *)
(* which are counted so that a behaviour suffers at most MaxFaults of them.  *)
(***************************************************************************)
EXTENDS Naturals, Sequences, FiniteSets

CONSTANTS
    Messages,       \* the published log events
    Undecodable,    \* those whose body does not deserialize to a log event
    Unwritable,     \* those whose row is refused, such as one without a property
                    \* that a NOT NULL column is to hold
    FaultKinds,     \* the kinds of fault that happen, see AllFaultKinds
    MaxFaults,      \* bound: faults of one behaviour
    MaxRows         \* bound: rows of one event are counted up to this number

\* "sql": a statement or a connection to the database fails;  "connection":
\* the connection to the broker breaks;  "stop": the host is told to stop;
\* "kill": the process ends without a warning.
AllFaultKinds == {"sql", "connection", "stop", "kill"}

ASSUME LogEventsAssumption ==
    /\ Undecodable \subseteq Messages
    /\ Unwritable \subseteq Messages
    /\ FaultKinds \subseteq AllFaultKinds
    /\ MaxFaults \in Nat
    /\ MaxRows \in Nat \ {0}

VARIABLES
    rows,           \* rows[m]: how many rows of the table hold event m
    faults          \* faults so far

sinkVars == <<rows, faults>>

SinkTypeOK ==
    /\ rows \in [Messages -> 0 .. MaxRows]
    /\ faults \in 0 .. MaxFaults

SinkInit ==
    /\ rows = [m \in Messages |-> 0]
    /\ faults = 0

Stored == {m \in Messages : rows[m] > 0}

Occurrences(m, events) == Cardinality({i \in DOMAIN events : events[i] = m})

\* One committed write of a sequence of events.
InsertRows(events) ==
    rows' = [m \in Messages |->
                LET n == rows[m] + Occurrences(m, events)
                IN  IF n < MaxRows THEN n ELSE MaxRows]

Fault(kind) ==
    /\ kind \in FaultKinds
    /\ faults < MaxFaults
    /\ faults' = faults + 1

\* The INSERT of one event commits ...
InsertCommits(m) ==
    /\ m \notin Unwritable
    /\ InsertRows(<<m>>)
    /\ UNCHANGED faults

\* ... or throws: its row is refused, or SQL Server fails, perhaps after it
\* has committed.
InsertThrows(m) ==
    \/ /\ m \in Unwritable
       /\ UNCHANGED sinkVars
    \/ /\ Fault("sql")
       /\ \/ UNCHANGED rows
          \/ m \notin Unwritable /\ InsertRows(<<m>>)
=============================================================================
