--------------------------- MODULE LogEventsProofs ---------------------------
(***************************************************************************)
(* What a write does to the table, for the proofs about the workers.         *)
(***************************************************************************)
EXTENDS LogEvents, FiniteSetTheorems, TLAPS

\* A batch holds an event a number of times, at least once if it holds it.
LEMMA OccurrencesBounds ==
  ASSUME NEW S, NEW events \in Seq(S), NEW m
  PROVE  /\ Occurrences(m, events) \in Nat
         /\ (\E i \in DOMAIN events : events[i] = m) => Occurrences(m, events) > 0
<1> DEFINE I == {i \in DOMAIN events : events[i] = m}
<1>1. IsFiniteSet(DOMAIN events)
  BY FS_Interval, Len(events) \in Nat, DOMAIN events = 1 .. Len(events)
<1>2. IsFiniteSet(I)
  BY <1>1, FS_Subset, I \in SUBSET DOMAIN events
<1>3. Cardinality(I) \in Nat
  BY <1>2, FS_CardinalityType
<1>4. I # {} => Cardinality(I) # 0
  BY <1>2, FS_EmptySet
<1>5. Occurrences(m, events) = Cardinality(I)
  BY DEF Occurrences
<1>6. (\E i \in DOMAIN events : events[i] = m) => I # {}
  OBVIOUS
<1> HIDE DEF I
<1> QED
  BY <1>3, <1>4, <1>5, <1>6

\* A write makes rows for what it holds, and takes none away.
LEMMA InsertRowsEffect ==
  ASSUME NEW S, NEW events \in Seq(S), rows \in [Messages -> 0 .. MaxRows],
         InsertRows(events)
  PROVE  /\ rows' \in [Messages -> 0 .. MaxRows]
         /\ \A m \in Messages : rows'[m] >= rows[m]
         /\ \A i \in DOMAIN events : events[i] \in Messages => rows'[events[i]] > 0
<1>1. \A m \in Messages : Occurrences(m, events) \in Nat
  BY OccurrencesBounds
<1>2. \A m \in Messages :
         /\ rows'[m] \in 0 .. MaxRows
         /\ rows'[m] >= rows[m]
         /\ Occurrences(m, events) > 0 => rows'[m] > 0
  BY <1>1, LogEventsAssumption DEF InsertRows
<1>3. \A m \in Messages : \A i \in DOMAIN events :
         events[i] = m => Occurrences(m, events) > 0
  BY OccurrencesBounds
<1>4. rows' \in [Messages -> 0 .. MaxRows]
  BY <1>2 DEF InsertRows
<1> QED
  BY <1>2, <1>3, <1>4

\* The same for the write of one event.
LEMMA InsertOneEffect ==
  ASSUME NEW m \in Messages, rows \in [Messages -> 0 .. MaxRows], InsertRows(<<m>>)
  PROVE  /\ rows' \in [Messages -> 0 .. MaxRows]
         /\ \A n \in Messages : rows'[n] >= rows[n]
         /\ rows'[m] > 0
<1>1. <<m>> \in Seq(Messages) /\ 1 \in DOMAIN <<m>> /\ <<m>>[1] = m
  OBVIOUS
<1> QED
  BY <1>1, InsertRowsEffect

\* A write makes no row for an event that it does not hold.
LEMMA InsertRowsElsewhere ==
  ASSUME NEW events, rows \in [Messages -> 0 .. MaxRows], InsertRows(events),
         NEW m \in Messages, \A i \in DOMAIN events : events[i] # m
  PROVE  rows'[m] = rows[m]
<1>1. {i \in DOMAIN events : events[i] = m} = {}
  OBVIOUS
<1>2. Occurrences(m, events) = 0
  BY <1>1, FS_EmptySet DEF Occurrences
<1>3. /\ rows[m] \in 0 .. MaxRows
      /\ MaxRows \in Nat
  BY LogEventsAssumption
<1> HIDE DEF Occurrences
<1> QED
  BY <1>2, <1>3 DEF InsertRows
=============================================================================
