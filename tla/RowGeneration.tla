---------------------------- MODULE RowGeneration ----------------------------
(***************************************************************************)
(* What LogEventDataGenerator puts into a column for a log event that was read*)
(* from a queue.  A text is its length; any other value is typed if it is of  *)
(* the .NET type of its column.  The text that the XML and JSON formatters    *)
(* produce is any text.                                                       *)
(***************************************************************************)
EXTENDS SqlColumns

CONSTANTS
    TextLengths      \* the lengths of the texts of the events

ASSUME RowGenerationAssumption ==
    TextLengths \subseteq Nat

\* What LogEventJsonConverter makes of a property: an int, a text (also of an
\* object or an array), or nothing if the property is null or missing.  A
\* parsable text can be converted to the .NET type of its column, or is XML; so
\* can an extreme one, but to a value that the SQL type may not hold.
TextKinds == {"text", "parsable", "extreme"}
PropertyKinds == TextKinds \cup {"number", "absent"}
PropertyValues == [kind : PropertyKinds, length : TextLengths]

Values == [kind : PropertyKinds \cup {"typed"}, length : Nat]

\* What a column of a row holds.  A value that is outside is of the .NET type of
\* the column, which its SQL type does not hold; a struct prints as a text of its
\* length.
Contents == [kind : {"text", "typed", "outside", "null", "struct"}, length : Nat]

Null == [kind |-> "null", length |-> 0]
Typed == [kind |-> "typed", length |-> 0]
Outside == [kind |-> "outside", length |-> 0]
Text(length) == [kind |-> "text", length |-> length]
Struct(length) == [kind |-> "struct", length |-> length]

\* A value of the .NET type of the column.
InRange(options, value) ==
    IF value.kind = "extreme" /\ options.dataType \in NarrowTypes THEN Outside ELSE Typed

-----------------------------------------------------------------------------
(* StringExtensions                                                          *)

SuffixLength == 3

\* Mutant: the suffix is appended to a text that was cut to the full length.
TruncateThenSuffix(length, maxLength) ==
    IF length <= maxLength THEN length ELSE maxLength + SuffixLength

\* The length of value.Truncate(maxLength, "...").
Truncate(length, maxLength) ==
    IF length <= maxLength THEN length
    ELSE IF maxLength <= SuffixLength THEN 0
    ELSE (maxLength - SuffixLength) + SuffixLength

TruncateOutput(length, dataLength) ==
    IF dataLength < 0 THEN length ELSE Truncate(length, dataLength)

-----------------------------------------------------------------------------
(* StandardColumnDataGenerator                                               *)

\* The columns whose text is cut to their length.
CutColumns == {"Message", "MessageTemplate", "Exception"}

\* An event read from the queue has no trace and span of its own: the ids are
\* the default ones, of a fixed length.  Every other column has some text.
TraceIdLength == 32
SpanIdLength == 16

StandardValues(column) ==
    CASE column = "TimeStamp" -> [kind : {"typed", "extreme"}, length : {0}]
      [] column = "TraceId" -> [kind : {"text"}, length : {TraceIdLength}]
      [] column = "SpanId" -> [kind : {"text"}, length : {SpanIdLength}]
      [] OTHER -> [kind : {"text"}, length : TextLengths]

\* Level is stored as a number if its column is TinyInt (StoreAsEnum), the
\* timestamp is converted to the type of its column, the ids stay structs.
GetStandardColumnValue(column, options, value) ==
    IF column \in CutColumns THEN Text(TruncateOutput(value.length, options.dataLength))
    ELSE IF column = "TimeStamp" THEN InRange(options, value)
    ELSE IF options.dataType = "TinyInt" THEN Typed
    ELSE IF column \in {"TraceId", "SpanId"} THEN Struct(value.length)
    ELSE Text(value.length)

-----------------------------------------------------------------------------
(* AdditionalColumnDataGenerator                                             *)

\* Is the value of the .NET type of the column?
Assignable(options, value) ==
    IF options.dataType \in StringTypes
    THEN value.kind \in TextKinds
    ELSE value.kind = "number" /\ options.dataType = "Int"

\* TypeConverter.ConvertFrom: from a text to another type, never to a string.
Convertible(options, value) ==
    value.kind \in {"parsable", "extreme"} /\ options.dataType \notin StringTypes

\* The property is a scalar: the reader makes nothing else of it.
GetAdditionalColumnValue(options, value) ==
    IF value.kind = "absent" THEN Null
    ELSE IF Assignable(options, value)
    THEN IF options.dataType \in DataLengthRequired
         THEN Text(TruncateOutput(value.length, options.dataLength))
         ELSE IF options.dataType # "Xml" THEN Typed
         ELSE IF value.kind = "parsable" THEN Text(value.length) ELSE Outside
    ELSE IF Convertible(options, value) THEN InRange(options, value)
    ELSE IF options.allowNull THEN Null ELSE Text(value.length)

-----------------------------------------------------------------------------
\* The properties of an event by their names that the resolvers find for a
\* column.  The hierarchical one takes the first part of the name for a property
\* and looks for the rest in its structure: but the reader makes scalars only.
GetPropertyValueForColumn(column, options, event) ==
    IF HasHierarchicalPropertyName(options) THEN {}
    ELSE event \cap {PropertyName(column, options)}

ValuesOf(column, options) ==
    IF column \notin Custom THEN StandardValues(column)
    ELSE IF HasHierarchicalPropertyName(options)
    THEN [kind : {"absent"}, length : {0}]
    ELSE PropertyValues

GetColumnValue(column, options, value) ==
    IF column \in Custom
    THEN GetAdditionalColumnValue(options, value)
    ELSE GetStandardColumnValue(column, options, value)

\* Does a column of the DataTable take the content?  A text in a column of
\* another type is refused, as the model has it also when the text could be
\* converted; a struct is turned into text.
Takes(layout, content) ==
    \/ content.kind = "null" /\ layout.nullable
    \/ content.kind \in {"typed", "outside"}
    \/ /\ content.kind \in {"text", "struct"}
       /\ layout.text
       /\ layout.length >= 0 => content.length <= layout.length

\* Does a column of the SQL table, as a parameter of an INSERT?  A SqlParameter
\* has no type for a struct, and the SQL type holds no value outside of it.  (The
\* length of a text is what the column counts: the collation is not UTF-8.)
TakesParameter(layout, content) ==
    content.kind \notin {"struct", "outside"} /\ Takes(layout, content)
=============================================================================
