---------------------------- MODULE ColumnOptions ----------------------------
(***************************************************************************)
(* The life of a ColumnOptions object: a host configures it, the constructor *)
(* of SinkDependencies finalizes it, the worker's constructor creates the    *)
(* SQL table and the DataTable from it, and rows are generated by it.         *)
(*                                                                         *)
(* A setter that throws changes nothing and is left out.  A column is set     *)
(* through its own class, as hosts do: IdColumnOptions does not let its        *)
(* AllowNull be set.  The names of the columns are distinct.                  *)
(***************************************************************************)
EXTENDS RowGeneration

LOCAL INSTANCE FiniteSetsExt

CONSTANTS
    Configured,      \* the columns a host sets options of
    Unnamed,         \* added columns that are given no name
    DataTypes,       \* bound: the types that are tried
    DataLengths,     \* bound: the lengths that are tried, beside -1 (unlimited)
    PropertyKeys,    \* bound: the names of properties that are tried
    LowerCase,       \* a part of a name in lower case
    MaxChanges       \* bound: the settings of one behaviour

ASSUME ColumnOptionsAssumption ==
    /\ Configured \subseteq Columns
    /\ Unnamed \subseteq Custom
    /\ DataTypes \subseteq SupportedTypes
    /\ DataLengths \subseteq Nat
    /\ PropertyKeys \subseteq Seq(Segments) \ {<<>>}
    /\ MaxChanges \in Nat

VARIABLES
    options,           \* the options of each column
    store,             \* Store
    additional,        \* AdditionalColumns
    additionalNull,    \* AdditionalColumns is null
    primaryKey,        \* PrimaryKey
    columnstore,       \* ClusteredColumnstoreIndex
    phase,             \* how far the construction of the worker is
    table,             \* the layout of the SQL table, if the script created it
    eventTable,        \* the layout of the DataTable
    cell,              \* the value generated last, for which column, from what
    changes            \* settings so far

optionVars == <<options, store, additional, additionalNull, primaryKey, columnstore>>
vars == <<optionVars, phase, table, eventTable, cell, changes>>

Phases == {"configuring", "finalized", "created", "ready", "failed", "refused"}

TableColumns == store \cup additional

NoCell == [column |-> None]

\* The SQL table was there before, with columns that nobody compares.
Existing == <<>>

TypeOK ==
    /\ options \in [Columns -> Options]
    /\ \A c \in Columns : options[c].dataType \in AllowedTypes(c)
    /\ store \subseteq StandardColumn
    /\ additional \subseteq Custom
    /\ additionalNull \in BOOLEAN
    /\ primaryKey \in Columns \cup {None}
    /\ columnstore \in BOOLEAN
    /\ phase \in Phases
    /\ phase \in {"created", "ready"} =>
        table \in {Existing} \cup [TableColumns -> ColumnLayout]
    /\ phase = "ready" => eventTable \in [TableColumns -> ColumnLayout]
    /\ changes \in 0 .. MaxChanges

Init ==
    /\ options = [c \in Columns |-> DefaultOptions(c)]
    /\ store = {"Id", "Message", "MessageTemplate", "Level", "TimeStamp",
                "Exception", "Properties"}
    /\ additional = {}
    /\ additionalNull = FALSE
    /\ primaryKey = "Id"
    /\ columnstore = FALSE
    /\ phase = "configuring"
    /\ table = Existing
    /\ eventTable = <<>>
    /\ cell = NoCell
    /\ changes = 0

-----------------------------------------------------------------------------
(* Configuration                                                             *)

Configure ==
    /\ phase = "configuring"
    /\ changes < MaxChanges
    /\ changes' = changes + 1
    /\ UNCHANGED <<phase, table, eventTable, cell>>

SetOptions(c, changed) ==
    /\ options' = [options EXCEPT ![c] = changed]
    /\ UNCHANGED <<store, additional, additionalNull, primaryKey, columnstore>>

\* Mutant: the subclass does not hide DataType, so that any type is accepted.
SetDataTypeUnchecked(c) ==
    /\ Configure
    /\ \E t \in DataTypes :
        SetOptions(c, [options[c] EXCEPT !.dataType = t])

SetDataType(c) ==
    /\ Configure
    /\ \E t \in DataTypes \cap AllowedTypes(c) :
        SetOptions(c, [options[c] EXCEPT !.dataType = t])

SetDataLength(c) ==
    /\ Configure
    /\ \E n \in DataLengths \cup {-1} :
        SetOptions(c, [options[c] EXCEPT !.dataLength = n])

SetAllowNull(c) ==
    /\ Configure
    /\ c # "Id"
    /\ SetOptions(c, [options[c] EXCEPT !.allowNull = ~@])

SetNonClusteredIndex(c) ==
    /\ Configure
    /\ SetOptions(c, [options[c] EXCEPT !.nonClusteredIndex = ~@])

\* The setter of PropertyName appends the parts of the name to those it has; a
\* standard column has no use for it.
SetPropertyName(c) ==
    /\ Configure
    /\ c \in Custom
    /\ \E name \in PropertyKeys :
        SetOptions(c, [options[c] EXCEPT !.propertyName = name,
                                         !.hierarchy = @ \o name,
                                         !.renamed = options[c].propertyName # <<>>])

\* Store.Add, Store.Remove; AdditionalColumns.Add.
Select(c) ==
    /\ Configure
    /\ \/ /\ c \in StandardColumn
          /\ store' = IF c \in store THEN store \ {c} ELSE store \cup {c}
          /\ UNCHANGED additional
       \/ /\ c \in Custom
          /\ ~additionalNull
          /\ additional' = additional \cup {c}
          /\ UNCHANGED store
    /\ UNCHANGED <<options, additionalNull, primaryKey, columnstore>>

ClearAdditionalColumns ==
    /\ Configure
    /\ additional' = {}
    /\ additionalNull' = TRUE
    /\ UNCHANGED <<options, store, primaryKey, columnstore>>

SetPrimaryKey(c) ==
    /\ Configure
    /\ primaryKey' = c
    /\ UNCHANGED <<options, store, additional, additionalNull, columnstore>>

SetClusteredColumnstoreIndex ==
    /\ Configure
    /\ columnstore' = TRUE
    /\ UNCHANGED <<options, store, additional, additionalNull, primaryKey>>

-----------------------------------------------------------------------------
(* FinalizeConfigurationForSinkConstructor                                   *)

\* The key is dropped with the Id column, and for a columnstore index.
FinalKey ==
    IF columnstore \/ (primaryKey = "Id" /\ "Id" \notin store)
    THEN None ELSE primaryKey

FinalizeThrows ==
    \/ columnstore /\ \E c \in TableColumns :
            options[c].dataType \notin ColumnstoreCompatible
    \/ \E c \in additional : c \in Unnamed \/ options[c].dataType = NotSupported

\* Mutant: the key may still be null.
FinalizeNullable ==
    /\ phase = "configuring"
    /\ primaryKey' = FinalKey
    /\ phase' = IF FinalizeThrows THEN "failed" ELSE "finalized"
    /\ UNCHANGED <<options, store, additional, additionalNull, columnstore,
                   table, eventTable, cell, changes>>

\* The key is made NOT NULL, unless a check of a column throws first.
Finalize ==
    /\ phase = "configuring"
    /\ primaryKey' = FinalKey
    /\ \/ /\ FinalizeThrows
          /\ phase' = "failed"
          /\ UNCHANGED options
       \/ /\ ~FinalizeThrows
          /\ phase' = "finalized"
          /\ options' = IF FinalKey = None THEN options
                        ELSE [options EXCEPT ![FinalKey].allowNull = FALSE]
    /\ UNCHANGED <<store, additional, additionalNull, columnstore,
                   table, eventTable, cell, changes>>

-----------------------------------------------------------------------------
(* The worker's constructor                                                  *)

\* CreateDataTable throws: it is given no list of additional columns, or a
\* column without a length.
CreateDataTableThrows ==
    additionalNull \/ \E c \in TableColumns : LacksLength(options[c])

\* Only a text of variable length has MAX for a length.
ColumnTypeExists(column) ==
    column.dataType \in DataLengthRequired =>
        \/ column.dataLength \in 1 .. MaxLength(column.dataType)
        \/ column.dataLength = -1 /\ column.dataType \in VariableCharacterColumnTypes

Indexable(c) ==
    options[c].dataType # "Xml" /\
    ~(options[c].dataType \in DataLengthRequired /\ options[c].dataLength = -1)

\* A text of fixed length takes all its bytes in a row and in an index key, which
\* have limits, the smallest that of a clustered key.
SmallestLimit == 900

FixedBytes(column) ==
    CASE column.dataType = "Char" -> column.dataLength
      [] column.dataType = "NChar" -> 2 * column.dataLength
      [] OTHER -> 0

TextBytes(columns, selected) == MapThenSumSet(LAMBDA c : FixedBytes(columns[c]), selected)

MayBeTooWide == TextBytes(options, TableColumns) > SmallestLimit

\* What SQL Server (2017 or later) asks of the script: a table has a column, a
\* key is one of its columns, NOT NULL and indexable, and no second clustered
\* index beside a columnstore index, which takes only some types.
ScriptAccepted ==
    /\ TableColumns # {}
    /\ \A c \in TableColumns : ColumnTypeExists(options[c])
    /\ "Id" \in store => ~options["Id"].allowNull
    /\ primaryKey # None =>
        /\ primaryKey \in TableColumns
        /\ ~GetColumnDDL(options[primaryKey]).nullable
        /\ Indexable(primaryKey)
        /\ columnstore => options[primaryKey].nonClusteredIndex
    /\ \A c \in TableColumns :
        /\ options[c].nonClusteredIndex => Indexable(c)
        /\ columnstore => options[c].dataType \in ColumnstoreCompatible

\* SqlTableCreator.Execute with the script of GetSql, which enumerates the
\* columns of a DataTable that it creates for the purpose.  The script leaves a
\* table alone that exists, whatever its columns; without AutoCreateSqlTable it
\* is not executed.
CreateTable ==
    /\ phase = "finalized"
    /\ \/ /\ CreateDataTableThrows
          /\ phase' = "failed"
          /\ UNCHANGED table
       \/ /\ ~CreateDataTableThrows
          /\ ~ScriptAccepted \/ MayBeTooWide
          /\ phase' = "refused"
          /\ UNCHANGED table
       \/ /\ ~CreateDataTableThrows
          /\ ScriptAccepted
          /\ phase' = "created"
          /\ table' = [c \in TableColumns |-> GetColumnDDL(options[c])]
       \/ /\ ~CreateDataTableThrows
          /\ phase' = "created"
          /\ table' = Existing
    /\ UNCHANGED <<optionVars, eventTable, cell, changes>>

\* The DataTable of the logging worker.  Setting its key makes the column NOT
\* NULL.
CreateDataTable ==
    /\ phase = "created"
    /\ ~CreateDataTableThrows
    /\ phase' = "ready"
    /\ eventTable' =
        [c \in TableColumns |->
            IF c = primaryKey
            THEN [AsDataColumn(c, options[c]) EXCEPT !.nullable = FALSE]
            ELSE AsDataColumn(c, options[c])]
    /\ UNCHANGED <<optionVars, table, cell, changes>>

\* GetColumnsAndValues, for one column of one event; the Id column is skipped.
\* A value depends on the options and the event only: a behaviour has one.
GenerateCell(c) ==
    /\ phase = "ready"
    /\ cell = NoCell
    /\ c \in TableColumns \ {"Id"}
    /\ \E value \in ValuesOf(c, options[c]) :
        cell' = [column  |-> c,
                 value   |-> value,
                 content |-> GetColumnValue(c, options[c], value)]
    /\ UNCHANGED <<optionVars, phase, table, eventTable, changes>>

\* Mutant: the names of the columns instead of the properties.
AdditionalColumnNames == {<<c>> : c \in additional}

\* What StandardColumnDataGenerator collects when it is constructed.
AdditionalColumnPropertyNames == {PropertyName(c, options[c]) : c \in additional}

SameName(k, l) ==
    /\ Len(k) = Len(l)
    /\ \A i \in DOMAIN k : LowerCase[k[i]] = LowerCase[l[i]]

\* The properties of an event that the Properties and the LogEvent column hold
\* with ExcludeAdditionalProperties: the names are compared without their case.
FilteredProperties(event) ==
    {k \in event : \A name \in AdditionalColumnPropertyNames : ~SameName(name, k)}

Next ==
    \/ \E c \in Configured :
        \/ SetDataType(c) \/ SetDataLength(c) \/ SetAllowNull(c)
        \/ SetNonClusteredIndex(c) \/ SetPropertyName(c) \/ Select(c)
    \/ ClearAdditionalColumns
    \/ \E c \in Configured \cup {None} : SetPrimaryKey(c)
    \/ SetClusteredColumnstoreIndex
    \/ Finalize \/ CreateTable \/ CreateDataTable
    \/ \E c \in Columns : GenerateCell(c)

Spec == Init /\ [][Next]_vars

-----------------------------------------------------------------------------
(* Properties                                                                *)

\* A configuration that was finalized makes a valid script, except for what
\* finalizing does not look at: a table without columns, the length of a text
\* (none that SQL Server has, or too many bytes for a row or a key), a key that is
\* none of the columns, and an index on a column that can have none.
OnlyIndexesRefused ==
    phase = "refused" =>
        \/ TableColumns = {}
        \/ \E c \in TableColumns : ~ColumnTypeExists(options[c])
        \/ MayBeTooWide
        \/ primaryKey # None /\ (primaryKey \notin TableColumns \/ ~Indexable(primaryKey))
        \/ \E c \in TableColumns : options[c].nonClusteredIndex /\ ~Indexable(c)

\* The DataTable that collects a batch, or the table that the script made.
Refused(c, content) ==
    \/ ~Takes(eventTable[c], content)
    \/ table # Existing /\ ~TakesParameter(table[c], content)

\* A value that the DataTable, or an INSERT into a table that this configuration
\* made, does not take comes from one of the places that do not fit values to
\* their column: the texts that are not cut, the ids that are structs, values
\* that the SQL type does not hold though the .NET type does (the timestamp, what
\* was converted, XML), and what stands for an absent or inconvertible value in an
\* added column that is NOT NULL.  DataTable and table agree on all the others.
OnlyUncutRefused ==
    phase = "ready" /\ cell # NoCell /\ Refused(cell.column, cell.content) =>
        \/ cell.column \in {"Level", "TraceId", "SpanId", "Properties", "LogEvent"}
        \/ cell.column \in Custom \cup {"TimeStamp"} /\ cell.content.kind = "outside"
        \/ /\ cell.column \in Custom
           /\ ~options[cell.column].allowNull
           /\ cell.content.kind = "null" \/ ~Assignable(options[cell.column], cell.value)

\* An added column has the value of the property.
Holds(c, k, value) ==
    /\ k \in GetPropertyValueForColumn(c, options[c], {k})
    /\ GetColumnValue(c, options[c], value) # Null

\* With ExcludeAdditionalProperties a property that is not null vanishes, left out
\* of the text columns and held by no added column, exactly if some added column
\* claims it, by a name that may differ in case, and each that has this very name
\* looks for another (the name has several parts, or replaced an earlier one) or
\* stores NULL because it cannot convert the value.
PropertiesKept ==
    phase = "ready" =>
        \A k \in PropertyKeys \cup {<<c>> : c \in Custom}, value \in PropertyValues :
            value.kind # "absent" =>
                (/\ k \notin FilteredProperties({k})
                 /\ \A c \in additional : ~Holds(c, k, value)
                 <=>
                 /\ \E c \in additional : SameName(PropertyName(c, options[c]), k)
                 /\ \A c \in additional : PropertyName(c, options[c]) = k =>
                        \/ Len(k) > 1
                        \/ options[c].renamed
                        \/ /\ options[c].allowNull
                           /\ ~Assignable(options[c], value) /\ ~Convertible(options[c], value))
=============================================================================
