----------------------------- MODULE SqlColumns -----------------------------
(***************************************************************************)
(* The columns of the log table and the SQL types they may have: the          *)
(* standard columns, of which a configuration stores some, and the columns    *)
(* it adds.  SqlDbType is modelled by the names of its members; what the code *)
(* tells apart of them are the tables of SqlDataTypes and the setters of      *)
(* DataType, each of which throws for a type it does not list.                *)
(***************************************************************************)
EXTENDS Integers, Sequences

CONSTANTS
    Custom,         \* the columns a configuration may add
    Segments        \* the parts of the names of properties, which dots separate

StandardColumn ==
    {"Id", "Message", "MessageTemplate", "Level", "TraceId", "SpanId",
     "TimeStamp", "Exception", "Properties", "LogEvent"}

Columns == StandardColumn \cup Custom

\* A reference that is null.
None == "none"

ASSUME SqlColumnsAssumption ==
    Custom \cap (StandardColumn \cup {None}) = {}

-----------------------------------------------------------------------------
(* SqlDataTypes                                                              *)

DateTypes == {"Date", "DateTime", "DateTime2", "SmallDateTime", "DateTimeOffset", "Time"}
NumberTypes ==
    {"BigInt", "Bit", "Decimal", "Float", "Int", "Money", "Real", "SmallInt",
     "SmallMoney", "TinyInt"}

VariableCharacterColumnTypes == {"NVarChar", "VarChar"}
DataLengthRequired == VariableCharacterColumnTypes \cup {"Char", "NChar"}

\* The types whose .NET type is string.
StringTypes == DataLengthRequired \cup {"Xml"}

\* The keys of SystemTypeMap; Variant stands for a type that is not supported.
NotSupported == "Variant"
SupportedTypes == DateTypes \cup NumberTypes \cup StringTypes \cup {"UniqueIdentifier"}

\* What SQL Server knows of its types: the lengths of texts, and the types that
\* hold less than the .NET type of their column (a DATETIME begins in 1753, a
\* TIME ends at midnight, a FLOAT has no NaN, a DECIMAL 18 digits).
MaxLength(dataType) == IF dataType \in {"NChar", "NVarChar"} THEN 4000 ELSE 8000
NarrowTypes ==
    {"DateTime", "SmallDateTime", "Time", "Decimal", "Money", "SmallMoney", "Float", "Real"}

ColumnstoreCompatible ==
    (SupportedTypes \ {"Xml"}) \cup {"VarBinary", "Binary"}

-----------------------------------------------------------------------------
(* SqlColumn and its subclasses                                              *)

\* The types that the DataType setter of a column accepts.
IdTypes == {"Int", "BigInt"}
LevelTypes == VariableCharacterColumnTypes \cup {"TinyInt"}
TimeStampTypes == {"DateTime", "DateTimeOffset", "DateTime2"}
PropertiesTypes == {"Xml", "NVarChar"}
MessageTypes == VariableCharacterColumnTypes
MessageTemplateTypes == VariableCharacterColumnTypes
TraceIdTypes == VariableCharacterColumnTypes
SpanIdTypes == VariableCharacterColumnTypes
ExceptionTypes == VariableCharacterColumnTypes
LogEventTypes == VariableCharacterColumnTypes

AllowedTypes(column) ==
    CASE column = "Id" -> IdTypes
      [] column = "Level" -> LevelTypes
      [] column = "TimeStamp" -> TimeStampTypes
      [] column = "Properties" -> PropertiesTypes
      [] column = "Message" -> MessageTypes
      [] column = "MessageTemplate" -> MessageTemplateTypes
      [] column = "TraceId" -> TraceIdTypes
      [] column = "SpanId" -> SpanIdTypes
      [] column = "Exception" -> ExceptionTypes
      [] column = "LogEvent" -> LogEventTypes
      [] OTHER -> SupportedTypes

DefaultType(column) ==
    CASE column = "Id" -> "Int"
      [] column = "TimeStamp" -> "DateTime"
      [] column \in Custom -> "VarChar"
      [] OTHER -> "NVarChar"

Options == [dataType : SupportedTypes, allowNull : BOOLEAN,
            dataLength : Int, nonClusteredIndex : BOOLEAN,
            propertyName : Seq(Segments),     \* <<>> stands for null
            hierarchy : Seq(Segments),
            renamed : BOOLEAN]                \* history: it was named twice

\* What the constructors set.
DefaultOptions(column) ==
    [dataType          |-> DefaultType(column),
     allowNull         |-> column # "Id",
     dataLength        |-> -1,
     nonClusteredIndex |-> FALSE,
     propertyName      |-> <<>>,
     hierarchy         |-> <<>>,
     renamed           |-> FALSE]

\* The getters of PropertyName and HasHierarchicalPropertyName.
PropertyName(column, options) ==
    IF options.propertyName = <<>> THEN <<column>> ELSE options.propertyName

HasHierarchicalPropertyName(options) == Len(options.hierarchy) > 1

\* AsDataColumn throws for such a column.
LacksLength(options) ==
    options.dataType \in DataLengthRequired /\ options.dataLength = 0

\* The column of the DataTable: of a .NET type, with a MaxLength of -1 (none)
\* unless the SQL type needs a length, and never null if it is the Id column.
AsDataColumn(column, options) ==
    [text     |-> options.dataType \in StringTypes,
     length   |-> IF options.dataType \in DataLengthRequired
                  THEN options.dataLength ELSE -1,
     nullable |-> options.allowNull /\ column # "Id"]

\* The column of the SQL table: its type, with a length (-1 for MAX) where the
\* type needs one, and NULL or NOT NULL.
GetColumnDDL(options) ==
    [text     |-> options.dataType \in StringTypes,
     length   |-> IF options.dataType \in DataLengthRequired
                  THEN options.dataLength ELSE -1,
     nullable |-> options.allowNull]

ColumnLayout == [text : BOOLEAN, length : Int, nullable : BOOLEAN]
=============================================================================
