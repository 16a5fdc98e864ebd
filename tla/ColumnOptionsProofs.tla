------------------------- MODULE ColumnOptionsProofs -------------------------
(***************************************************************************)
(* That the tables made from a finalized ColumnOptions are valid and take the *)
(* values generated for them, and which properties the columns do not hold,   *)
(* for every configuration.                                                  *)
(***************************************************************************)
EXTENDS ColumnOptions, TLAPS

-----------------------------------------------------------------------------
(* Lemmas on the operators                                                   *)

\* A text that is cut fits into its column, also one that is shorter than the
\* suffix.
LEMMA TruncateFits ==
    ASSUME NEW length \in Nat, NEW dataLength \in Int
    PROVE  /\ TruncateOutput(length, dataLength) \in Nat
           /\ dataLength >= 0 => TruncateOutput(length, dataLength) <= dataLength
  BY DEF TruncateOutput, Truncate, SuffixLength

\* The setters of a column accept supported types only, so that the check for
\* an unsupported type can never find one.
LEMMA AllowedTypesSupported ==
    ASSUME NEW c \in Columns
    PROVE  AllowedTypes(c) \subseteq SupportedTypes \ {NotSupported}
  BY DEF AllowedTypes, IdTypes, LevelTypes, TimeStampTypes, PropertiesTypes,
         MessageTypes, MessageTemplateTypes, TraceIdTypes, SpanIdTypes, ExceptionTypes,
         LogEventTypes,
         SupportedTypes, NotSupported, DateTypes, NumberTypes,
         StringTypes, DataLengthRequired, VariableCharacterColumnTypes

\* The constructors set an accepted type.
LEMMA DefaultsAllowed ==
    ASSUME NEW c \in Columns
    PROVE  /\ DefaultOptions(c) \in Options
           /\ DefaultOptions(c).dataType \in AllowedTypes(c)
           /\ c = "Id" => ~DefaultOptions(c).allowNull
<1>1. DefaultType(c) \in AllowedTypes(c)
  BY SqlColumnsAssumption
  DEF DefaultType, AllowedTypes, IdTypes, LevelTypes, TimeStampTypes, PropertiesTypes,
         MessageTypes, MessageTemplateTypes, TraceIdTypes, SpanIdTypes, ExceptionTypes,
         LogEventTypes,
      SupportedTypes, DateTypes, NumberTypes, StringTypes,
      DataLengthRequired, VariableCharacterColumnTypes, Columns, StandardColumn
<1>2. DefaultType(c) \in SupportedTypes
  BY <1>1, AllowedTypesSupported
<1>3. DefaultOptions(c).dataType = DefaultType(c) /\ DefaultOptions(c).allowNull = (c # "Id")
  BY DEF DefaultOptions
<1>4. -1 \in Int /\ (c # "Id") \in BOOLEAN
  OBVIOUS
<1>5. DefaultOptions(c) \in Options
  BY <1>2, <1>4 DEF DefaultOptions, Options
<1>. QED
  BY <1>1, <1>3, <1>5

\* The layouts have their type.
LEMMA LayoutsTyped ==
    ASSUME NEW c \in Columns, NEW o \in Options
    PROVE  /\ GetColumnDDL(o) \in ColumnLayout
           /\ AsDataColumn(c, o) \in ColumnLayout
  BY DEF GetColumnDDL, AsDataColumn, ColumnLayout, Options

\* A text column takes a text that fits.
LEMMA TextTaken ==
    ASSUME NEW layout, NEW length \in Int,
           layout.text, layout.length >= 0 => length <= layout.length
    PROVE  Takes(layout, Text(length))
<1>1. Text(length).kind = "text" /\ Text(length).length = length
  BY DEF Text
<1>. QED
  BY <1>1 DEF Takes

\* A column takes what is generated for it, except from the places that do not
\* fit values to their column.
LEMMA CutValueTaken ==
    ASSUME NEW c \in Columns \ {"Id"}, NEW o \in Options, NEW v \in ValuesOf(c, o),
           o.dataType \in AllowedTypes(c),
           c \notin {"Level", "TraceId", "SpanId", "Properties", "LogEvent"},
           c \in Custom /\ ~o.allowNull =>
                GetColumnValue(c, o, v).kind # "null" /\ Assignable(o, v)
    PROVE  Takes(GetColumnDDL(o), GetColumnValue(c, o, v))
<1>1. v \in Values
  <2>1. CASE c \in Custom
    <3>1. v \in [kind : {"absent"}, length : {0}] \/ v \in PropertyValues
      BY <2>1 DEF ValuesOf
    <3>2. CASE v \in [kind : {"absent"}, length : {0}]
      BY <3>2 DEF PropertyKinds, Values
    <3>3. CASE v \in PropertyValues
      BY <3>3, RowGenerationAssumption DEF PropertyValues, Values
    <3>. QED
      BY <3>1, <3>2, <3>3
  <2>2. CASE c \notin Custom
    BY <2>2, RowGenerationAssumption
    DEF ValuesOf, StandardValues, Values, PropertyKinds, TextKinds, TraceIdLength, SpanIdLength
  <2>. QED
    BY <2>1, <2>2
<1>2. /\ o.dataLength \in Int /\ o.allowNull \in BOOLEAN
      /\ v.length \in Nat
  BY <1>1 DEF Options, Values
<1>3. o.dataLength >= 0 => TruncateOutput(v.length, o.dataLength) <= o.dataLength
  BY <1>2, TruncateFits
<1>4. ASSUME c \in Custom, GetColumnValue(c, o, v) = Null
      PROVE  Takes(GetColumnDDL(o), GetColumnValue(c, o, v))
  BY <1>2, <1>4 DEF Takes, GetColumnDDL, Null
<1>5. ASSUME GetColumnValue(c, o, v) \in {Typed, Outside}
      PROVE  Takes(GetColumnDDL(o), GetColumnValue(c, o, v))
  BY <1>5 DEF Takes, Typed, Outside
<1>6. ASSUME GetColumnValue(c, o, v) = Text(TruncateOutput(v.length, o.dataLength)),
             o.dataType \in DataLengthRequired
      PROVE  Takes(GetColumnDDL(o), GetColumnValue(c, o, v))
  <2>1. GetColumnDDL(o).text /\ GetColumnDDL(o).length = o.dataLength
    BY <1>6 DEF GetColumnDDL, StringTypes
  <2>2. TruncateOutput(v.length, o.dataLength) \in Int
    <3>1. TruncateOutput(v.length, o.dataLength) \in Nat
      BY Zenon, <1>2, TruncateFits
    <3>. QED
      BY <3>1
  <2> DEFINE n == TruncateOutput(v.length, o.dataLength)
            layout == GetColumnDDL(o)
  <2>3. n \in Int /\ layout.text /\ (layout.length >= 0 => n <= layout.length)
    BY <1>3, <2>1, <2>2
  <2> HIDE DEF n, layout
  <2>4. Takes(layout, Text(n))
    BY <2>3, TextTaken
  <2>. QED
    BY <1>6, <2>4 DEF n, layout
<1>7. CASE c \in Custom
  <2>1. CASE v.kind = "absent"
    BY <1>4, <1>7, <2>1 DEF GetColumnValue, GetAdditionalColumnValue
  <2>2. CASE v.kind # "absent" /\ Assignable(o, v)
    <3>1. CASE o.dataType \in DataLengthRequired
      BY <1>6, <1>7, <2>2, <3>1 DEF GetColumnValue, GetAdditionalColumnValue
    <3>2. CASE o.dataType = "Xml"
      <4>1. o.dataType \notin DataLengthRequired
        BY <3>2 DEF DataLengthRequired, VariableCharacterColumnTypes
      <4>2. GetColumnDDL(o).text /\ GetColumnDDL(o).length = -1
        BY <3>2, <4>1 DEF GetColumnDDL, StringTypes
      <4>3. GetColumnValue(c, o, v) \in {Text(v.length), Outside}
        BY <1>7, <2>2, <3>2, <4>1 DEF GetColumnValue, GetAdditionalColumnValue
      <4>. QED
        BY <1>2, <1>5, <4>2, <4>3, TextTaken
    <3>3. CASE o.dataType \notin DataLengthRequired /\ o.dataType # "Xml"
      BY <1>5, <1>7, <2>2, <3>3 DEF GetColumnValue, GetAdditionalColumnValue
    <3>. QED
      BY <3>1, <3>2, <3>3
  <2>3. CASE v.kind # "absent" /\ ~Assignable(o, v)
    <3>1. o.allowNull
      BY <1>7, <2>3
    <3>2. GetColumnValue(c, o, v) \in {Null, Typed, Outside}
      BY <1>7, <2>3, <3>1 DEF GetColumnValue, GetAdditionalColumnValue, InRange
    <3>. QED
      BY <1>4, <1>5, <1>7, <3>2
  <2>. QED
    BY <2>1, <2>2, <2>3
<1>8. CASE c \in CutColumns
  <2>1. o.dataType \in DataLengthRequired
    BY <1>8
    DEF CutColumns, AllowedTypes, MessageTypes, MessageTemplateTypes, ExceptionTypes,
        DataLengthRequired
  <2>2. GetColumnValue(c, o, v) = Text(TruncateOutput(v.length, o.dataLength))
    BY <1>8, SqlColumnsAssumption
    DEF GetColumnValue, GetStandardColumnValue, CutColumns, StandardColumn
  <2>. QED
    BY <1>6, <2>1, <2>2
<1>9. CASE c = "TimeStamp"
  <2>1. GetColumnValue(c, o, v) \in {Typed, Outside}
    BY <1>9, SqlColumnsAssumption
    DEF GetColumnValue, GetStandardColumnValue, CutColumns, StandardColumn, InRange
  <2>. QED
    BY <1>5, <2>1
<1>. QED
  BY <1>7, <1>8, <1>9 DEF Columns, StandardColumn, CutColumns

\* Only the ids are structs.
LEMMA OnlyIdsAreStructs ==
    ASSUME NEW c \in Columns \ {"TraceId", "SpanId"}, NEW o, NEW v
    PROVE  GetColumnValue(c, o, v).kind # "struct"
<1>1. ASSUME NEW n PROVE Text(n).kind # "struct"
  BY DEF Text
<1>2. Null.kind # "struct" /\ Typed.kind # "struct" /\ Outside.kind # "struct"
  BY DEF Null, Typed, Outside
<1>3. CASE c \in Custom
  BY <1>1, <1>2, <1>3 DEF GetColumnValue, GetAdditionalColumnValue, InRange
<1>4. CASE c \notin Custom
  BY <1>1, <1>2, <1>4 DEF GetColumnValue, GetStandardColumnValue, InRange
<1>. QED
  BY <1>3, <1>4

\* Only timestamps and values of added columns are outside of their SQL type.
LEMMA OnlyConvertedIsOutside ==
    ASSUME NEW c \in Columns, c \notin Custom \cup {"TimeStamp"}, NEW o, NEW v
    PROVE  GetColumnValue(c, o, v).kind # "outside"
<1>1. ASSUME NEW n PROVE Text(n).kind # "outside" /\ Struct(n).kind # "outside"
  BY DEF Text, Struct
<1>2. Typed.kind # "outside"
  BY DEF Typed
<1>. QED
  BY <1>1, <1>2 DEF GetColumnValue, GetStandardColumnValue

-----------------------------------------------------------------------------
(* The inductive invariant                                                   *)

\* Past the finalization the key is NOT NULL, and there is none beside a
\* columnstore index, whose types were checked.
KeyInv ==
    /\ ~options["Id"].allowNull
    /\ phase \in {"finalized", "created", "ready", "refused"} =>
        /\ primaryKey # None => ~options[primaryKey].allowNull
        /\ columnstore => primaryKey = None
        /\ columnstore => \A c \in TableColumns : options[c].dataType \in ColumnstoreCompatible

\* The layouts are those of the options, which no longer change: that of the
\* DataTable in spite of its being derived by other rules, that of the SQL table if
\* the script made it.
Layout == [c \in TableColumns |-> GetColumnDDL(options[c])]

LayoutInv ==
    /\ phase \in {"created", "ready"} => table \in {Existing, Layout}
    /\ phase = "ready" => eventTable = Layout

\* A generated value is that of a value of an event.
CellInv ==
    cell # NoCell =>
        /\ phase = "ready"
        /\ cell.column \in TableColumns \ {"Id"}
        /\ cell.value \in ValuesOf(cell.column, options[cell.column])
        /\ cell.content = GetColumnValue(cell.column, options[cell.column], cell.value)

\* The parts of a name that was set once are those of the name; a name that
\* replaced another has the parts of both.
NameOK(o) ==
    /\ o.renamed => o.propertyName # <<>> /\ Len(o.hierarchy) > 1
    /\ ~o.renamed => o.hierarchy = o.propertyName

NameInv == \A c \in Columns : NameOK(options[c])

ConfigInv == TypeOK /\ KeyInv /\ OnlyIndexesRefused /\ LayoutInv /\ CellInv /\ NameInv

LEMMA InitInv == Init => ConfigInv
<1>. SUFFICES ASSUME Init PROVE ConfigInv
  OBVIOUS
<1>1. TypeOK
  <2>1. /\ options \in [Columns -> Options]
        /\ \A c \in Columns : options[c].dataType \in AllowedTypes(c)
    BY DefaultsAllowed DEF Init
  <2>2. store \subseteq StandardColumn /\ primaryKey \in Columns
    BY DEF Init, StandardColumn, Columns
  <2>3. additionalNull \in BOOLEAN /\ columnstore \in BOOLEAN
    BY Zenon DEF Init
  <2>4. additional \subseteq Custom /\ phase = "configuring" /\ phase \in Phases
    BY DEF Init, Phases
  <2>5. changes \in 0 .. MaxChanges
    BY ColumnOptionsAssumption DEF Init
  <2>. QED
    BY <2>1, <2>2, <2>3, <2>4, <2>5 DEF TypeOK
<1>2. KeyInv
  BY DefaultsAllowed DEF Init, KeyInv, Columns, StandardColumn
<1>3. OnlyIndexesRefused /\ LayoutInv /\ CellInv
  BY DEF Init, OnlyIndexesRefused, LayoutInv, CellInv
<1>4. NameInv
  BY DEF Init, NameInv, NameOK, DefaultOptions
<1>. QED
  BY <1>1, <1>2, <1>3, <1>4 DEF ConfigInv

\* A setting of a column's options keeps the invariant.
LEMMA SetOptionsInv ==
    ASSUME ConfigInv, Configure, NEW c \in Columns, NEW changed \in Options,
           SetOptions(c, changed), changed.dataType \in AllowedTypes(c),
           c = "Id" => ~changed.allowNull,
           NameOK(changed)
    PROVE  ConfigInv'
<1>1. TypeOK'
  BY ColumnOptionsAssumption DEF ConfigInv, TypeOK, Configure, SetOptions, Phases, TableColumns
<1>2. KeyInv'
  BY DEF ConfigInv, TypeOK, KeyInv, Configure, SetOptions, Columns, StandardColumn
<1>3. (OnlyIndexesRefused /\ LayoutInv /\ CellInv)'
  BY DEF ConfigInv, OnlyIndexesRefused, LayoutInv, CellInv, Configure, SetOptions
<1>4. NameInv'
  BY DEF ConfigInv, TypeOK, NameInv, SetOptions
<1>. QED
  BY <1>1, <1>2, <1>3, <1>4 DEF ConfigInv

\* What PropertyName leaves of a column's options.
Renamed(c, name) ==
    [options[c] EXCEPT !.propertyName = name,
                       !.hierarchy = @ \o name,
                       !.renamed = options[c].propertyName # <<>>]

LEMMA RenamedTyped ==
    ASSUME ConfigInv, NEW c \in Columns, NEW name \in PropertyKeys
    PROVE  /\ Renamed(c, name) \in Options
           /\ Renamed(c, name).dataType = options[c].dataType
           /\ Renamed(c, name).allowNull = options[c].allowNull
           /\ NameOK(Renamed(c, name))
<1>1. options[c] \in Options
  BY DEF ConfigInv, TypeOK
<1>2. name \in Seq(Segments) /\ name # <<>>
  BY ColumnOptionsAssumption
<1>3. options[c].hierarchy \in Seq(Segments) /\ options[c].renamed \in BOOLEAN
  BY <1>1 DEF Options
<1>4. options[c].hierarchy \o name \in Seq(Segments)
  BY <1>2, <1>3
<1>5. (options[c].propertyName # <<>>) \in BOOLEAN
  OBVIOUS
<1>6. Renamed(c, name) \in Options
  BY <1>1, <1>2, <1>4, <1>5 DEF Renamed, Options
<1>7. /\ Renamed(c, name).dataType = options[c].dataType
      /\ Renamed(c, name).allowNull = options[c].allowNull
      /\ Renamed(c, name).propertyName = name
      /\ Renamed(c, name).hierarchy = options[c].hierarchy \o name
      /\ Renamed(c, name).renamed = (options[c].propertyName # <<>>)
  BY <1>1 DEF Renamed, Options
<1>8. ASSUME ~Renamed(c, name).renamed
      PROVE  Renamed(c, name).hierarchy = Renamed(c, name).propertyName
  <2>1. options[c].propertyName = <<>>
    BY <1>7, <1>8
  <2>2. options[c].hierarchy = <<>>
    BY <2>1 DEF ConfigInv, NameInv, NameOK
  <2>3. <<>> \o name = name
    BY <1>2
  <2>. QED
    BY <1>7, <2>2, <2>3
<1>9. ASSUME Renamed(c, name).renamed
      PROVE  Len(Renamed(c, name).hierarchy) > 1
  <2>1. options[c].propertyName # <<>> /\ NameOK(options[c])
    BY <1>7, <1>9 DEF ConfigInv, NameInv
  <2>2. options[c].hierarchy # <<>>
    BY <1>3, <2>1 DEF NameOK
  <2>3. Len(options[c].hierarchy) > 0 /\ Len(name) > 0
    BY <1>2, <1>3, <2>2
  <2>. QED
    BY <1>2, <1>3, <1>7, <2>3
<1>. QED
  BY <1>2, <1>6, <1>7, <1>8, <1>9 DEF NameOK

\* So does one of the collections, the key and the columnstore index.
LEMMA SetOtherInv ==
    ASSUME ConfigInv, Configure, UNCHANGED options,
           store' \subseteq StandardColumn, additional' \subseteq Custom,
           additionalNull' \in BOOLEAN, primaryKey' \in Columns \cup {None},
           columnstore' \in BOOLEAN
    PROVE  ConfigInv'
<1>1. TypeOK'
  BY ColumnOptionsAssumption DEF ConfigInv, TypeOK, Configure, Phases
<1>2. KeyInv'
  BY DEF ConfigInv, KeyInv, Configure
<1>3. (OnlyIndexesRefused /\ LayoutInv /\ CellInv)'
  BY DEF ConfigInv, OnlyIndexesRefused, LayoutInv, CellInv, Configure
<1>4. NameInv'
  BY DEF ConfigInv, NameInv
<1>. QED
  BY <1>1, <1>2, <1>3, <1>4 DEF ConfigInv

LEMMA ConfigureStep ==
    ASSUME ConfigInv, NEW c \in Configured,
           SetDataType(c) \/ SetDataLength(c) \/ SetAllowNull(c)
               \/ SetNonClusteredIndex(c) \/ SetPropertyName(c) \/ Select(c)
    PROVE  ConfigInv'
<1>. c \in Columns /\ options[c] \in Options /\ options[c].dataType \in AllowedTypes(c)
  BY ColumnOptionsAssumption DEF ConfigInv, TypeOK
<1>. c = "Id" => ~options[c].allowNull
  BY DEF ConfigInv, KeyInv
<1>. NameOK(options[c])
  BY DEF ConfigInv, NameInv
<1>1. CASE SetDataType(c)
  <2>1. PICK t \in DataTypes \cap AllowedTypes(c) :
          SetOptions(c, [options[c] EXCEPT !.dataType = t])
    BY <1>1 DEF SetDataType
  <2>2. t \in SupportedTypes
    BY ColumnOptionsAssumption
  <2>. QED
    BY <1>1, <2>1, <2>2, SetOptionsInv DEF SetDataType, Options, NameOK
<1>2. CASE SetDataLength(c)
  <2>1. PICK n \in DataLengths \cup {-1} :
          SetOptions(c, [options[c] EXCEPT !.dataLength = n])
    BY <1>2 DEF SetDataLength
  <2>2. n \in Int
    BY ColumnOptionsAssumption
  <2>. QED
    BY <1>2, <2>1, <2>2, SetOptionsInv DEF SetDataLength, Options, NameOK
<1>3. CASE SetAllowNull(c)
  BY <1>3, SetOptionsInv DEF SetAllowNull, Options, NameOK
<1>4. CASE SetNonClusteredIndex(c)
  BY <1>4, SetOptionsInv DEF SetNonClusteredIndex, Options, NameOK
<1>6. CASE SetPropertyName(c)
  <2>1. PICK name \in PropertyKeys : SetOptions(c, Renamed(c, name))
    BY <1>6 DEF SetPropertyName, Renamed
  <2>2. /\ Renamed(c, name) \in Options
        /\ Renamed(c, name).dataType = options[c].dataType
        /\ Renamed(c, name).allowNull = options[c].allowNull
        /\ NameOK(Renamed(c, name))
    BY RenamedTyped
  <2> DEFINE changed == Renamed(c, name)
  <2> HIDE DEF changed
  <2>3. SetOptions(c, changed) /\ changed \in Options /\ changed.dataType \in AllowedTypes(c)
        /\ (c = "Id" => ~changed.allowNull)
        /\ NameOK(changed)
    BY <2>1, <2>2 DEF changed
  <2>. QED
    BY <1>6, <2>3, SetOptionsInv DEF SetPropertyName
<1>5. CASE Select(c)
  <2>1. store' \subseteq StandardColumn /\ additional' \subseteq Custom
    BY <1>5 DEF Select, ConfigInv, TypeOK
  <2>. QED
    BY <1>5, <2>1, SetOtherInv DEF Select, ConfigInv, TypeOK
<1>. QED
  BY <1>1, <1>2, <1>3, <1>4, <1>5, <1>6

LEMMA ConfigureWholeStep ==
    ASSUME ConfigInv,
           \/ ClearAdditionalColumns \/ SetClusteredColumnstoreIndex
           \/ \E c \in Configured \cup {None} : SetPrimaryKey(c)
    PROVE  ConfigInv'
<1>1. CASE ClearAdditionalColumns
  BY <1>1, SetOtherInv DEF ClearAdditionalColumns, ConfigInv, TypeOK
<1>2. CASE SetClusteredColumnstoreIndex
  BY <1>2, SetOtherInv DEF SetClusteredColumnstoreIndex, ConfigInv, TypeOK
<1>3. CASE \E c \in Configured \cup {None} : SetPrimaryKey(c)
  BY <1>3, SetOtherInv, ColumnOptionsAssumption DEF SetPrimaryKey, ConfigInv, TypeOK
<1>. QED
  BY <1>1, <1>2, <1>3

\* Finalizing makes a key that is kept NOT NULL.
LEMMA FinalizeStep == ConfigInv /\ Finalize => ConfigInv'
<1>. SUFFICES ASSUME ConfigInv, Finalize PROVE ConfigInv'
  OBVIOUS
<1>1. FinalKey \in Columns \cup {None}
  BY DEF FinalKey, ConfigInv, TypeOK
<1>2. /\ options' \in [Columns -> Options]
      /\ \A c \in Columns :
            /\ options'[c].dataType = options[c].dataType
            /\ ~options[c].allowNull => ~options'[c].allowNull
            /\ phase' = "finalized" /\ c = FinalKey => ~options'[c].allowNull
  <2>1. CASE options' = options /\ (phase' = "failed" \/ FinalKey = None)
    BY <2>1, SqlColumnsAssumption DEF ConfigInv, TypeOK, Columns, StandardColumn, None
  <2>2. CASE FinalKey # None /\ options' = [options EXCEPT ![FinalKey].allowNull = FALSE]
    BY <2>2, <1>1 DEF ConfigInv, TypeOK, Options
  <2>. QED
    BY <2>1, <2>2 DEF Finalize
<1>3. TypeOK'
  BY <1>1, <1>2, ColumnOptionsAssumption DEF ConfigInv, TypeOK, Finalize, Phases
<1>4. KeyInv'
  <2>1. ~options'["Id"].allowNull
    BY <1>2 DEF ConfigInv, KeyInv, Columns, StandardColumn
  <2>2. ASSUME phase' = "finalized"
        PROVE  /\ primaryKey' # None => ~options'[primaryKey'].allowNull
               /\ columnstore' => primaryKey' = None
               /\ columnstore' =>
                    \A c \in TableColumns' : options'[c].dataType \in ColumnstoreCompatible
    <3>1. TableColumns' = TableColumns /\ TableColumns \subseteq Columns
      BY DEF Finalize, TableColumns, ConfigInv, TypeOK, Columns
    <3>2. columnstore =>
            \A c \in TableColumns : options[c].dataType \in ColumnstoreCompatible
      BY <2>2 DEF Finalize, FinalizeThrows
    <3>. QED
      BY <1>1, <1>2, <2>2, <3>1, <3>2 DEF Finalize, FinalKey
  <2>3. phase' \in {"failed", "finalized"}
    BY DEF Finalize
  <2>. QED
    BY <2>1, <2>2, <2>3 DEF KeyInv
<1>5. (OnlyIndexesRefused /\ LayoutInv /\ CellInv)'
  BY DEF ConfigInv, OnlyIndexesRefused, LayoutInv, CellInv, Finalize
<1>6. NameInv'
  <2>1. ASSUME NEW c \in Columns PROVE NameOK(options'[c])
    <3>1. options[c] \in Options /\ NameOK(options[c])
      BY DEF ConfigInv, TypeOK, NameInv
    <3>2. CASE options' = options
      BY <3>1, <3>2
    <3>3. CASE options' = [options EXCEPT ![FinalKey].allowNull = FALSE]
      <4>1. options'[c] = options[c] \/ options'[c] = [options[c] EXCEPT !.allowNull = FALSE]
        BY <3>3 DEF ConfigInv, TypeOK
      <4>2. NameOK([options[c] EXCEPT !.allowNull = FALSE])
        BY <3>1 DEF NameOK, Options
      <4>. QED
        BY <3>1, <4>1, <4>2
    <3>. QED
      BY <3>2, <3>3 DEF Finalize
  <2>. QED
    BY <2>1 DEF NameInv
<1>. QED
  BY <1>3, <1>4, <1>5, <1>6 DEF ConfigInv

\* A script that the server refuses is one that finalizing does not prevent.
LEMMA CreateTableStep == ConfigInv /\ CreateTable => ConfigInv'
<1>. SUFFICES ASSUME ConfigInv, CreateTable PROVE ConfigInv'
  OBVIOUS
<1>. TableColumns \subseteq Columns /\ TableColumns' = TableColumns
  BY DEF ConfigInv, TypeOK, TableColumns, Columns, CreateTable, optionVars
<1>1. TypeOK'
  <2>1. ASSUME phase' \in {"created", "ready"}
        PROVE  table' \in {Existing} \cup [TableColumns' -> ColumnLayout]
    BY <2>1, LayoutsTyped DEF CreateTable, ConfigInv, TypeOK
  <2>2. phase' \in Phases /\ phase' # "ready"
    BY DEF CreateTable, Phases
  <2>. QED
    BY <2>1, <2>2 DEF ConfigInv, TypeOK, CreateTable, optionVars
<1>2. KeyInv'
  BY DEF ConfigInv, KeyInv, CreateTable, optionVars
<1>3. OnlyIndexesRefused'
  <2>1. SUFFICES ASSUME ~ScriptAccepted, ~MayBeTooWide
                 PROVE  \/ TableColumns = {}
                        \/ \E c \in TableColumns : ~ColumnTypeExists(options[c])
                        \/ primaryKey # None /\ (primaryKey \notin TableColumns \/ ~Indexable(primaryKey))
                        \/ \E c \in TableColumns : options[c].nonClusteredIndex /\ ~Indexable(c)
    BY DEF OnlyIndexesRefused, MayBeTooWide, Indexable, CreateTable, optionVars
  <2>. QED
    BY <2>1 DEF ScriptAccepted, GetColumnDDL, ConfigInv, KeyInv, CreateTable
<1>4. (LayoutInv /\ CellInv /\ NameInv)'
  BY DEF ConfigInv, LayoutInv, Layout, CellInv, NameInv, CreateTable, optionVars
<1>. QED
  BY <1>1, <1>2, <1>3, <1>4 DEF ConfigInv

\* The DataTable makes its key and the Id column NOT NULL, which the SQL table
\* has them already.
LEMMA CreateDataTableStep == ConfigInv /\ CreateDataTable => ConfigInv'
<1>. SUFFICES ASSUME ConfigInv, CreateDataTable PROVE ConfigInv'
  OBVIOUS
<1>. TableColumns \subseteq Columns /\ TableColumns' = TableColumns
  BY DEF ConfigInv, TypeOK, TableColumns, Columns, CreateDataTable, optionVars
<1>1. eventTable' = Layout
  <2>1. ASSUME NEW c \in TableColumns
        PROVE  AsDataColumn(c, options[c]) = [GetColumnDDL(options[c]) EXCEPT
                    !.nullable = options[c].allowNull /\ c # "Id"]
    BY DEF AsDataColumn, GetColumnDDL
  <2>2. ASSUME NEW c \in TableColumns
        PROVE  (IF c = primaryKey
                THEN [AsDataColumn(c, options[c]) EXCEPT !.nullable = FALSE]
                ELSE AsDataColumn(c, options[c])) = GetColumnDDL(options[c])
    <3>1. c # None
      BY SqlColumnsAssumption DEF Columns, StandardColumn, None
    <3>2. options[c] \in Options /\ options[c].allowNull \in BOOLEAN
      BY DEF ConfigInv, TypeOK, Options
    <3>3. c = primaryKey \/ c = "Id" => options[c].allowNull = FALSE
      BY <3>1, <3>2 DEF ConfigInv, KeyInv, CreateDataTable
    <3>. QED
      BY <3>2, <3>3 DEF AsDataColumn, GetColumnDDL
  <2>. QED
    BY <2>2 DEF CreateDataTable, Layout
<1>2. TypeOK'
  <2>1. Layout \in [TableColumns -> ColumnLayout]
    BY LayoutsTyped DEF Layout, ConfigInv, TypeOK
  <2>2. /\ table' \in {Existing} \cup [TableColumns' -> ColumnLayout]
        /\ eventTable' \in [TableColumns' -> ColumnLayout]
    BY <1>1, <2>1 DEF CreateDataTable, ConfigInv, TypeOK
  <2>. QED
    BY <2>2 DEF ConfigInv, TypeOK, CreateDataTable, optionVars, Phases
<1>3. (KeyInv /\ OnlyIndexesRefused)'
  BY DEF ConfigInv, KeyInv, OnlyIndexesRefused, CreateDataTable, optionVars
<1>4. (LayoutInv /\ CellInv /\ NameInv)'
  BY <1>1 DEF ConfigInv, LayoutInv, Layout, CellInv, NameInv, CreateDataTable, optionVars
<1>. QED
  BY <1>2, <1>3, <1>4 DEF ConfigInv

LEMMA GenerateCellStep ==
    ASSUME ConfigInv, NEW c \in Columns, GenerateCell(c)
    PROVE  ConfigInv'
<1>1. CellInv'
  BY DEF GenerateCell, CellInv, optionVars, TableColumns
<1>2. (TypeOK /\ KeyInv /\ OnlyIndexesRefused /\ LayoutInv /\ NameInv)'
  BY DEF ConfigInv, TypeOK, KeyInv, OnlyIndexesRefused, LayoutInv, Layout, NameInv,
         GenerateCell, optionVars, TableColumns, MayBeTooWide, Indexable
<1>. QED
  BY <1>1, <1>2 DEF ConfigInv

LEMMA NextInv == ConfigInv /\ [Next]_vars => ConfigInv'
<1>. SUFFICES ASSUME ConfigInv, [Next]_vars PROVE ConfigInv'
  OBVIOUS
<1>1. CASE UNCHANGED vars
  BY <1>1 DEF vars, optionVars, ConfigInv, TypeOK, KeyInv, OnlyIndexesRefused,
              LayoutInv, Layout, CellInv, NameInv, TableColumns, MayBeTooWide, Indexable
<1>2. CASE Next
  BY <1>2, ConfigureStep, ConfigureWholeStep, FinalizeStep, CreateTableStep,
     CreateDataTableStep, GenerateCellStep DEF Next
<1>. QED
  BY <1>1, <1>2

LEMMA Invariance == Spec => []ConfigInv
  BY InitInv, NextInv, PTL DEF Spec

-----------------------------------------------------------------------------
(* Theorems                                                                  *)

\* Every option keeps a type that its column accepts.
THEOREM TypeCorrect == Spec => []TypeOK
<1>1. ConfigInv => TypeOK
  BY DEF ConfigInv
<1>. QED
  BY <1>1, Invariance, PTL

\* For any columns and settings, SQL Server refuses the script of a finalized
\* configuration only for a reason that finalizing does not look at.
THEOREM FinalizedIsValid == Spec => []OnlyIndexesRefused
<1>1. ConfigInv => OnlyIndexesRefused
  BY DEF ConfigInv
<1>. QED
  BY <1>1, Invariance, PTL

\* For any columns, settings and lengths of text, a value that the DataTable, or
\* an INSERT into the table of the script, does not take comes from one of the
\* places that do not fit it to its column.
THEOREM CutValuesTaken == Spec => []OnlyUncutRefused
<1>1. ConfigInv => OnlyUncutRefused
  <2>. SUFFICES ASSUME ConfigInv, cell # NoCell, phase = "ready",
                       cell.column \notin {"Level", "TraceId", "SpanId", "Properties", "LogEvent"},
                       cell.column \in Custom \cup {"TimeStamp"} => cell.content.kind # "outside",
                       cell.column \in Custom /\ ~options[cell.column].allowNull =>
                            /\ cell.content.kind # "null"
                            /\ Assignable(options[cell.column], cell.value)
                PROVE  ~Refused(cell.column, cell.content)
    BY DEF OnlyUncutRefused
  <2>1. /\ cell.column \in TableColumns \ {"Id"} /\ cell.value \in ValuesOf(cell.column, options[cell.column])
        /\ cell.content = GetColumnValue(cell.column, options[cell.column], cell.value)
        /\ eventTable[cell.column] = GetColumnDDL(options[cell.column])
        /\ table # Existing => table[cell.column] = GetColumnDDL(options[cell.column])
    BY DEF ConfigInv, CellInv, LayoutInv, Layout
  <2>2. /\ cell.column \in Columns \ {"Id"}
        /\ options[cell.column] \in Options
        /\ options[cell.column].dataType \in AllowedTypes(cell.column)
    BY <2>1 DEF ConfigInv, TypeOK, TableColumns, Columns
  <2>3. Takes(GetColumnDDL(options[cell.column]), cell.content)
    BY <2>1, <2>2, CutValueTaken
  <2>4. cell.content.kind \notin {"struct", "outside"}
    BY <2>1, <2>2, OnlyIdsAreStructs, OnlyConvertedIsOutside
  <2>. QED
    BY <2>1, <2>3, <2>4 DEF Refused, TakesParameter
<1>. QED
  BY <1>1, Invariance, PTL

\* For any columns, settings and values, with ExcludeAdditionalProperties: exactly
\* which properties vanish.
THEOREM VanishingProperties == Spec => []PropertiesKept
<1>1. ConfigInv => PropertiesKept
  <2>. SUFFICES ASSUME ConfigInv, phase = "ready",
                       NEW k \in PropertyKeys \cup {<<c>> : c \in Custom},
                       NEW value \in PropertyValues, value.kind # "absent"
                PROVE  /\ k \notin FilteredProperties({k})
                       /\ \A c \in additional : ~Holds(c, k, value)
                       <=>
                       /\ \E c \in additional : SameName(PropertyName(c, options[c]), k)
                       /\ \A c \in additional : PropertyName(c, options[c]) = k =>
                            \/ Len(k) > 1
                            \/ options[c].renamed
                            \/ /\ options[c].allowNull
                               /\ ~Assignable(options[c], value)
                               /\ ~Convertible(options[c], value)
    BY DEF PropertiesKept
  <2>1. k \notin FilteredProperties({k}) <=>
            \E c \in additional : SameName(PropertyName(c, options[c]), k)
    BY DEF FilteredProperties, AdditionalColumnPropertyNames
  <2>2. ASSUME NEW c \in additional
        PROVE  Holds(c, k, value) <=>
                  /\ PropertyName(c, options[c]) = k
                  /\ ~(Len(k) > 1) /\ ~options[c].renamed
                  /\ ~(/\ options[c].allowNull
                       /\ ~Assignable(options[c], value)
                       /\ ~Convertible(options[c], value))
    <3>1. c \in Custom /\ c \in Columns /\ NameOK(options[c])
      BY DEF ConfigInv, TypeOK, NameInv, Columns
    <3>2. k \in GetPropertyValueForColumn(c, options[c], {k}) <=>
            PropertyName(c, options[c]) = k /\ ~(Len(options[c].hierarchy) > 1)
      BY DEF GetPropertyValueForColumn, HasHierarchicalPropertyName
    <3>3. PropertyName(c, options[c]) = k =>
            (~(Len(options[c].hierarchy) > 1) <=> ~(Len(k) > 1) /\ ~options[c].renamed)
      <4>1. CASE options[c].propertyName = <<>>
        <5>1. ~options[c].renamed /\ options[c].hierarchy = <<>>
          BY <3>1, <4>1 DEF NameOK
        <5>2. PropertyName(c, options[c]) = <<c>> /\ Len(<<c>>) = 1
          BY <4>1 DEF PropertyName
        <5>3. Len(options[c].hierarchy) = 0
          BY <5>1
        <5>. QED
          BY <5>1, <5>2, <5>3
      <4>2. CASE options[c].propertyName # <<>>
        BY <3>1, <4>2 DEF NameOK, PropertyName
      <4>. QED
        BY <4>1, <4>2
    <3>4. GetColumnValue(c, options[c], value) = Null <=>
            /\ options[c].allowNull
            /\ ~Assignable(options[c], value)
            /\ ~Convertible(options[c], value)
      BY <3>1 DEF GetColumnValue, GetAdditionalColumnValue, InRange, Null, Typed, Outside, Text
    <3>. QED
      BY <3>2, <3>3, <3>4 DEF Holds
  <2>. QED
    BY <2>1, <2>2
<1>. QED
  BY <1>1, Invariance, PTL
=============================================================================
