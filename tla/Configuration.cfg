SPECIFICATION Spec
CONSTANTS
    Custom = {c1, c2}
    Configured = {"Id", "Exception", "TimeStamp", "Properties", c1, c2}
    Unnamed = {c2}
    TextLengths = {0, 3, 6}
    DataTypes = {"Int", "Char", "Xml", "Decimal", "DateTimeOffset"}
    DataLengths = {0, 2, 5, 5000}
    Segments <- MCSegments
    PropertyKeys <- MCPropertyKeys
    LowerCase <- MCLowerCase
    MaxChanges = 3
INVARIANTS
    TypeOK
    OnlyIndexesRefused
    OnlyUncutRefused
    PropertiesKept
CHECK_DEADLOCK FALSE
