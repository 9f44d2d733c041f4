SPECIFICATION Spec
CONSTANTS
    Keys <- MCKeys
    QueryKeys <- MCQueryKeys
    Documents <- MCDocuments
    Unparseable <- MCUnparseable
    WithAlias <- MCWithAlias
    Empty = ""
    Parsed <- MCParsed
    FieldNames = {"a", "b"}
    FragmentNames = {"F", "G"}
    Null = null
    Other = other
    MaxElements = 2
    MaxParams = 1
INVARIANTS
    TypeOK
    ExecutedIsChecked
    EveryOperationHasText
    AnswersUnderOwnNames
PROPERTY RefusedWithCause
