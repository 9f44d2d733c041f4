SPECIFICATION Spec
CONSTANTS
    Keys <- MCKeys
    Values <- MCValues
    Modes <- MCModes
    Norm <- MCNorm
    Remains <- MCRemains
    NoText = "none"
    Escaped <- MCEscaped
    Quoted <- MCQuoted
    Starred <- MCStarred
    TokenLike <- MCTokenLike
    Blank = ""
    Document = "{}"
    Wide <- MCWide
    KeyRules <- MCKeyRules
    Regexes <- MCRegexes
    MessageField = "email"
    Paths <- MCPaths
    Spells <- MCSpells
INVARIANTS
    TypeOK
    KeyedIsMasked
    FormatIsMasked
    ExcerptIsMasked
    MaskedTwice
    NothingElseChanges
