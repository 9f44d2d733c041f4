SPECIFICATION Spec
CONSTANTS
    Keys <- MCKeys
    Values <- MCValues
    Modes <- MCModes
    Norm <- MCNorm
    Remains <- MCRemains
    NoText = "none"
    Escaped <- MCEscaped
    Quoted <- MCQuoted
    Starred <- MCStarred
    TokenLike <- MCTokenLike
    Blank = ""
    Document = "{}"
    Wide <- MCWide
    KeyRules <- MCDecoratedRules
    Regexes <- MCFormats
    MessageField = "email"
    Paths <- MCPaths
    Spells <- MCSpells
INVARIANT OneToken
