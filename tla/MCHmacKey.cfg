SPECIFICATION Spec
CONSTANTS
    Names <- MCNames
    Wildcard = "*"
    NoName = ""
    Environments <- MCEnvironments
    Files <- MCFiles
    Values <- MCValues
    Modes <- MCModes
    Norm <- MCNorm
    Remains <- MCRemains
    NoText = "no text"
    Starred <- MCStarred
    TokenLike <- MCTokenLike
    Blank = ""
INVARIANT KeyEnablesHashing
