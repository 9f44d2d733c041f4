SPECIFICATION Spec
CONSTANTS
    Keys <- MCKeys
    Wildcard = "*"
    Rules = {1, 2, 3}
    Patterns <- MCPatterns
    Texts <- MCTexts
    Numbers <- MCNumbers
    Mask <- MCMask
    NumberOf <- MCNumberOf
    Docs <- MCDocs
    Spare = {0, 1}
    MaxTokens = 8
    MaxDepth = 3
INVARIANTS
    TypeOK
    SlicesHoldPaths
    GovernedByNearestAnchor
    MatchFindsBest
PROPERTY DeliversMaskedDocument
