SPECIFICATION FairSpec
CONSTANTS
    Letter <- MCLetter
    Encoded <- MCEncoded
    Decode <- MCDecode
    Uris <- MCUris
    Configs <- MCConfigs
    NULL = NULL
    Methods = {"GET", "POST"}
INVARIANTS
    TypeOK
    CgiHasLocation
    PiecesMakeTheUri
    LocationAsConfigured
PROPERTIES
    WalkEnds
CHECK_DEADLOCK FALSE
