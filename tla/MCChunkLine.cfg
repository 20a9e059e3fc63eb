SPECIFICATION ChunkSpec
CONSTANTS
    Lines <- MCLines
    MaxLength = 8
    ChunkLines <- MCChunkLines
    Digits <- MCDigits
    Base = 2
    Modulus = 8
    BodyLimits = {3, 100}
    BodyBefore = {0, 1, 2, 3}
INVARIANTS
    AcceptsTheGrammar
    UriIsTheTarget
    ChunkCounted
CHECK_DEADLOCK FALSE
