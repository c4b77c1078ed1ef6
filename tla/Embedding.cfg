SPECIFICATION EmbeddingSpec
CONSTANTS
    Totals <- FewLines
    Sizes <- SmallSizes
    Overlaps <- SmallOverlaps
    Retries <- SomeRetries
    Pins <- SomePins
    NoPin = NoPin
    MaxTexts = 3
INVARIANTS
    EmbeddingTypeOK
    ChunksFit
    LinesAreFound
PROPERTIES
    AttemptsAreSound
    EverythingEnds
CHECK_DEADLOCK FALSE
