\* Three chunks, so that the channel is used again. Nothing needs to happen once
\* the stream has ended.
SPECIFICATION FairSpec
CONSTANT
    MaxChunks = 3
INVARIANTS
    TypeOK
PROPERTIES
    ImplementsStream
    ReadsAreAnswered
    EndsReleaseAll
CHECK_DEADLOCK FALSE
