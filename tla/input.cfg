SPECIFICATION Spec
CONSTANTS
    Bytes <- Classes
    MaxBytes = 5
    MaxChunk = 2
INVARIANTS ChunkingInvisible MidSequenceTruthful
CHECK_DEADLOCK FALSE
