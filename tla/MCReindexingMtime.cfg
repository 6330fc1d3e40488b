CONSTANTS
    Paths = {p1}
    Workers = {w1, w2}
    NoPath = NoPath
    ChunksOf <- MCChunksOf
    MaxRestarts = 1
SPECIFICATION ReindexingSpec
INVARIANT SameMtimeSameVersion
