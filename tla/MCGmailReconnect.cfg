SPECIFICATION Spec
CONSTANTS
    Mailboxes = {1, 2}
    Scenes <- LateSync
    Jobs = {1, 2, 3}
    ChunkSize = 1
    ChunksPerJob = 2
    Cap = 1
INVARIANTS OneTurn NothingSkipped
