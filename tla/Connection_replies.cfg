\* One connection; replies of every length around one and two chunks.
CONSTANTS
    ChunkSize = 2
    ReplyLens = {0, 1, 2, 3, 4, 5}
    ErrorLens = {1, 3}
    MaxMsgs = 3
SPECIFICATION Spec
INVARIANT TypeOK RepliesDelivered
PROPERTY WritesChunked
\* The goroutine returns after conn.Close().
CHECK_DEADLOCK FALSE
