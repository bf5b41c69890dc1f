SPECIFICATION UploadSpec
CONSTANTS
    chunkSize = 3
    IVSize = 2
    TagSize = 1
    MaxChunkCount = 3
    MinCompress = 2
    Margin = 1
    Headroom = 4
    MaxGB3ChunkSize = 6
    Noise = 9
    Sizes = {0, 2, 3, 5, 7}
    Contents <- MCContents
    MaxWrites = 2
    MaxUploads = 2
INVARIANTS AckedDecodes LossRejected OldFormsDecode
CHECK_DEADLOCK FALSE
