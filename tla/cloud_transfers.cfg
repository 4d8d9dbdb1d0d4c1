\* Downloads, uploads and reads of mounts, while other clients write and delete.
SPECIFICATION FairSpec
CONSTANTS
    file1 = file1
    file2 = file2
    Doc = {file1, file2}
    MaxSize = 2
    MaxRev = 2
    Chunk = 2
    MaxBytes = 2
    MaxEntries = 2
INVARIANTS
    CacheSound
    ServedAsListed
    NothingHalf
PROPERTIES
    DownloadedIsWhole
    TransferEnds
CHECK_DEADLOCK FALSE
