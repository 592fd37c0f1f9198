SPECIFICATION Spec
CONSTANTS
    Nodes = {1, 2}
    Readers = {1, 2}
    Writers = {1}
    CacheSetups <- Cachings
    Ids = {1, 2, 3, 4}
    Names = {"a", "b"}
    Calls = {1, 2, 3}
    FileSetups <- Filings
    Hashes = {1, 2}
    Putters = {1, 2}
    BlobSetups <- Keepings
    LifeSetups <- Livings
INVARIANTS ReadsSeeWrites TreeKept BytesKept StoresReleased
CHECK_DEADLOCK FALSE
