\* Every sequence of Put, PutMany and DeleteBlock calls, with failing store
\* calls and writes to the base by its other users, one block with empty data.
CONSTANTS
    c1 = c1  c2 = c2  c3 = c3
    Cids <- MCCids
    BlockSize <- OneEmptySize
    Viewable = TRUE
    StoreFaults = TRUE
SPECIFICATION BSSpec
INVARIANT HasTracksCalls
