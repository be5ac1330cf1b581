SPECIFICATION FairSpec
CONSTANTS
    N = 6
    Chunk = 4
    HeaderMax = 4
    Lens = {4, 8, 46, 60, 62}
    Scenes <- AllScenes
    U8 <- Bytes1
    U16 <- Bytes2
    U24 <- Bytes3
INVARIANTS SniInBounds BytesInOrder
PROPERTY Delivered
CHECK_DEADLOCK FALSE
