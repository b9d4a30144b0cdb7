SPECIFICATION FairSpec
CONSTANTS
    a = a
    b = b
    bx = bx
    x = x
    y = y
    NoName = NoName
    ZeroBlock = ZeroBlock
    DotDot = DotDot
    Slash = Slash
    MAX_INODES = 4
    MAX_DIR_ENTRIES = 3
    INODE_SECTORS = 2
    Name <- MCNames
    Stored <- MCStored
    Block = {ZeroBlock, x, y}
    Content <- MCNoContent
    InitName = a
    InitData <- MCInitData
    MaxTorn = 2
INVARIANTS
    NoOrphan
    Acyclic
    PwdReachesRoot
    CurrentDirIsDir
    LinkedOncePerTear
    SiblingNamesDiffer
PROPERTIES
    DriveNeverForgets
    ImplementsDurableTree
    SyncedInodeArrives
