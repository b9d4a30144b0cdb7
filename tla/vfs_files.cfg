SPECIFICATION Spec
CONSTANTS
    a = a
    b = b
    bx = bx
    x = x
    y = y
    NoName = NoName
    ZeroBlock = ZeroBlock
    DotDot = DotDot
    Slash = Slash
    MAX_INODES = 3
    MAX_DIR_ENTRIES = 3
    INODE_SECTORS = 2
    Name = {a, b}
    Stored <- MCStored
    Block = {ZeroBlock, x, y}
    Content <- MCContent
    InitName = a
    InitData <- MCInitData
    MaxTorn = 2
INVARIANTS
    DriveLagsOnlyByCutWrites
    SizeCoversWrittenBlocks
