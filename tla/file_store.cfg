SPECIFICATION Spec
CONSTANTS
    x = x
    y = y
    f1 = f1
    f2 = f2
    Zero = Zero
    NotOpen = NotOpen
    Running = Running
    MAX_OPEN_FILES = 2
    MAX_FILE_SIZE = 2
    Word = 16
    FileId = {f1, f2}
    Byte = {Zero, x, y}
    Size = {0, 1, 2, 15}
    Offset = {0, 1, 3}
    Buffer <- MCBuffer
INVARIANTS
    HolesAreZero
PROPERTIES
    ImplementsFileStore
CHECK_DEADLOCK FALSE
