SPECIFICATION Spec
CONSTANTS
    FileId <- Files
    Program <- Programs
    MAX_FILE_SIZE = 12
    Word = 64
    MAPPED = 8
    Ehdr = 2
    Phdr = 1
    Old = Old
    Zeroed = Zeroed
INVARIANTS
    TypeOK
    OnlySegmentsWritten
PROPERTIES
    RunsTheFile
    RefusesOnlyCutFiles
