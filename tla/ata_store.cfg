SPECIFICATION FairSpec
CONSTANTS
    x = x
    y = y
    Junk = Junk
    NoRequest = NoRequest
    Base = 2
    WORDS = 2
    Data = {x, y}
    Addresses <- MCAddresses
INVARIANTS
    PortDiscipline
PROPERTIES
    ImplementsSectorStore
    CallReturns
