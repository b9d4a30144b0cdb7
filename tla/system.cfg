SPECIFICATION FairSpec
CONSTANTS
    rw = rw
    user = user
    None = None
    PAGE_ENTRIES = 3
    first_page_table = 1
    Virt = {1, 2, 5}
    Phys = {8}
    Flags = {rw, user}
    BootFlags = user
    TickWord = 8
    Ms <- MCMs
    SHUTDOWN_PORTS <- MCPorts
    Machine <- MCMachine
    PackageOp = 18
INVARIANTS
    MapTakesEffect
PROPERTIES
    WaitsAsAsked
    WaitReturns
    RebootResets
    ShutdownStops
CHECK_DEADLOCK FALSE
