SPECIFICATION PciFairSpec
CONSTANTS
    Word = 1048576
    MAX_PCI_BUS = 2
    MAX_PCI_SLOT = 2
    Functions = 3
    BusWord = 4
    PortWord = 65536
    PCI_VENDOR_NONE = 65535
    PCI_VENDOR_INTEL = 32902
    NetworkDevice = {4110, 4100}
    RX_RING_SIZE = 128
    TX_RING_SIZE = 128
    Space <- MCSpace
    Stack <- MCStack
INVARIANTS
    UhciReset
CHECK_DEADLOCK FALSE
