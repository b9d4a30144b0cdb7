SPECIFICATION FairSpec
CONSTANTS
    ab = ab
    cut = cut
    h = h
    i = i
    NoRegs = NoRegs
    Buf = {ab, cut}
    Unended = {cut}
    Char = {h, i}
    Value <- MCValue
    Regs <- MCRegs
    KernelRegs <- MCKernelRegs
    Text <- MCText
    TickWord = 3
INVARIANTS
    NeverLost
    RegsMatchFrame
    RingsApart
PROPERTIES
    ImplementsProcess
    TimeGoesOn
