SPECIFICATION FairSpec
CONSTANTS
    a = a
    Tab = Tab
    KeyA = KeyA
    KeyEnter = KeyEnter
    KeyBack = KeyBack
    KeyTab = KeyTab
    ShiftL = ShiftL
    ShiftR = ShiftR
    Space = Space
    Newline = Newline
    Backspace = Backspace
    Nul = Nul
    Kill = Kill
    Angle = Angle
    VGA_WIDTH = 2
    VGA_HEIGHT = 4
    MAX_COMMAND_LEN = 4
    Glyph = {Space, Angle, a}
    Char = {Nul, Newline, Backspace, Tab, a, Space}
    Code = {KeyA, KeyEnter, KeyBack, KeyTab, ShiftL, ShiftR}
    Keys = {KeyA, KeyEnter, KeyBack, ShiftL, ShiftR}
    SC_SHIFT_LEFT = ShiftL
    SC_SHIFT_RIGHT = ShiftR
    Plain <- MCPlain
    Shifted <- MCShifted
    OutputChar = {Newline}
    FifoSize = 2
    Slash = Slash
    NoArgs = NoArgs
    Commands <- MCCommands
INVARIANTS
    LineOnScreen
    ShiftInStep
PROPERTIES
    RunsWhatIsShown
    EnterRuns
