------------------------------- MODULE Console ------------------------------
(***************************************************************************)
(* The console: keys that become scancodes in the keyboard controller, the *)
(* kernel's loop that polls them (kernel/main.c), the translation of       *)
(* drivers/keyboard/keyboard.c, the line editor of io/kinput.c, the screen *)
(* it echoes on and the shell (module Shell) that gets the line.  The      *)
(* kernel polls only between commands, so keys pressed during a command    *)
(* wait in the controller, which has room for a few and drops the rest.    *)
(***************************************************************************)
EXTENDS Screen, Sequences

CONSTANTS
    MAX_COMMAND_LEN,  \* characters of the command buffer, with its '\0'
    Code,             \* scancodes without the release bit
    SC_SHIFT_LEFT, SC_SHIFT_RIGHT,
    Plain, Shifted,   \* the two translation tables, [Code -> Char]
    Nul,              \* 0: no character
    Char,             \* what the tables may hold
    Kill,             \* 0x15, which neither table holds
    Angle,            \* '>'
    OutputChar,       \* characters that commands print
    Keys,             \* the codes the keyboard sends
    FifoSize,         \* scancodes the controller has room for
    Slash, Commands, NoArgs  \* see Shell

INSTANCE Shell

Shift == {SC_SHIFT_LEFT, SC_SHIFT_RIGHT}

\* A line, its prompt and the cursor fit on the screen, wherever it begins.
ASSUME ConsoleAssumption ==
    /\ MAX_COMMAND_LEN \in Nat \ {0}
    /\ VGA_WIDTH + MAX_COMMAND_LEN + 2 <= VGA_WIDTH * VGA_HEIGHT
    /\ Shift \subseteq Code /\ Keys \subseteq Code
    /\ Plain \in [Code -> Char] /\ Shifted \in [Code -> Char]
    /\ Nul \in Char \ Glyph /\ Angle \in Glyph
    /\ Newline # Nul /\ Backspace # Nul
    /\ Kill \notin Char
    /\ FifoSize \in Nat \ {0}
    /\ DOMAIN Commands \subseteq Nat
    /\ \A k \in DOMAIN Commands :
          /\ Commands[k].kind \in Kinds
          /\ Commands[k].name # <<>>

VARIABLES
    held,         \* the shift keys that are down
    fifo,         \* the scancodes in the controller
    agrees,       \* the last shift scancode arrived and told whether a
                  \* shift key is down
    shift_state,  \* what the kernel takes the shift state to be
    line,         \* the first idx characters of the command buffer
    unseen,       \* the line has taken a character that kputc does not draw
    screen,       \* video memory and cursor
    pc,           \* "poll", or "command" while handle_command runs
    called        \* what handle_command calls

vars == <<held, fifo, agrees, shift_state, line, unseen, screen, pc, called>>

TypeOK ==
    /\ held \in SUBSET Shift
    /\ fifo \in Seq([code : Code, press : BOOLEAN]) /\ Len(fifo) <= FifoSize
    /\ agrees \in BOOLEAN
    /\ shift_state \in BOOLEAN
    /\ line \in Seq(Char) /\ Len(line) < MAX_COMMAND_LEN
    /\ unseen \in BOOLEAN
    /\ screen \in Screens
    /\ pc \in {"poll", "command"}
    /\ called.command \in {"boot", "nothing", "not found", "usage"}
                            \cup {Commands[k].fn : k \in DOMAIN Commands}

-----------------------------------------------------------------------------
\* input_prompt
Prompted(scr) == kputc(kputc(scr, Angle), Space)

\* kmain clears the screen; what the boot prints, up to the first prompt, is
\* printed as a command's output is.
Init ==
    /\ held = {}
    /\ fifo = <<>>
    /\ agrees = TRUE
    /\ shift_state = FALSE
    /\ line = <<>>
    /\ unseen = FALSE
    /\ screen = Clean
    /\ pc = "command"
    /\ called = [command |-> "boot", args |-> NoArgs]

\* The controller takes a scancode, or has no room for it.
Arrive(code, press) ==
    fifo' = IF Len(fifo) < FifoSize
               THEN Append(fifo, [code |-> code, press |-> press]) ELSE fifo

\* A key goes down or up.  The keyboard also sends shift scancodes of its own
\* around the codes of some keys (E0 2A, E0 AA): no shift key moves then.
Key(code, press) ==
    /\ held' \in IF code \notin Shift THEN {held}
                 ELSE {held, IF press THEN held \cup {code} ELSE held \ {code}}
    /\ Arrive(code, press)
    /\ agrees' = IF code \in Shift
                    THEN Len(fifo) < FifoSize /\ press = (held' # {})
                    ELSE agrees
    /\ UNCHANGED <<shift_state, line, unseen, screen, pc, called>>

\* Mutant: only the left key counts as shift.
ShiftAfter_LeftOnly(e) ==
    IF e.code = SC_SHIFT_LEFT THEN e.press ELSE shift_state

\* getchar: the shift state it leaves, and the character it returns.
ShiftAfter(e) == IF e.code \in Shift THEN e.press ELSE shift_state

Getchar(e) ==
    IF e.code \in Shift \/ ~e.press THEN Nul
    ELSE IF shift_state THEN Shifted[e.code] ELSE Plain[e.code]

Rubout(scr) == kputc(kputc(kputc(scr, Backspace), Space), Backspace)

RuboutAll(scr) ==
    LET after[n \in 0 .. Len(line)] ==
            IF n = 0 THEN scr ELSE Rubout(after[n - 1])
    IN  after[Len(line)]

\* Mutant: the screen is rubbed out even when the line is empty.
Edit_NoEmptyCheck(c) ==
    /\ line' = IF c = Backspace
                  THEN IF line = <<>> THEN line
                       ELSE SubSeq(line, 1, Len(line) - 1)
               ELSE IF c = Kill THEN <<>>
               ELSE IF Len(line) < MAX_COMMAND_LEN - 1 THEN Append(line, c)
               ELSE line
    /\ screen' = IF c = Backspace THEN Rubout(screen)
                 ELSE IF c = Kill THEN RuboutAll(screen)
                 ELSE IF line' # line THEN kputc(screen, c) ELSE screen

\* What input_poll does with a character that does not end the line.
Edit(c) ==
    IF c = Backspace THEN
        IF line = <<>> THEN UNCHANGED <<line, screen>>
        ELSE line' = SubSeq(line, 1, Len(line) - 1) /\ screen' = Rubout(screen)
    ELSE IF c = Kill THEN line' = <<>> /\ screen' = RuboutAll(screen)
    ELSE IF Len(line) < MAX_COMMAND_LEN - 1
        THEN line' = Append(line, c) /\ screen' = kputc(screen, c)
    ELSE UNCHANGED <<line, screen>>

\* One round of kmain's loop in which no line ends.  Nul is not edited.
Poll ==
    /\ pc = "poll" /\ fifo # <<>>
    /\ fifo' = Tail(fifo)
    /\ shift_state' = ShiftAfter(Head(fifo))
    /\ LET c == Getchar(Head(fifo)) IN
       /\ c # Newline
       /\ IF c = Nul THEN UNCHANGED <<line, screen>> ELSE Edit(c)
       /\ unseen' = (unseen \/ (Len(line') > Len(line) /\ c \notin Glyph))
    /\ UNCHANGED <<held, agrees, pc, called>>

\* The command buffer: the line, its Nul, and what earlier lines left behind.
Buffer(stale) ==
    [i \in 0 .. MAX_COMMAND_LEN - 1 |->
        IF i < Len(line) THEN line[i + 1] ELSE IF i = Len(line) THEN Nul ELSE stale]

\* Mutant: a full line takes no further character, not even its end.
Enter_NotWhenFull ==
    /\ pc = "poll" /\ fifo # <<>>
    /\ Getchar(Head(fifo)) = Newline
    /\ fifo' = Tail(fifo)
    /\ IF Len(line) < MAX_COMMAND_LEN - 1
          THEN screen' = kputc(screen, Newline) /\ pc' = "command"
          ELSE UNCHANGED <<screen, pc>>
    /\ called' \in {handle_command(Buffer(stale)) : stale \in Char}
    /\ UNCHANGED <<held, agrees, shift_state, line, unseen>>

\* The round that ends the line and hands it to handle_command.
Enter ==
    /\ pc = "poll" /\ fifo # <<>>
    /\ Getchar(Head(fifo)) = Newline
    /\ fifo' = Tail(fifo)
    /\ screen' = kputc(screen, Newline)
    /\ pc' = "command"
    /\ called' \in {handle_command(Buffer(stale)) : stale \in Char}
    /\ UNCHANGED <<held, agrees, shift_state, line, unseen>>

\* A command prints with kputc or clears the screen.
CommandOutput ==
    /\ pc = "command" /\ called # Nothing
    /\ screen' \in {kputc(screen, c) : c \in OutputChar} \cup {Clean}
    /\ UNCHANGED <<held, fifo, agrees, shift_state, line, unseen, pc, called>>

CommandEnd ==
    /\ pc = "command"
    /\ line' = <<>>
    /\ unseen' = FALSE
    /\ screen' = Prompted(screen)
    /\ pc' = "poll"
    /\ called' = Nothing
    /\ UNCHANGED <<held, fifo, agrees, shift_state>>

Next ==
    \/ \E code \in Keys, press \in BOOLEAN : Key(code, press)
    \/ Poll
    \/ Enter
    \/ CommandOutput
    \/ CommandEnd

Spec == Init /\ [][Next]_vars

\* kmain's loop runs on, and every command ends.
Fairness == WF_vars(Poll) /\ WF_vars(Enter) /\ WF_vars(CommandEnd)

FairSpec == Spec /\ Fairness

-----------------------------------------------------------------------------
PromptAndLine == <<Angle, Space>> \o line

\* What the user sees is what the shell will get: the prompt and the line
\* stand right before the cursor, across wraps, scrolls, rubouts and a full
\* buffer, and at it and behind it all is blank.  kputc draws nothing for Tab
\* and Escape but the line takes them.
LineOnScreen ==
    /\ \A c \in Cells : c >= Cursor(screen) => screen.vga[c] = Space
    /\ pc = "poll" /\ ~unseen =>
          LET n == Len(PromptAndLine) IN
          /\ n <= Cursor(screen)
          /\ \A j \in 1 .. n :
                screen.vga[Cursor(screen) - n + j - 1] = PromptAndLine[j]

\* The characters on the screen between the prompt and the cursor.
Shown == [j \in 1 .. Len(line) |-> screen.vga[Cursor(screen) - Len(line) + j - 1]]

Least(set) == CHOOSE k \in set : \A j \in set : k <= j

\* What a line means to its reader: its first word is the name, and what
\* follows the spaces after it are the arguments.  A line that begins with a
\* space names no command.
Meaning(text) ==
    LET spaces == {k \in DOMAIN text : text[k] = Space}
        n == IF spaces = {} THEN Len(text) ELSE Least(spaces) - 1
        rest == {k \in DOMAIN text : k > n /\ text[k] # Space}
        args == IF rest = {} THEN NoArgs ELSE SubSeq(text, Least(rest), Len(text))
        named == {k \in DOMAIN Commands : Commands[k].name = SubSeq(text, 1, n)}
        command == Commands[Least(named)] IN
    IF text = <<>> THEN Nothing
    ELSE IF named = {} THEN [command |-> "not found", args |-> NoArgs]
    ELSE IF args = NoArgs /\ command.kind = "file"
    THEN [command |-> "usage", args |-> NoArgs]
    ELSE [command |-> command.fn,
          args |-> IF args = NoArgs /\ command.kind = "cd" THEN <<Slash>> ELSE args]

\* What stands on the screen when Enter is taken is what is run, whatever was
\* typed and rubbed out to get there and whatever earlier lines left in the
\* buffer.
RunsWhatIsShown ==
    [][pc = "poll" /\ pc' = "command" /\ ~unseen => called' = Meaning(Shown)]_vars

\* Once the controller is drained, the kernel's idea of the shift keys is
\* right if the last shift scancode got through and told the truth: neither
\* older losses nor keys pressed during a command put it wrong for good.
ShiftInStep ==
    fifo = <<>> /\ agrees => shift_state = (held # {})

\* A line ended by Enter is run, also when the buffer is full, and also when
\* the Enter came while a command was running.
EnterWaiting ==
    \E j \in DOMAIN fifo :
        fifo[j].press /\ Plain[fifo[j].code] = Newline
            /\ Shifted[fifo[j].code] = Newline

EnterRuns == (pc = "poll" /\ EnterWaiting) ~> pc = "command"
=============================================================================
