------------------------------ MODULE MCConsole -----------------------------
(***************************************************************************)
(* Small instances of Console for TLC.                                     *)
(***************************************************************************)
EXTENDS Console

CONSTANTS
    a, Tab,                               \* characters
    KeyA, KeyEnter, KeyBack, KeyTab, ShiftL, ShiftR

\* With shift, the one letter key gives a space.
\* "a" takes a file, "aa" is like cd and " a" can never be called.
MCCommands ==
    <<[name |-> <<a>>, fn |-> "cmd_cat", kind |-> "file"],
      [name |-> <<a, a>>, fn |-> "cmd_cd", kind |-> "cd"],
      [name |-> <<Space, a>>, fn |-> "cmd_ls", kind |-> "plain"],
      [name |-> <<a, a, a>>, fn |-> "cmd_echo", kind |-> "plain"]>>

MCPlain ==
    [c \in Code |-> CASE c = KeyA -> a
                      [] c = KeyEnter -> Newline
                      [] c = KeyBack -> Backspace
                      [] c = KeyTab -> Tab
                      [] OTHER -> Nul]

MCShifted == [c \in Code |-> IF c = KeyA THEN Space ELSE MCPlain[c]]
=============================================================================
