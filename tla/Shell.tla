-------------------------------- MODULE Shell -------------------------------
(***************************************************************************)
(* drivers/command/command.c: how a line becomes the call of a command.    *)
(* The line lies in a buffer, a function from 0 on, and ends at the first  *)
(* Nul in it; parse cuts it in two in place.  The commands themselves are  *)
(* in Vfs, File, Loader and System, and what they print is any output to   *)
(* Console.                                                                *)
(***************************************************************************)
EXTENDS Integers, Sequences

CONSTANTS
    Space, Nul,   \* ' ' and '\0'
    Slash,        \* '/'
    Commands,     \* the table: a sequence of names, functions and kinds
    NoArgs        \* the null pointer

\* What a command does without arguments: "plain" ones ignore them, "file"
\* ones print their usage instead, and cd goes to the root.
Kinds == {"plain", "file", "cd"}

\* The first place from i on whose character is one of a set.
FirstOf(buffer, i, chars) ==
    CHOOSE k \in DOMAIN buffer :
        /\ k >= i /\ buffer[k] \in chars
        /\ \A j \in i .. k - 1 : buffer[j] \notin chars

\* The string that starts at i.
String(buffer, i) ==
    LET n == FirstOf(buffer, i, {Nul}) - i IN [k \in 1 .. n |-> buffer[i + k - 1]]

\* Mutant: one space is taken to end before the arguments.
Args_OneSpace(buffer, i) ==
    IF buffer[i + 1] = Nul THEN NoArgs ELSE String(buffer, i + 1)

\* The arguments behind the space at i: they begin after all spaces.
Args(buffer, i) ==
    LET past == CHOOSE k \in DOMAIN buffer :
                   k > i /\ buffer[k] # Space /\ \A j \in i .. k - 1 : buffer[j] = Space
    IN  IF buffer[past] = Nul THEN NoArgs ELSE String(buffer, past)

\* The name, after parse has put a Nul behind it, and the arguments.
parse(buffer) ==
    LET i == FirstOf(buffer, 0, {Space, Nul}) IN
    IF buffer[i] = Space
       THEN [name |-> String([buffer EXCEPT ![i] = Nul], 0), args |-> Args(buffer, i)]
       ELSE [name |-> String(buffer, 0), args |-> NoArgs]

\* Mutant: a name that a command's name begins matches.
Matches_Prefix(k, name) ==
    /\ Len(Commands[k].name) <= Len(name)
    /\ SubSeq(name, 1, Len(Commands[k].name)) = Commands[k].name

\* strcmp
Matches(k, name) == Commands[k].name = name

\* What is called: nothing, no command, or the first of that name.
Nothing == [command |-> "nothing", args |-> NoArgs]

Call(k, args) ==
    LET fn == Commands[k].fn IN
    IF args # NoArgs \/ Commands[k].kind = "plain"
       THEN [command |-> fn, args |-> args]
    ELSE IF Commands[k].kind = "file"
       THEN [command |-> "usage", args |-> NoArgs]
    ELSE [command |-> fn, args |-> <<Slash>>]

handle_command(buffer) ==
    LET line == parse(buffer)
        found == {k \in DOMAIN Commands : Matches(k, line.name)} IN
    IF buffer[0] = Nul THEN Nothing
    ELSE IF found = {} THEN [command |-> "not found", args |-> NoArgs]
    ELSE Call(CHOOSE k \in found : \A j \in found : k <= j, line.args)
=============================================================================
