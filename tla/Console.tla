------------------------------- MODULE Console -------------------------------
(***************************************************************************)
(* What the tasks of pico-os1 print: _write of kernel/syscalls.c, which    *)
(* sends a line character by character over the UART (sk_uart0_putc of     *)
(* kernel/uart.c) and puts a carriage return before a newline.  Nothing    *)
(* masks interrupts here, so that another task may print between any two   *)
(* characters.  printf gives _write one line at a time.                    *)
(***************************************************************************)
EXTENDS Sequences, SequencesExt

CONSTANT Writers    \* the tasks that print

VARIABLES
    wire,               \* who sent what, since the last newline
    write_prev_char,    \* the last character of any call of _write
    next_char,          \* per writer, how far its call of _write is
    returned            \* per writer, whether it has just sent "\r"

consoleVars == <<wire, write_prev_char, next_char, returned>>

(* A line of text; what it says does not matter. *)
Line == <<"text", "\n">>

Code(sent) == [i \in DOMAIN sent |-> sent[i][2]]

sk_uart0_putc(who, c) ==
    wire' = IF wire # <<>> /\ Last(wire)[2] = "\n" THEN << <<who, c>> >>
            ELSE Append(wire, <<who, c>>)

(* The two steps of the loop of _write. *)
Return(who) ==
    /\ Line[next_char[who]] = "\n"
    /\ ~returned[who]
    /\ write_prev_char # "\r"
    /\ sk_uart0_putc(who, "\r")
    /\ returned' = [returned EXCEPT ![who] = TRUE]
    /\ UNCHANGED <<write_prev_char, next_char>>

Character(who) ==
    LET c == Line[next_char[who]]
    IN  /\ c = "\n" => returned[who] \/ write_prev_char = "\r"
        /\ sk_uart0_putc(who, c)
        /\ write_prev_char' = c
        /\ next_char' = [next_char EXCEPT ![who] = (@ % Len(Line)) + 1]
        /\ returned' = [returned EXCEPT ![who] = FALSE]

(* The character that ends the call. *)
AtEnd(who) == Line[next_char[who]] = "\n"

ConsoleInit ==
    /\ wire = <<>>
    /\ write_prev_char = "none"
    /\ next_char = [w \in Writers |-> 1]
    /\ returned = [w \in Writers |-> FALSE]

-----------------------------------------------------------------------------
(* What is on the wire is the beginning of one writer's line, with a       *)
(* carriage return before its newline.                                     *)
WholeLine ==
    /\ \A i, j \in DOMAIN wire : wire[i][1] = wire[j][1]
    /\ IsPrefix(Code(wire), <<"text", "\r", "\n">>)
=============================================================================
