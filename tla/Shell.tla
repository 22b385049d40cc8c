-------------------------------- MODULE Shell --------------------------------
(***************************************************************************)
(* The shell's command line: sk_uart0_gets_s of kernel/uart.c fills an     *)
(* array of the shell character by character, process_command of           *)
(* application/shell.c takes it apart.  The array is never cleared, so     *)
(* that behind a line lies what is left of longer ones before it.          *)
(*                                                                         *)
(* The command echo is the letter "e"; every other word stands for a       *)
(* command that is not known.  ls, cat and lcd are in Fat and Lcd.         *)
(***************************************************************************)
EXTENDS Integers, Sequences, FiniteSetsExt

CONSTANTS
    Keys,       \* the characters that are typed, besides Enter
    LINE_LEN    \* size of the array: 32

VARIABLES
    line,       \* the array
    at,         \* how much of it sk_uart0_gets_s has filled
    typed,      \* history: the characters of this line
    said        \* what the last command printed

shellVars == <<line, at, typed, said>>

Enter == "\r"
Space == " "
NUL == "nul"
Unwritten == "unwritten"

(* The marks of the array are no keys; it has room for a character. *)
ASSUME ShellAssumption ==
    /\ Keys \cap {Enter, NUL, Unwritten} = {}
    /\ LINE_LEN \in Nat
    /\ LINE_LEN > 1

Silence == [of |-> "none", text |-> <<>>]

ShellInit ==
    /\ line = [i \in 0 .. LINE_LEN - 1 |-> Unwritten]
    /\ at = 0
    /\ typed = <<>>
    /\ said = Silence

(* Mutant of Ended: the end of a line is not marked. *)
EndedOpen(l, i) == l

Ended(l, i) == [l EXCEPT ![i] = NUL]

(* The line is complete with c: by Enter, or because the array is full.    *)
IsLast(c) == c = Enter \/ at + 1 = LINE_LEN - 1

sk_uart0_gets_s(c) ==
    /\ line' = IF c = Enter THEN Ended(line, at)
               ELSE IF IsLast(c) THEN Ended([line EXCEPT ![at] = c], at + 1)
               ELSE [line EXCEPT ![at] = c]
    /\ at' = IF IsLast(c) THEN 0 ELSE at + 1
    /\ typed' = IF c = Enter THEN typed ELSE Append(typed, c)
    /\ UNCHANGED said

(* The string that begins at an index. *)
String(l, from) ==
    LET end == Min({i \in from .. LINE_LEN - 1 : l[i] = NUL} \cup {LINE_LEN})
    IN  [k \in 1 .. end - from |-> l[from + k - 1]]

(* strtok cuts the line behind its first word.  A line without a word      *)
(* gives NULL, at which the comparisons find no command.                   *)
FirstOf(set) == IF set = {} THEN LINE_LEN ELSE Min(set)
strtok(l) ==
    LET word == FirstOf({i \in DOMAIN l : l[i] # Space})
        end == FirstOf({i \in DOMAIN l : i > word /\ l[i] \in {Space, NUL}})
    IN  IF word = LINE_LEN \/ end = LINE_LEN \/ l[word] = NUL THEN l
        ELSE [l EXCEPT ![end] = NUL]

(* The argument of echo is looked for at a fixed place. *)
process_command ==
    LET cmd == strtok(line)
    IN  /\ line' = cmd
        /\ said' = IF String(cmd, 0) = <<"e">>
                   THEN [of |-> "echo", text |-> String(cmd, 2)]
                   ELSE [of |-> "unknown", text |-> String(cmd, 0)]
        /\ UNCHANGED <<at, typed>>

(* run_shell: a new line begins. *)
Prompt ==
    /\ typed' = <<>>
    /\ said' = Silence
    /\ UNCHANGED <<line, at>>

-----------------------------------------------------------------------------
(* echo prints what was typed behind it and nothing of an earlier line,    *)
(* also when the line was cut because the array was full.  (Without an     *)
(* argument it does print what an earlier line left in the array.)         *)
EchoShowsArgument ==
    (said # Silence /\ Len(typed) >= 2 /\ SubSeq(typed, 1, 2) = <<"e", Space>>)
        => said = [of |-> "echo", text |-> SubSeq(typed, 3, Len(typed))]
=============================================================================
