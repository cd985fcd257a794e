------------------------------- MODULE Shell --------------------------------
(***************************************************************************)
(* lib/shell.c on the functions of lib/string.c: get_line edits the array  *)
(* cmd in place, parse_command trims it, keeps a copy in prev_cmd and may  *)
(* ask for a file name, and shell() clears cmd for the next line.  An      *)
(* escape sequence is one key; sequences that mean nothing change nothing. *)
(* What the commands print, and the timer they start, is not in the model. *)
(***************************************************************************)
EXTENDS Integers, SequencesExt

CONSTANTS
    Char,           \* what can be typed, NUL excepted
    Blank,          \* the characters isspace accepts
    NUL,
    EXEC, CAT,      \* the texts of the commands that ask for a file name
    CMD_MAX_LEN,
    MaxTyped        \* bound on the characters typed

ASSUME ShellAssumption ==
    /\ Blank \subseteq Char /\ NUL \notin Char
    /\ EXEC # <<>> /\ CAT # <<>>
    /\ CMD_MAX_LEN \in Nat \ {0} /\ MaxTyped \in Nat

VARIABLES
    cmd, prev_cmd,
    idx, len,       \* get_line's cursor and length
    prompt,         \* who called get_line: shell, or parse_command for a file
    typed           \* number of characters typed so far

shellVars == <<cmd, prev_cmd, idx, len, prompt, typed>>

-----------------------------------------------------------------------------
(* lib/string.c                                                            *)

Cell == 0 .. (CMD_MAX_LEN - 1)
Cleared == [i \in Cell |-> NUL]

\* With no NUL in the array strlen runs past its end.
Terminated(s) == \E i \in Cell : s[i] = NUL

strlen(s) == Min({i \in Cell : s[i] = NUL})

\* strins moves the string and not its NUL: what follows must be NUL already.
strins(s, c, pos) ==
    [i \in Cell |-> IF i = pos THEN c
                    ELSE IF i \in (pos + 1) .. strlen(s) THEN s[i - 1] ELSE s[i]]

strdel(s, pos) ==
    [i \in Cell |-> IF i = strlen(s) - 1 THEN NUL
                    ELSE IF i \in pos .. (strlen(s) - 2) THEN s[i + 1] ELSE s[i]]

\* Only the string is moved: behind its new NUL the old characters remain.
trim(s) ==
    LET n == strlen(s)
        begin == Min({n} \cup {i \in 0 .. (n - 1) : s[i] \notin Blank})
        end == Max({begin - 1} \cup {i \in 0 .. (n - 1) : s[i] \notin Blank})
        size == end - begin + 1
    IN  IF n = 0 THEN s
        ELSE [i \in Cell |-> IF i < size THEN s[i + begin]
                             ELSE IF i = size THEN NUL ELSE s[i]]

String(s) == [i \in 1 .. strlen(s) |-> s[i - 1]]

-----------------------------------------------------------------------------
(* get_line, one action per key                                            *)

ShellInit ==
    /\ cmd = Cleared /\ prev_cmd = Cleared
    /\ idx = 0 /\ len = 0
    /\ prompt = "command"
    /\ typed = 0

Reading == prompt # "gone" /\ Terminated(cmd)

Insert(c) ==
    /\ Reading /\ typed < MaxTyped
    /\ len < CMD_MAX_LEN
    /\ cmd' = strins(cmd, c, idx)
    /\ idx' = idx + 1 /\ len' = len + 1
    /\ typed' = typed + 1
    /\ UNCHANGED <<prev_cmd, prompt>>

Backspace ==
    /\ Reading /\ idx # 0
    /\ cmd' = strdel(cmd, idx - 1)
    /\ idx' = idx - 1 /\ len' = len - 1
    /\ UNCHANGED <<prev_cmd, prompt, typed>>

Delete ==
    /\ Reading /\ idx # len
    /\ cmd' = strdel(cmd, idx)
    /\ len' = len - 1
    /\ UNCHANGED <<prev_cmd, idx, prompt, typed>>

\* Head, tail, arrow left and arrow right.
Move ==
    /\ Reading
    /\ \/ idx' = 0
       \/ idx' = len
       \/ idx > 0 /\ idx' = idx - 1
       \/ idx < len /\ idx' = idx + 1
    /\ UNCHANGED <<cmd, prev_cmd, len, prompt, typed>>

Recall(line, size) ==
    /\ Reading
    /\ cmd' = line
    /\ idx' = size /\ len' = size
    /\ UNCHANGED <<prev_cmd, prompt, typed>>

\* Mutant: the length is taken, the array not copied.
Up_nocopy == Recall(cmd, strlen(prev_cmd))

\* Mutant: the previous command is added to the line.
Up_append ==
    Recall([i \in Cell |-> IF i < len THEN cmd[i] ELSE prev_cmd[i - len]], len + strlen(prev_cmd))

\* The whole array is copied, with what lies behind the string.
Up == Recall(prev_cmd, strlen(prev_cmd))

CutTail ==
    /\ Reading
    /\ cmd' = [i \in Cell |-> IF i \in idx .. (len - 1) THEN NUL ELSE cmd[i]]
    /\ len' = idx
    /\ UNCHANGED <<prev_cmd, idx, prompt, typed>>

-----------------------------------------------------------------------------
(* Enter: get_line returns to shell or to parse_command                    *)

Line == [cmd EXCEPT ![len] = NUL]

\* cmd is cleared by shell() after the command, and by parse_command before
\* it reads a file name.
NewLine == cmd' = Cleared /\ idx' = 0 /\ len' = 0 /\ UNCHANGED typed

parse_command ==
    /\ Reading /\ prompt = "command" /\ len < CMD_MAX_LEN
    /\ NewLine
    /\ IF strlen(Line) = 0 THEN UNCHANGED <<prev_cmd, prompt>>
       ELSE LET trimmed == trim(Line) IN
            /\ prev_cmd' = trimmed
            /\ prompt' = CASE String(trimmed) = EXEC -> "exec"
                           [] String(trimmed) = CAT  -> "cat"
                           [] OTHER -> "command"

\* The file is looked up and printed or run; cpio_exec leaves the shell's
\* stack for ever if the file exists.
FileName ==
    /\ Reading /\ prompt \in {"exec", "cat"} /\ len < CMD_MAX_LEN
    /\ NewLine
    /\ \/ prompt' = "command"
       \/ prompt = "exec" /\ prompt' = "gone"
    /\ UNCHANGED prev_cmd

ShellNext ==
    \/ \E c \in Char : Insert(c)
    \/ Backspace \/ Delete \/ Move \/ Up \/ CutTail
    \/ parse_command \/ FileName

ShellSpec == ShellInit /\ [][ShellNext]_shellVars

-----------------------------------------------------------------------------
(* Properties.                                                             *)

\* get_line and parse_command on arrays do what an editor of texts does:
\* the first len characters of cmd are the text the user sees being edited,
\* whatever trim has left behind the strings that the arrow key brings back,
\* and the command that is run and recalled is the trimmed text.
Editor == INSTANCE LineEditor WITH
    text <- [i \in 1 .. len |-> cmd[i - 1]], cursor <- idx, last <- String(prev_cmd)

EditsText == Editor!Spec

\* Until CMD_MAX_LEN characters have been typed, both arrays end in a NUL:
\* what trim leaves behind a string is moved by later insertions, so that it
\* is not the length of the line that counts but all that was ever typed.
StaysTerminated == typed < CMD_MAX_LEN => Terminated(cmd) /\ Terminated(prev_cmd)

=============================================================================
