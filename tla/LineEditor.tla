----------------------------- MODULE LineEditor -----------------------------
(***************************************************************************)
(* What the shell's line editor promises to its user: a text with a        *)
(* cursor, the usual keys, the last command at the press of a key, a       *)
(* prompt for commands and one for the file that exec and cat ask for.     *)
(***************************************************************************)
EXTENDS Naturals, SequencesExt

CONSTANTS Char, Blank, EXEC, CAT    \* EXEC and CAT: the texts of two commands

VARIABLES text, cursor, last, prompt

\* The text without the blanks at its ends.
Trimmed ==
    LET kept == {i \in DOMAIN text : text[i] \notin Blank}
    IN  IF kept = {} THEN <<>> ELSE SubSeq(text, Min(kept), Max(kept))

Init == text = <<>> /\ cursor = 0 /\ last = <<>> /\ prompt = "command"

Insert ==
    /\ \E c \in Char : text' = InsertAt(text, cursor + 1, c)
    /\ cursor' = cursor + 1
    /\ UNCHANGED <<last, prompt>>

\* Backspace in front of the cursor, or delete behind it.
Remove1 ==
    /\ cursor' \in {cursor - 1, cursor} \cap Nat
    /\ cursor' < Len(text)
    /\ text' = RemoveAt(text, cursor' + 1)
    /\ UNCHANGED <<last, prompt>>

Move == cursor' \in 0 .. Len(text) /\ UNCHANGED <<text, last, prompt>>

Cut == text' = SubSeq(text, 1, cursor) /\ UNCHANGED <<cursor, last, prompt>>

Recall == text' = last /\ cursor' = Len(last) /\ UNCHANGED <<last, prompt>>

Enter ==
    /\ text' = <<>> /\ cursor' = 0
    /\ \/ /\ prompt = "command"
          /\ last' = IF text = <<>> THEN last ELSE Trimmed
          /\ prompt' = CASE Trimmed = EXEC -> "exec" [] Trimmed = CAT -> "cat" [] OTHER -> "command"
       \/ /\ prompt \in {"exec", "cat"}
          /\ prompt' \in {"command"} \cup (IF prompt = "exec" THEN {"gone"} ELSE {})
          /\ UNCHANGED last

Next == prompt # "gone" /\ (Insert \/ Remove1 \/ Move \/ Cut \/ Recall \/ Enter)

Spec == Init /\ [][Next]_<<text, cursor, last, prompt>>

=============================================================================
