----------------------------- MODULE LineEditor -----------------------------
(***************************************************************************)
(* What a command line promises, without buffers: the keys that were typed *)
(* form a line, keys erase and recall, and Enter runs the command that the *)
(* first word of the line names.                                           *)
(***************************************************************************)
EXTENDS Naturals, Sequences

CONSTANTS Letters, BLANK, Commands, NONE

VARIABLES
    content,   \* the line so far
    history,   \* the last line that was entered
    skip,      \* keys still to be ignored
    ran        \* the command that the last Enter ran

Symbols == Letters \cup {BLANK}

EditorInit == content = <<>> /\ history = <<>> /\ skip = 0 /\ ran = NONE

\* The positions of the first word of a line.
WordOf(s) ==
    {i \in DOMAIN s :
       /\ s[i] # BLANK
       /\ \A j \in 1..i : s[j] = BLANK => \A k \in 1..j : s[k] = BLANK}

Names(s, cmd) ==
    LET word == WordOf(s)
    IN  \E first \in word :
          /\ word = first..(first + Len(cmd) - 1)
          /\ \A i \in DOMAIN cmd : s[first + i - 1] = cmd[i]

\* A line without its leading blanks.
Trimmed(s) ==
    LET blanks == {i \in DOMAIN s : \A j \in 1..i : s[j] = BLANK}
        n == IF blanks = {} THEN 0 ELSE CHOOSE i \in blanks : \A j \in blanks : j <= i
    IN  SubSeq(s, n + 1, Len(s))

Type ==
    /\ skip = 0
    /\ \E c \in Symbols : content' = Append(content, c)
    /\ UNCHANGED <<history, skip, ran>>
Ignore ==
    /\ skip > 0 /\ skip' = skip - 1
    /\ UNCHANGED <<content, history, ran>>
Erase ==
    /\ content # <<>> /\ content' = SubSeq(content, 1, Len(content) - 1)
    /\ UNCHANGED <<history, skip, ran>>
Recall ==
    /\ content' = history /\ skip' = 2
    /\ UNCHANGED <<history, ran>>
Enter ==
    /\ content' = <<>> /\ history' = Trimmed(content)
    /\ \/ \E cmd \in Commands : Names(content, cmd) /\ ran' = cmd
       \/ (\A cmd \in Commands : ~Names(content, cmd)) /\ ran' = NONE
    /\ UNCHANGED skip

EditorNext == Type \/ Ignore \/ Erase \/ Recall \/ Enter
EditorSpec == EditorInit /\ [][EditorNext]_<<content, history, skip, ran>>
=============================================================================
