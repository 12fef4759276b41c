------------------------------ MODULE Terminal ------------------------------
(***************************************************************************)
(* The command terminal of the device (apps/examples/usbcdc): one task     *)
(* opens /dev/usb0, reads a key, edits its line buffer, runs a command on  *)
(* Enter and closes the device, for ever.  One turn of the loop in         *)
(* usb_terminal_process is one action: nothing else touches the buffers.   *)
(* What the terminal prints is not looked at.                              *)
(***************************************************************************)
EXTENDS Naturals, Sequences

CONSTANTS
    Letters, BLANK, NUL,   \* characters; NUL ends a string
    Commands,              \* names in the command table, after usbtask
    NONE,
    LineSize,              \* sizeof(usb_cmd_line) (128)
    NFILES,                \* descriptors that the task has free at the start
    LeadingBlanks,         \* lines may begin with a blank
    MaxNewlines            \* bound: line feeds that the host sends

ASSUME TerminalAssumption ==
    /\ BLANK \notin Letters /\ NUL \notin Letters /\ BLANK # NUL
    /\ Commands \subseteq Seq(Letters) \ {<<>>} /\ NONE \notin Commands
    /\ LineSize \in Nat \ {0} /\ NFILES \in Nat /\ MaxNewlines \in Nat
    /\ LeadingBlanks \in BOOLEAN

VARIABLES
    usb_cmd_line, usb_cmd_line_ndx,
    last_cmd_line,
    key_detected,    \* keys of an escape sequence still to discard
    ran,             \* the command that the last Enter ran
    overrun,         \* the code has left usb_cmd_line or last_cmd_line
    files,           \* descriptors in use
    linked,          \* /usb_queue can be opened
    newlines         \* line feeds received

editVars == <<usb_cmd_line, usb_cmd_line_ndx, last_cmd_line, key_detected, ran,
              overrun>>
fileVars == <<files, linked, newlines>>
vars == <<editVars, fileVars>>

Index == 0..(LineSize - 1)
Chars == Letters \cup {BLANK, NUL}

\* Every variable keeps its type.
TypeOK ==
    /\ usb_cmd_line \in [Index -> Chars] /\ usb_cmd_line_ndx \in 0..LineSize
    /\ last_cmd_line \in [Index -> Chars]
    /\ key_detected \in 0..2 /\ ran \in Commands \cup {NONE}
    /\ overrun \in BOOLEAN /\ linked \in BOOLEAN
    /\ files \in 0..NFILES /\ newlines \in 0..MaxNewlines

\* usb_terminal_init; the buffers are static and therefore zero.
Init ==
    /\ usb_cmd_line = [i \in Index |-> NUL] /\ usb_cmd_line_ndx = 0
    /\ last_cmd_line = [i \in Index |-> NUL]
    /\ key_detected = 0 /\ ran = NONE /\ overrun = FALSE
    /\ files = 0 /\ linked = TRUE /\ newlines = 0

-----------------------------------------------------------------------------
FirstOf(S) == IF S = {} THEN LineSize ELSE CHOOSE i \in S : \A j \in S : i <= j

\* LineSize stands for an end that the search does not find in the buffer.
usb_skipp_space(line, start) ==
    FirstOf({i \in Index : i >= start /\ line[i] # BLANK})
usb_find_word(line, start) ==
    FirstOf({i \in Index : i >= start /\ line[i] \in {BLANK, NUL}})

\* The string in a buffer from an offset on.
StringAt(line, start) ==
    LET end == FirstOf({i \in Index : i >= start /\ line[i] = NUL})
    IN  [i \in 1..(end - start) |-> line[start + i - 1]]

\* usb_find_command with usb_cmp_str, which compares for equality because no
\* name in the table is empty.
usb_find_command(name) == IF name \in Commands THEN name ELSE NONE

\* Defect: the line is not closed behind the last key.
EnterUnclosed ==
    LET start == usb_skipp_space(usb_cmd_line, 0)
        end   == usb_find_word(usb_cmd_line, start)
    IN  IF end = LineSize \/ usb_cmd_line_ndx = LineSize
        THEN overrun' = TRUE
             /\ UNCHANGED <<usb_cmd_line, usb_cmd_line_ndx, last_cmd_line, ran>>
        ELSE LET closed == [usb_cmd_line EXCEPT ![end] = NUL]
             IN  /\ last_cmd_line' = usb_cmd_line
                 /\ usb_cmd_line' = closed /\ usb_cmd_line_ndx' = 0
                 /\ ran' = usb_find_command(StringAt(closed, start))
                 /\ UNCHANGED overrun

\* Enter: copy the line for the up key, cut the first word, run it.  The
\* searches do not stop at usb_cmd_line_ndx but at what is in the buffer.
EnterLine ==
    LET start == usb_skipp_space(usb_cmd_line, 0)
        end   == usb_find_word(usb_cmd_line, start)
        ndx   == usb_cmd_line_ndx
    IN  IF end = LineSize \/ ndx = LineSize \/ start + ndx > LineSize
        THEN overrun' = TRUE
             /\ UNCHANGED <<usb_cmd_line, usb_cmd_line_ndx, last_cmd_line, ran>>
        ELSE LET closed == [usb_cmd_line EXCEPT ![end] = NUL, ![ndx] = NUL]
             IN  /\ last_cmd_line' = [i \in Index |->
                      IF i < ndx THEN usb_cmd_line[start + i]
                      ELSE IF i = ndx THEN NUL ELSE last_cmd_line[i]]
                 /\ usb_cmd_line' = closed /\ usb_cmd_line_ndx' = 0
                 /\ ran' = usb_find_command(StringAt(closed, start))
                 /\ UNCHANGED overrun

\* The up key, at its first character: the last line becomes the current one.
RecallLine ==
    LET last == StringAt(last_cmd_line, 0)
    IN  /\ usb_cmd_line' = [i \in Index |->
             IF i < Len(last) THEN last[i + 1]
             ELSE IF i = Len(last) THEN NUL ELSE usb_cmd_line[i]]
        /\ usb_cmd_line_ndx' = Len(last)
        /\ key_detected' = 2
        /\ UNCHANGED <<last_cmd_line, ran, overrun>>

\* Defect: the index is not tested.
EraseAlways(cleared) ==
    /\ usb_cmd_line_ndx' = usb_cmd_line_ndx - 1
    /\ usb_cmd_line' = [i \in Index |->
         IF i = usb_cmd_line_ndx \/ (cleared /\ i = usb_cmd_line_ndx - 1)
         THEN NUL ELSE usb_cmd_line[i]]
    /\ UNCHANGED <<last_cmd_line, key_detected, ran, overrun>>

\* '\b' and 0x7F.  The first leaves the erased character in the buffer.
EraseKey(cleared) ==
    /\ usb_cmd_line_ndx > 0
    /\ usb_cmd_line_ndx' = usb_cmd_line_ndx - 1
    /\ usb_cmd_line' = [i \in Index |->
         IF i = usb_cmd_line_ndx \/ (cleared /\ i = usb_cmd_line_ndx - 1)
         THEN NUL ELSE usb_cmd_line[i]]
    /\ overrun' = (usb_cmd_line_ndx = LineSize)
    /\ UNCHANGED <<last_cmd_line, key_detected, ran>>

\* Any other key: stored, unless it belongs to the up key.
\* (A NUL byte from the host would be stored as well and end the line early; it
\* is no key here.  Blanks at the beginning are keys with LeadingBlanks.)
StoreKey(c) ==
    \/ /\ key_detected > 0 /\ key_detected' = key_detected - 1
       /\ UNCHANGED <<usb_cmd_line, usb_cmd_line_ndx, last_cmd_line, ran, overrun>>
    \/ /\ key_detected = 0
       /\ (c = BLANK /\ usb_cmd_line_ndx = 0) => LeadingBlanks
       /\ IF usb_cmd_line_ndx = LineSize
          THEN overrun' = TRUE /\ UNCHANGED <<usb_cmd_line, usb_cmd_line_ndx>>
          ELSE /\ usb_cmd_line' = [usb_cmd_line EXCEPT ![usb_cmd_line_ndx] = c]
               /\ usb_cmd_line_ndx' = usb_cmd_line_ndx + 1
               /\ UNCHANGED overrun
       /\ UNCHANGED <<last_cmd_line, key_detected, ran>>

-----------------------------------------------------------------------------
\* A turn of the loop needs a descriptor for the device and, in cdc_read, one
\* for the queue.
Readable == files + 2 <= NFILES /\ linked /\ ~overrun

Enter == Readable /\ EnterLine /\ UNCHANGED <<key_detected, fileVars>>
UpKey == Readable /\ RecallLine /\ UNCHANGED fileVars
Erase(cleared) == Readable /\ EraseKey(cleared) /\ UNCHANGED fileVars
Key(c) == Readable /\ StoreKey(c) /\ UNCHANGED fileVars

\* Line feed: the loop continues without closing the device.
Newline ==
    /\ Readable /\ newlines < MaxNewlines
    /\ newlines' = newlines + 1 /\ files' = files + 1
    /\ UNCHANGED <<editVars, linked>>

\* cdc_read without a descriptor for the queue: mq_open unlinks the queue.
ReadFails ==
    /\ files + 1 = NFILES /\ linked /\ ~overrun
    /\ linked' = FALSE
    /\ UNCHANGED <<editVars, files, newlines>>

Next ==
    \/ Enter \/ UpKey \/ Newline \/ ReadFails
    \/ \E cleared \in BOOLEAN : Erase(cleared)
    \/ \E c \in Letters \cup {BLANK} : Key(c)

Spec == Init /\ [][Next]_vars

-----------------------------------------------------------------------------
\* The buffers implement a command line: whatever is left of earlier lines
\* behind the index, Enter runs the command that was typed and the up key
\* recalls the line that was entered.
Editor == INSTANCE LineEditor WITH
    content <- [i \in 1..usb_cmd_line_ndx |-> usb_cmd_line[i - 1]],
    history <- StringAt(last_cmd_line, 0),
    skip <- key_detected
IsLineEditor == Editor!EditorSpec

\* "Execute command if enter is received, or usb_cmd_line is full": the line
\* never leaves its buffer.
LineFits == ~overrun

\* The queue that carries the input exists as long as the terminal runs.
QueueReachable == linked
=============================================================================
