--------------------------- MODULE TerminalProofs ---------------------------
(***************************************************************************)
(* Theorems about Terminal, for any letters, commands and size of a line.  *)
(***************************************************************************)
EXTENDS Terminal, SequenceTheorems, WellFoundedInduction, TLAPS

(***************************************************************************)
(* A search stops at the first place of a set, or at the end of the        *)
(* buffer when there is none.                                              *)
(***************************************************************************)
LEMMA FirstPlace ==
  ASSUME NEW T \in SUBSET Index
  PROVE  /\ FirstOf(T) \in 0 .. LineSize
         /\ T = {} => FirstOf(T) = LineSize
         /\ T # {} => FirstOf(T) \in T
         /\ \A j \in T : FirstOf(T) <= j
<1>0. LineSize \in Nat /\ T \in SUBSET Nat
  BY TerminalAssumption DEF Index
<1>1. CASE T = {}
  BY <1>0, <1>1 DEF FirstOf
<1>2. CASE T # {}
  <2>1. PICK x \in T : \A y \in T : ~ (<<y, x>> \in OpToRel(<, Nat))
    BY <1>0, <1>2, WFMin, NatLessThanWellFounded
  <2>2. ASSUME NEW y \in T PROVE x <= y
    <3>1. x \in Nat /\ y \in Nat
      BY <1>0
    <3>2. ~(y < x)
      BY <2>1, <3>1 DEF OpToRel
    <3> QED BY <3>1, <3>2
  <2>3. FirstOf(T) \in T /\ \A j \in T : FirstOf(T) <= j
    BY <1>2, <2>2 DEF FirstOf
  <2>4. FirstOf(T) \in Index
    BY <2>3
  <2>5. FirstOf(T) \in 0 .. LineSize
    BY <1>0, <2>4 DEF Index
  <2> QED BY <1>2, <2>3, <2>5
<1> QED BY <1>1, <1>2

(***************************************************************************)
(* What a search for some characters from the start of a buffer finds.     *)
(***************************************************************************)
LEMMA FirstCharacter ==
  ASSUME NEW line, NEW C, NEW T, T = {i \in Index : i >= 0 /\ line[i] \in C}
  PROVE  /\ FirstOf(T) \in 0 .. LineSize
         /\ FirstOf(T) \in Index => line[FirstOf(T)] \in C
         /\ \A j \in Index : j < FirstOf(T) => line[j] \notin C
<1>0. LineSize \in Nat /\ T \in SUBSET Index
  BY TerminalAssumption
<1>1. /\ FirstOf(T) \in 0 .. LineSize /\ (T = {} => FirstOf(T) = LineSize)
      /\ (T # {} => FirstOf(T) \in T) /\ \A j \in T : FirstOf(T) <= j
  BY <1>0, FirstPlace
<1>2. FirstOf(T) \in Index => FirstOf(T) \in T
  BY <1>0, <1>1 DEF Index
<1>3. ASSUME NEW j \in Index, j < FirstOf(T) PROVE line[j] \notin C
  <2>1. j \in Nat
    BY <1>0 DEF Index
  <2>2. j \notin T
    BY <1>0, <1>1, <1>3, <2>1
  <2> QED BY <2>1, <2>2
<1> QED BY <1>1, <1>2, <1>3

(***************************************************************************)
(* The string at the start of a buffer ends before its first NUL.          *)
(***************************************************************************)
LEMMA StringType ==
  ASSUME NEW line \in [Index -> Chars]
  PROVE  /\ StringAt(line, 0) \in Seq(Chars) /\ Len(StringAt(line, 0)) \in 0 .. LineSize
         /\ \A i \in 1 .. Len(StringAt(line, 0)) :
              StringAt(line, 0)[i] = line[i - 1] /\ line[i - 1] # NUL
<1> DEFINE T == {i \in Index : i >= 0 /\ line[i] = NUL}
           end == FirstOf(T)
<1>0. LineSize \in Nat
  BY TerminalAssumption
<1>1. T = {i \in Index : i >= 0 /\ line[i] \in {NUL}}
  OBVIOUS
<1>2. end \in 0 .. LineSize /\ \A j \in Index : j < end => line[j] \notin {NUL}
  BY <1>1, FirstCharacter
<1>3. StringAt(line, 0) = [i \in 1 .. end - 0 |-> line[0 + i - 1]]
  BY DEF StringAt
<1> HIDE DEF end
<1>4. StringAt(line, 0) = [i \in 1 .. end |-> line[i - 1]]
  BY <1>0, <1>2, <1>3
<1>5. \A i \in 1 .. end : i - 1 \in Index /\ i - 1 < end
  BY <1>0, <1>2 DEF Index
<1>6. \A i \in 1 .. end : line[i - 1] \in Chars
  BY <1>5
<1>7. end \in Nat
  BY <1>0, <1>2
<1>8. StringAt(line, 0) \in Seq(Chars) /\ Len(StringAt(line, 0)) = end
  BY <1>4, <1>6, <1>7, IsASeq
<1> QED BY <1>2, <1>4, <1>5, <1>8

(***************************************************************************)
(* The same, when the place of that NUL is known.                          *)
(***************************************************************************)
LEMMA StringUpTo ==
  ASSUME NEW line, NEW n \in Index, line[n] = NUL,
         \A i \in Index : i < n => line[i] # NUL
  PROVE  StringAt(line, 0) = [i \in 1 .. n |-> line[i - 1]]
<1> DEFINE T == {i \in Index : i >= 0 /\ line[i] = NUL}
           end == FirstOf(T)
<1>0. LineSize \in Nat /\ n \in Nat
  BY TerminalAssumption DEF Index
<1>1. n \in T /\ T \in SUBSET Index
  BY <1>0
<1>2. end \in T /\ end <= n
  BY <1>1, FirstPlace
<1>3. end = n
  <2>1. end \in Index /\ end \in Nat /\ line[end] = NUL
    BY <1>0, <1>2 DEF Index
  <2>2. ~(end < n)
    BY <2>1
  <2> HIDE DEF end
  <2> QED BY <1>0, <1>2, <2>1, <2>2
<1>4. StringAt(line, 0) = [i \in 1 .. end - 0 |-> line[0 + i - 1]]
  BY DEF StringAt
<1> HIDE DEF end
<1> QED BY <1>0, <1>3, <1>4

-----------------------------------------------------------------------------
(***************************************************************************)
(* Where Enter finds the first word of the line.                           *)
(***************************************************************************)
LEMMA WordPlaces ==
  ASSUME NEW line
  PROVE  /\ usb_skipp_space(line, 0) \in 0 .. LineSize
         /\ \A n \in Nat : usb_find_word(line, n) \in 0 .. LineSize
<1>1. usb_skipp_space(line, 0) \in 0 .. LineSize
  BY FirstPlace DEF usb_skipp_space
<1>2. \A n \in Nat : usb_find_word(line, n) \in 0 .. LineSize
  BY FirstPlace DEF usb_find_word
<1> QED BY <1>1, <1>2

(***************************************************************************)
(* The types of what the keys change.                                      *)
(***************************************************************************)
EditType ==
    /\ usb_cmd_line \in [Index -> Chars] /\ usb_cmd_line_ndx \in 0 .. LineSize
    /\ last_cmd_line \in [Index -> Chars]
    /\ key_detected \in 0 .. 2 /\ ran \in Commands \cup {NONE}
    /\ overrun \in BOOLEAN

(***************************************************************************)
(* Enter keeps them: what it copies lies within the line.                  *)
(***************************************************************************)
LEMMA EnterType ==
  ASSUME TypeOK, EnterLine, UNCHANGED key_detected
  PROVE  EditType'
<1> DEFINE start == usb_skipp_space(usb_cmd_line, 0)
           end   == usb_find_word(usb_cmd_line, start)
           ndx   == usb_cmd_line_ndx
           closed == [usb_cmd_line EXCEPT ![end] = NUL, ![ndx] = NUL]
<1>0. /\ usb_cmd_line \in [Index -> Chars] /\ ndx \in 0 .. LineSize
      /\ last_cmd_line \in [Index -> Chars] /\ key_detected' \in 0 .. 2
      /\ ran \in Commands \cup {NONE} /\ overrun \in BOOLEAN
      /\ LineSize \in Nat /\ NUL \in Chars
  BY TerminalAssumption DEF TypeOK, Chars
<1>1. start \in 0 .. LineSize
  BY WordPlaces
<1>2. CASE end = LineSize \/ ndx = LineSize \/ start + ndx > LineSize
  <2>1. overrun' = TRUE /\ UNCHANGED <<usb_cmd_line, usb_cmd_line_ndx, last_cmd_line, ran>>
    BY <1>2 DEF EnterLine
  <2> QED BY <1>0, <2>1 DEF EditType
<1>3. CASE ~(end = LineSize \/ ndx = LineSize \/ start + ndx > LineSize)
  <2>1. /\ last_cmd_line' = [i \in Index |->
                 IF i < ndx THEN usb_cmd_line[start + i]
                 ELSE IF i = ndx THEN NUL ELSE last_cmd_line[i]]
        /\ usb_cmd_line' = closed /\ usb_cmd_line_ndx' = 0
        /\ ran' = usb_find_command(StringAt(closed, start)) /\ overrun' = overrun
    BY <1>3 DEF EnterLine
  <2>2. \A i \in Index : i < ndx => start + i \in Index
    <3> HIDE DEF start
    <3> QED BY <1>0, <1>1, <1>3 DEF Index
  <2>3. last_cmd_line' \in [Index -> Chars]
    <3> HIDE DEF start, ndx
    <3> QED BY <1>0, <2>1, <2>2
  <2>4. usb_cmd_line' \in [Index -> Chars]
    <3> HIDE DEF end, ndx
    <3> QED BY <1>0, <2>1
  <2>5. ran' \in Commands \cup {NONE}
    BY <2>1 DEF usb_find_command
  <2>6. usb_cmd_line_ndx' \in 0 .. LineSize /\ overrun' \in BOOLEAN
    BY <1>0, <2>1
  <2> QED BY <1>0, <2>3, <2>4, <2>5, <2>6 DEF EditType
<1> QED BY <1>2, <1>3

(***************************************************************************)
(* So does the up key, since a string in the buffer is no longer than it.  *)
(***************************************************************************)
LEMMA RecallType ==
  ASSUME TypeOK, RecallLine
  PROVE  EditType'
<1> DEFINE last == StringAt(last_cmd_line, 0)
<1>0. /\ usb_cmd_line \in [Index -> Chars] /\ last_cmd_line \in [Index -> Chars]
      /\ ran \in Commands \cup {NONE} /\ overrun \in BOOLEAN
      /\ LineSize \in Nat /\ NUL \in Chars
  BY TerminalAssumption DEF TypeOK, Chars
<1>1. last \in Seq(Chars) /\ Len(last) \in 0 .. LineSize
  BY <1>0, StringType
<1>2. /\ usb_cmd_line' = [i \in Index |->
             IF i < Len(last) THEN last[i + 1]
             ELSE IF i = Len(last) THEN NUL ELSE usb_cmd_line[i]]
      /\ usb_cmd_line_ndx' = Len(last) /\ key_detected' = 2
      /\ UNCHANGED <<last_cmd_line, ran, overrun>>
  BY DEF RecallLine
<1> HIDE DEF last
<1>3. \A i \in Index : i < Len(last) => last[i + 1] \in Chars
  <2> SUFFICES ASSUME NEW i \in Index, i < Len(last) PROVE last[i + 1] \in Chars
    OBVIOUS
  <2>1. i + 1 \in 1 .. Len(last)
    BY <1>0, <1>1 DEF Index
  <2> QED BY <1>1, <2>1, ElementOfSeq
<1>4. usb_cmd_line' \in [Index -> Chars]
  BY <1>0, <1>2, <1>3
<1> QED BY <1>0, <1>1, <1>2, <1>4 DEF EditType

(***************************************************************************)
(* So do the two keys that erase.                                          *)
(***************************************************************************)
LEMMA EraseType ==
  ASSUME TypeOK, NEW cleared \in BOOLEAN, EraseKey(cleared)
  PROVE  EditType'
<1>0. /\ usb_cmd_line \in [Index -> Chars] /\ usb_cmd_line_ndx \in 0 .. LineSize
      /\ last_cmd_line \in [Index -> Chars] /\ key_detected \in 0 .. 2
      /\ ran \in Commands \cup {NONE} /\ LineSize \in Nat /\ NUL \in Chars
  BY TerminalAssumption DEF TypeOK, Chars
<1>1. /\ usb_cmd_line_ndx > 0 /\ usb_cmd_line_ndx' = usb_cmd_line_ndx - 1
      /\ usb_cmd_line' = [i \in Index |->
           IF i = usb_cmd_line_ndx \/ (cleared /\ i = usb_cmd_line_ndx - 1)
           THEN NUL ELSE usb_cmd_line[i]]
      /\ overrun' = (usb_cmd_line_ndx = LineSize)
      /\ UNCHANGED <<last_cmd_line, key_detected, ran>>
  BY DEF EraseKey
<1>2. usb_cmd_line' \in [Index -> Chars]
  BY <1>0, <1>1
<1>3. usb_cmd_line_ndx' \in 0 .. LineSize
  BY <1>0, <1>1
<1>4. overrun' \in BOOLEAN
  BY <1>1
<1> QED BY <1>0, <1>1, <1>2, <1>3, <1>4 DEF EditType

(***************************************************************************)
(* And every other key.                                                    *)
(***************************************************************************)
LEMMA StoreType ==
  ASSUME TypeOK, NEW c \in Letters \cup {BLANK}, StoreKey(c)
  PROVE  EditType'
<1>0. /\ usb_cmd_line \in [Index -> Chars] /\ usb_cmd_line_ndx \in 0 .. LineSize
      /\ last_cmd_line \in [Index -> Chars] /\ key_detected \in 0 .. 2
      /\ ran \in Commands \cup {NONE} /\ overrun \in BOOLEAN
      /\ LineSize \in Nat /\ c \in Chars
  BY TerminalAssumption DEF TypeOK, Chars
<1>1. CASE key_detected > 0
  <2>1. /\ key_detected' = key_detected - 1
        /\ UNCHANGED <<usb_cmd_line, usb_cmd_line_ndx, last_cmd_line, ran, overrun>>
    BY <1>0, <1>1 DEF StoreKey
  <2>2. key_detected' \in 0 .. 2
    BY <1>0, <1>1, <2>1
  <2> QED BY <1>0, <2>1, <2>2 DEF EditType
<1>2. CASE ~(key_detected > 0)
  <2>1. UNCHANGED <<last_cmd_line, key_detected, ran>>
    BY <1>0, <1>2 DEF StoreKey
  <2>2. CASE usb_cmd_line_ndx = LineSize
    <3>1. overrun' = TRUE /\ UNCHANGED <<usb_cmd_line, usb_cmd_line_ndx>>
      BY <1>0, <1>2, <2>2 DEF StoreKey
    <3> QED BY <1>0, <2>1, <3>1 DEF EditType
  <2>3. CASE usb_cmd_line_ndx # LineSize
    <3>1. /\ usb_cmd_line' = [usb_cmd_line EXCEPT ![usb_cmd_line_ndx] = c]
          /\ usb_cmd_line_ndx' = usb_cmd_line_ndx + 1 /\ overrun' = overrun
      BY <1>0, <1>2, <2>3 DEF StoreKey
    <3>2. usb_cmd_line_ndx' \in 0 .. LineSize
      BY <1>0, <2>3, <3>1
    <3>3. usb_cmd_line' \in [Index -> Chars]
      BY <1>0, <3>1
    <3> QED BY <1>0, <2>1, <3>1, <3>2, <3>3 DEF EditType
  <2> QED BY <2>2, <2>3
<1> QED BY <1>1, <1>2

(***************************************************************************)
(* No key leads the terminal's indices out of their ranges: the index of   *)
(* the line never passes the buffer or falls below its start, a recalled   *)
(* line fits, and the descriptors in use never exceed those there are.     *)
(***************************************************************************)
THEOREM TerminalTypes == Spec => []TypeOK
<1>1. ASSUME Init PROVE TypeOK
  <2>1. /\ usb_cmd_line \in [Index -> Chars] /\ last_cmd_line \in [Index -> Chars]
        /\ usb_cmd_line_ndx \in 0 .. LineSize /\ key_detected \in 0 .. 2
        /\ ran \in Commands \cup {NONE} /\ files \in 0 .. NFILES /\ newlines \in 0 .. MaxNewlines
    BY <1>1, TerminalAssumption DEF Init, Chars
  <2>2. overrun \in BOOLEAN /\ linked \in BOOLEAN
    BY <1>1 DEF Init
  <2> QED BY <2>1, <2>2 DEF TypeOK
<1>2. ASSUME TypeOK, [Next]_vars PROVE TypeOK'
  <2>0. /\ files \in 0 .. NFILES /\ newlines \in 0 .. MaxNewlines /\ linked \in BOOLEAN
        /\ NFILES \in Nat /\ MaxNewlines \in Nat
    BY <1>2, TerminalAssumption DEF TypeOK
  <2>1. ASSUME EditType', UNCHANGED fileVars PROVE TypeOK'
    BY <2>0, <2>1 DEF EditType, TypeOK, fileVars
  <2>2. CASE Enter
    BY <1>2, <2>1, <2>2, EnterType DEF Enter
  <2>3. CASE UpKey
    BY <1>2, <2>1, <2>3, RecallType DEF UpKey
  <2>4. ASSUME NEW cleared \in BOOLEAN, Erase(cleared) PROVE TypeOK'
    BY <1>2, <2>1, <2>4, EraseType DEF Erase
  <2>5. ASSUME NEW c \in Letters \cup {BLANK}, Key(c) PROVE TypeOK'
    BY <1>2, <2>1, <2>5, StoreType DEF Key
  <2>6. CASE Newline
    <3>1. /\ newlines' = newlines + 1 /\ files' = files + 1 /\ linked' = linked
          /\ newlines < MaxNewlines /\ files + 2 <= NFILES /\ UNCHANGED editVars
      BY <2>6 DEF Newline, Readable
    <3>2. newlines' \in 0 .. MaxNewlines /\ files' \in 0 .. NFILES
      BY <2>0, <3>1
    <3> QED BY <1>2, <3>1, <3>2 DEF TypeOK, editVars
  <2>7. CASE ReadFails
    BY <1>2, <2>7 DEF ReadFails, TypeOK, editVars
  <2>8. CASE UNCHANGED vars
    BY <1>2, <2>8 DEF TypeOK, vars, editVars, fileVars
  <2> QED BY <1>2, <2>2, <2>3, <2>4, <2>5, <2>6, <2>7, <2>8 DEF Next
<1> QED BY <1>1, <1>2, PTL DEF Spec

-----------------------------------------------------------------------------
(***************************************************************************)
(* The line and the history as sequences.                                  *)
(***************************************************************************)
Content == [i \in 1 .. usb_cmd_line_ndx |-> usb_cmd_line[i - 1]]
History == StringAt(last_cmd_line, 0)

(***************************************************************************)
(* What makes the buffers a line: neither begins with a blank, and up to   *)
(* the index there is no NUL of an earlier line.                           *)
(***************************************************************************)
LineInv ==
    /\ TypeOK
    /\ usb_cmd_line[0] # BLANK /\ last_cmd_line[0] # BLANK
    /\ \A i \in Index : i < usb_cmd_line_ndx => usb_cmd_line[i] # NUL

(***************************************************************************)
(* The content of a buffer is a sequence.                                  *)
(***************************************************************************)
LEMMA ContentType ==
  ASSUME TypeOK
  PROVE  /\ Content \in Seq(Chars) /\ Len(Content) = usb_cmd_line_ndx
         /\ \A i \in 1 .. usb_cmd_line_ndx : i - 1 \in Index /\ Content[i] = usb_cmd_line[i - 1]
<1>0. /\ usb_cmd_line \in [Index -> Chars] /\ usb_cmd_line_ndx \in 0 .. LineSize
      /\ LineSize \in Nat /\ usb_cmd_line_ndx \in Nat
  BY TerminalAssumption DEF TypeOK
<1>1. \A i \in 1 .. usb_cmd_line_ndx : i - 1 \in Index
  BY <1>0 DEF Index
<1>2. \A i \in 1 .. usb_cmd_line_ndx : usb_cmd_line[i - 1] \in Chars
  BY <1>0, <1>1
<1>3. Content \in Seq(Chars) /\ Len(Content) = usb_cmd_line_ndx
  BY <1>0, <1>2, IsASeq DEF Content
<1> QED BY <1>1, <1>3 DEF Content

(***************************************************************************)
(* In a line that does not begin with a blank, the first word ends at the  *)
(* first blank or at the end of the line.                                  *)
(***************************************************************************)
FirstWord(s, e) ==
    /\ e \in 0 .. Len(s) /\ \A i \in 1 .. e : s[i] # BLANK
    /\ e < Len(s) => e >= 1 /\ s[e + 1] = BLANK

LEMMA WordIsPrefix ==
  ASSUME NEW s \in Seq(Chars), NEW e, FirstWord(s, e)
  PROVE  Editor!WordOf(s) = 1 .. e
<1>0. Len(s) \in Nat /\ e \in Nat /\ e <= Len(s) /\ DOMAIN s = 1 .. Len(s)
  BY LenProperties DEF FirstWord
<1>1. ASSUME NEW i \in 1 .. e PROVE i \in Editor!WordOf(s)
  <2>1. i \in DOMAIN s /\ s[i] # BLANK
    BY <1>0 DEF FirstWord
  <2>2. \A j \in 1 .. i : s[j] # BLANK
    BY <1>0 DEF FirstWord
  <2> QED BY <2>1, <2>2 DEF Editor!WordOf
<1>2. ASSUME NEW i \in Editor!WordOf(s) PROVE i \in 1 .. e
  <2>1. /\ i \in DOMAIN s /\ i \in 1 .. Len(s)
        /\ \A j \in 1 .. i : s[j] = BLANK => \A k \in 1 .. j : s[k] = BLANK
    BY <1>0 DEF Editor!WordOf
  <2>2. CASE i <= e
    BY <1>0, <2>1, <2>2
  <2>3. CASE i > e
    <3>1. e >= 1 /\ s[e + 1] = BLANK /\ s[1] # BLANK
      BY <1>0, <2>1, <2>3 DEF FirstWord
    <3>2. e + 1 \in 1 .. i /\ 1 \in 1 .. e + 1
      BY <1>0, <2>1, <2>3
    <3> QED BY <2>1, <3>1, <3>2
  <2> QED BY <1>0, <2>1, <2>2, <2>3
<1> QED BY <1>1, <1>2

(***************************************************************************)
(* A command is named by such a line exactly if it is the first word.      *)
(***************************************************************************)
LEMMA NamesFirstWord ==
  ASSUME NEW s \in Seq(Chars), NEW e, FirstWord(s, e), NEW cmd \in Commands
  PROVE  Editor!Names(s, cmd) <=> cmd = [i \in 1 .. e |-> s[i]]
<1> DEFINE name == [i \in 1 .. e |-> s[i]]
<1>0. Len(s) \in Nat /\ e \in Nat /\ e <= Len(s) /\ DOMAIN s = 1 .. Len(s)
  BY LenProperties DEF FirstWord
<1>1. /\ cmd \in Seq(Letters) /\ cmd # << >> /\ Len(cmd) \in Nat /\ Len(cmd) >= 1
      /\ DOMAIN cmd = 1 .. Len(cmd) /\ cmd \in Seq(Chars)
  <2>1. cmd \in Seq(Letters) /\ cmd # << >>
    BY TerminalAssumption
  <2>2. Len(cmd) \in Nat /\ DOMAIN cmd = 1 .. Len(cmd)
    BY <2>1, LenProperties
  <2>3. Len(cmd) # 0
    BY <2>1, EmptySeq
  <2>4. cmd \in Seq(Chars)
    <3>1. \A i \in 1 .. Len(cmd) : cmd[i] \in Chars
      BY <2>1, ElementOfSeq DEF Chars
    <3>2. cmd = [i \in 1 .. Len(cmd) |-> cmd[i]]
      BY <2>1, <2>2
    <3> QED BY <2>2, <3>1, <3>2, IsASeq
  <2> QED BY <2>1, <2>2, <2>3, <2>4
<1>2. name \in Seq(Chars) /\ Len(name) = e /\ \A i \in 1 .. e : name[i] = s[i]
  <2>1. \A i \in 1 .. e : s[i] \in Chars
    BY <1>0, ElementOfSeq
  <2> QED BY <1>0, <2>1, IsASeq
<1>3. Editor!WordOf(s) = 1 .. e
  BY WordIsPrefix
<1> HIDE DEF name
<1>4. ASSUME Editor!Names(s, cmd) PROVE cmd = name
  <2>1. PICK first \in 1 .. e : /\ 1 .. e = first .. first + Len(cmd) - 1
                                /\ \A i \in DOMAIN cmd : s[first + i - 1] = cmd[i]
    BY <1>3, <1>4 DEF Editor!Names
  <2>2. first = 1
    <3>1. 1 \in first .. first + Len(cmd) - 1 /\ first \in Nat
      BY <1>0, <2>1
    <3> QED BY <1>0, <2>1, <3>1
  <2>3. 1 .. e = 1 .. Len(cmd)
    BY <1>1, <2>1, <2>2
  <2>4. Len(cmd) = e
    <3>1. e \in 1 .. e /\ Len(cmd) \in 1 .. Len(cmd)
      BY <1>0, <1>1, <2>1
    <3>2. e \in 1 .. Len(cmd) /\ Len(cmd) \in 1 .. e
      BY <2>3, <3>1
    <3>3. \A a, b \in Nat : a \in 1 .. b /\ b \in 1 .. a => a = b
      OBVIOUS
    <3> QED BY <1>0, <1>1, <3>2, <3>3
  <2>5. \A i \in 1 .. e : cmd[i] = name[i]
    <3> SUFFICES ASSUME NEW i \in 1 .. e PROVE cmd[i] = name[i]
      OBVIOUS
    <3>1. i \in DOMAIN cmd /\ first + i - 1 = i
      BY <1>0, <1>1, <2>2, <2>4
    <3>2. s[first + i - 1] = cmd[i]
      BY <2>1, <3>1
    <3> QED BY <1>2, <3>1, <3>2
  <2> QED BY <1>1, <1>2, <2>4, <2>5, SeqEqual
<1>5. ASSUME cmd = name PROVE Editor!Names(s, cmd)
  <2>1. Len(cmd) = e /\ e >= 1
    BY <1>1, <1>2, <1>5
  <2>2. ASSUME NEW i \in DOMAIN cmd PROVE s[1 + i - 1] = cmd[i]
    <3>1. i \in 1 .. e /\ 1 + i - 1 = i
      BY <1>0, <1>1, <2>1
    <3>2. cmd[i] = s[i]
      BY <1>2, <1>5, <3>1
    <3> QED BY <3>1, <3>2
  <2>3. 1 \in Editor!WordOf(s) /\ Editor!WordOf(s) = 1 .. 1 + Len(cmd) - 1
    BY <1>0, <1>3, <2>1
  <2> QED BY <2>2, <2>3 DEF Editor!Names
<1> QED BY <1>4, <1>5 DEF name

(***************************************************************************)
(* A line that does not begin with a blank is trimmed.                     *)
(***************************************************************************)
LEMMA TrimmedSame ==
  ASSUME NEW s \in Seq(Chars), Len(s) >= 1 => s[1] # BLANK
  PROVE  Editor!Trimmed(s) = s
<1> DEFINE blanks == {i \in DOMAIN s : \A j \in 1 .. i : s[j] = BLANK}
<1>0. Len(s) \in Nat /\ DOMAIN s = 1 .. Len(s)
  BY LenProperties
<1>1. blanks = {}
  <2>1. ASSUME NEW i \in DOMAIN s, \A j \in 1 .. i : s[j] = BLANK PROVE FALSE
    <3>1. i >= 1 /\ Len(s) >= 1 /\ 1 \in 1 .. i
      BY <1>0
    <3> QED BY <2>1, <3>1
  <2> QED BY <2>1
<1>2. Editor!Trimmed(s) = SubSeq(s, 0 + 1, Len(s))
  BY <1>1 DEF Editor!Trimmed
<1>3. SubSeq(s, 1, Len(s)) = s
  <2>1. SubSeq(s, 1, Len(s)) = [i \in 1 .. Len(s) - 1 + 1 |-> s[i + 1 - 1]]
    BY <1>0, SubSeqProperties
  <2> QED BY <1>0, <2>1
<1> QED BY <1>2, <1>3

-----------------------------------------------------------------------------
(***************************************************************************)
(* Where the first word of the line ends, for Enter.                       *)
(***************************************************************************)
LEMMA WordInBuffer ==
  ASSUME LineInv, NEW end, end = usb_find_word(usb_cmd_line, 0),
         NEW e, e = IF end < usb_cmd_line_ndx THEN end ELSE usb_cmd_line_ndx
  PROVE  /\ usb_skipp_space(usb_cmd_line, 0) = 0 /\ end \in 0 .. LineSize
         /\ FirstWord(Content, e)
<1> DEFINE ndx == usb_cmd_line_ndx
           S == {i \in Index : i >= 0 /\ usb_cmd_line[i] # BLANK}
           W == {i \in Index : i >= 0 /\ usb_cmd_line[i] \in {BLANK, NUL}}
<1>0. /\ usb_cmd_line \in [Index -> Chars] /\ ndx \in 0 .. LineSize
      /\ LineSize \in Nat \ {0} /\ ndx \in Nat /\ 0 \in Index /\ usb_cmd_line[0] # BLANK
      /\ \A i \in Index : i < ndx => usb_cmd_line[i] # NUL
  BY TerminalAssumption DEF LineInv, TypeOK, Index
<1>1. usb_skipp_space(usb_cmd_line, 0) = 0
  <2>1. 0 \in S /\ S \in SUBSET Index
    BY <1>0
  <2>2. FirstOf(S) \in 0 .. LineSize /\ FirstOf(S) <= 0
    BY <2>1, FirstPlace
  <2> HIDE DEF S
  <2>3. FirstOf(S) = 0
    BY <1>0, <2>2
  <2> QED BY <2>3 DEF usb_skipp_space, S
<1>2. /\ end \in 0 .. LineSize /\ (end \in Index => usb_cmd_line[end] \in {BLANK, NUL})
      /\ \A j \in Index : j < end => usb_cmd_line[j] \notin {BLANK, NUL}
  <2> DEFINE C == {BLANK, NUL}
  <2>1. end = FirstOf(W)
    BY DEF usb_find_word
  <2>2. W = {i \in Index : i >= 0 /\ usb_cmd_line[i] \in C}
    OBVIOUS
  <2> HIDE DEF W, C
  <2>3. /\ FirstOf(W) \in 0 .. LineSize
        /\ FirstOf(W) \in Index => usb_cmd_line[FirstOf(W)] \in C
        /\ \A j \in Index : j < FirstOf(W) => usb_cmd_line[j] \notin C
    BY <2>2, FirstCharacter
  <2> QED BY <2>1, <2>3 DEF C
<1>3. e \in 0 .. ndx /\ e <= end /\ e \in Nat
  BY <1>0, <1>2
<1>4. Len(Content) = ndx /\ \A i \in 1 .. ndx : i - 1 \in Index /\ Content[i] = usb_cmd_line[i - 1]
  BY ContentType DEF LineInv
<1>5. ASSUME NEW i \in 1 .. e PROVE Content[i] # BLANK
  <2>1. i \in 1 .. ndx /\ i - 1 < end
    BY <1>0, <1>2, <1>3
  <2> QED BY <1>2, <1>4, <2>1
<1>6. ASSUME e < ndx PROVE e >= 1 /\ Content[e + 1] = BLANK
  <2>1. e = end /\ end < ndx /\ end \in Index
    BY <1>0, <1>2, <1>6 DEF Index
  <2>2. usb_cmd_line[end] = BLANK
    BY <1>0, <1>2, <2>1
  <2>3. end # 0
    BY <1>0, <2>2
  <2>4. e + 1 \in 1 .. ndx /\ (e + 1) - 1 = e
    BY <1>0, <1>3, <1>6
  <2> QED BY <1>3, <1>4, <2>1, <2>2, <2>3, <2>4
<1> QED BY <1>1, <1>2, <1>3, <1>4, <1>5, <1>6 DEF FirstWord

(***************************************************************************)
(* Enter runs the command that the line names and keeps the line.          *)
(***************************************************************************)
LEMMA EnterEdits ==
  ASSUME LineInv, EnterLine, UNCHANGED key_detected
  PROVE  /\ usb_cmd_line'[0] # BLANK /\ last_cmd_line'[0] # BLANK
         /\ \A i \in Index : i < usb_cmd_line_ndx' => usb_cmd_line'[i] # NUL
         /\ \/ UNCHANGED <<Content, History, key_detected, ran>>
            \/ Editor!Enter
<1> DEFINE start == usb_skipp_space(usb_cmd_line, 0)
           end   == usb_find_word(usb_cmd_line, 0)
           ndx   == usb_cmd_line_ndx
           closed == [usb_cmd_line EXCEPT ![end] = NUL, ![ndx] = NUL]
           e == IF end < ndx THEN end ELSE ndx
           name == [i \in 1 .. e |-> Content[i]]
<1>0. /\ usb_cmd_line \in [Index -> Chars] /\ ndx \in 0 .. LineSize
      /\ last_cmd_line \in [Index -> Chars]
      /\ LineSize \in Nat \ {0} /\ ndx \in Nat /\ 0 \in Index
      /\ usb_cmd_line[0] # BLANK /\ last_cmd_line[0] # BLANK /\ BLANK # NUL
      /\ \A i \in Index : i < ndx => usb_cmd_line[i] # NUL
  BY TerminalAssumption DEF LineInv, TypeOK, Index
<1>1. start = 0 /\ end \in 0 .. LineSize /\ FirstWord(Content, e)
  BY WordInBuffer
<1>2. /\ Content \in Seq(Chars) /\ Len(Content) = ndx
      /\ \A i \in 1 .. ndx : i - 1 \in Index /\ Content[i] = usb_cmd_line[i - 1]
  BY ContentType DEF LineInv
<1>3. CASE end = LineSize \/ ndx = LineSize
  <2>1. UNCHANGED <<usb_cmd_line, usb_cmd_line_ndx, last_cmd_line, ran>>
    BY <1>1, <1>3 DEF EnterLine
  <2> QED BY <1>0, <2>1 DEF Content, History
<1>4. CASE ~(end = LineSize \/ ndx = LineSize)
  <2>1. /\ last_cmd_line' = [i \in Index |->
                 IF i < ndx THEN usb_cmd_line[start + i]
                 ELSE IF i = ndx THEN NUL ELSE last_cmd_line[i]]
        /\ usb_cmd_line' = closed /\ usb_cmd_line_ndx' = 0
        /\ ran' = usb_find_command(StringAt(closed, start)) /\ overrun' = overrun
    <3>1. ~(start + ndx > LineSize)
      <4> HIDE DEF start
      <4> QED BY <1>0, <1>1
    <3> QED BY <1>1, <1>4, <3>1 DEF EnterLine
  <2>2. end \in Index /\ ndx \in Index /\ e \in Index /\ e \in Nat /\ e <= ndx
    <3> HIDE DEF end
    <3> QED BY <1>0, <1>1, <1>4 DEF Index
  <2>3. /\ closed[e] = NUL /\ closed[0] # BLANK
        /\ \A i \in Index : i < e => closed[i] = usb_cmd_line[i]
    <3>1. closed[e] = NUL
      <4> HIDE DEF end
      <4> QED BY <1>0, <2>2
    <3>2. closed[0] # BLANK
      <4> HIDE DEF end
      <4> QED BY <1>0, <2>2
    <3>3. ASSUME NEW i \in Index, i < e PROVE closed[i] = usb_cmd_line[i]
      <4>1. i # end /\ i # ndx
        <5>1. i \in Nat /\ end \in Nat
          BY <1>0, <2>2 DEF Index
        <5> HIDE DEF end
        <5> QED BY <1>0, <3>3, <5>1
      <4> HIDE DEF end
      <4> QED BY <1>0, <2>2, <4>1
    <3> QED BY <3>1, <3>2, <3>3
  <2>4. last_cmd_line' = [i \in Index |->
                 IF i < ndx THEN usb_cmd_line[i]
                 ELSE IF i = ndx THEN NUL ELSE last_cmd_line[i]]
    <3>1. \A i \in Index : 0 + i = i
      BY <1>0 DEF Index
    <3> HIDE DEF start, ndx
    <3> QED BY <1>1, <2>1, <3>1
  <2> HIDE DEF start, end, closed, e
  <2>5. /\ last_cmd_line'[ndx] = NUL
        /\ \A i \in Index : i < ndx => last_cmd_line'[i] = usb_cmd_line[i]
        /\ last_cmd_line'[0] # BLANK
    BY <1>0, <2>2, <2>4
  <2>6. usb_cmd_line'[0] # BLANK /\ \A i \in Index : i < usb_cmd_line_ndx' => usb_cmd_line'[i] # NUL
    <3>1. \A i \in Index : ~(i < 0)
      BY <1>0 DEF Index
    <3> QED BY <2>1, <2>3, <3>1
  <2>7. History' = Content
    <3>1. \A i \in Index : i < ndx => last_cmd_line'[i] # NUL
      BY <1>0, <2>5
    <3>2. StringAt(last_cmd_line', 0) = [i \in 1 .. ndx |-> last_cmd_line'[i - 1]]
      BY <2>2, <2>5, <3>1, StringUpTo
    <3>3. \A i \in 1 .. ndx : last_cmd_line'[i - 1] = usb_cmd_line[i - 1]
      <4> SUFFICES ASSUME NEW i \in 1 .. ndx PROVE last_cmd_line'[i - 1] = usb_cmd_line[i - 1]
        OBVIOUS
      <4>1. i - 1 \in Index
        BY <1>2
      <4>2. i - 1 < ndx
        BY <1>0
      <4> QED BY <2>5, <4>1, <4>2
    <3> QED BY <3>2, <3>3 DEF History, Content
  <2>8. Editor!Trimmed(Content) = Content
    <3>1. ndx >= 1 => Content[1] # BLANK
      <4>1. ASSUME ndx >= 1 PROVE Content[1] = usb_cmd_line[0]
        <5>1. 1 \in 1 .. ndx /\ 1 - 1 = 0
          BY <1>0, <4>1
        <5> QED BY <1>2, <5>1
      <4> QED BY <1>0, <4>1
    <3> QED BY <1>2, <3>1, TrimmedSame
  <2>9. Content' = << >>
    BY <2>1 DEF Content
  <2>10. ran' = IF name \in Commands THEN name ELSE NONE
    <3>1. \A i \in Index : i < e => closed[i] # NUL
      <4> SUFFICES ASSUME NEW i \in Index, i < e PROVE closed[i] # NUL
        OBVIOUS
      <4>1. i < ndx
        BY <1>0, <2>2 DEF Index
      <4> QED BY <1>0, <2>3, <4>1
    <3>2. StringAt(closed, 0) = [i \in 1 .. e |-> closed[i - 1]]
      BY <2>2, <2>3, <3>1, StringUpTo
    <3>3. \A i \in 1 .. e : closed[i - 1] = Content[i]
      <4> SUFFICES ASSUME NEW i \in 1 .. e PROVE closed[i - 1] = Content[i]
        OBVIOUS
      <4>1. i \in 1 .. ndx /\ i - 1 < e
        BY <1>0, <2>2
      <4> QED BY <1>2, <2>3, <4>1
    <3>4. StringAt(closed, 0) = name
      BY <3>2, <3>3
    <3> HIDE DEF name
    <3> QED BY <1>1, <2>1, <3>4 DEF usb_find_command
  <2>11. \A cmd \in Commands : Editor!Names(Content, cmd) <=> cmd = name
    BY <1>1, <1>2, NamesFirstWord
  <2> HIDE DEF name
  <2>12. \/ \E cmd \in Commands : Editor!Names(Content, cmd) /\ ran' = cmd
         \/ (\A cmd \in Commands : ~Editor!Names(Content, cmd)) /\ ran' = NONE
    <3>1. CASE name \in Commands
      BY <2>10, <2>11, <3>1
    <3>2. CASE name \notin Commands
      BY <2>10, <2>11, <3>2
    <3> QED BY <3>1, <3>2
  <2>13. Editor!Enter
    <3>1. Content' = << >> /\ History' = Editor!Trimmed(Content) /\ key_detected' = key_detected
      BY <2>7, <2>8, <2>9
    <3> QED BY <2>12, <3>1 DEF Editor!Enter, Content, History
  <2> QED BY <2>5, <2>6, <2>13
<1> QED BY <1>3, <1>4

(***************************************************************************)
(* The up key makes the history the line.                                  *)
(***************************************************************************)
LEMMA RecallEdits ==
  ASSUME LineInv, RecallLine
  PROVE  /\ usb_cmd_line'[0] # BLANK /\ last_cmd_line'[0] # BLANK
         /\ \A i \in Index : i < usb_cmd_line_ndx' => usb_cmd_line'[i] # NUL
         /\ Editor!Recall
<1> DEFINE last == StringAt(last_cmd_line, 0)
<1>0. /\ usb_cmd_line \in [Index -> Chars] /\ last_cmd_line \in [Index -> Chars]
      /\ LineSize \in Nat \ {0} /\ 0 \in Index
      /\ usb_cmd_line[0] # BLANK /\ last_cmd_line[0] # BLANK /\ BLANK # NUL
  BY TerminalAssumption DEF LineInv, TypeOK, Index
<1>1. /\ last \in Seq(Chars) /\ Len(last) \in 0 .. LineSize
      /\ \A i \in 1 .. Len(last) : last[i] = last_cmd_line[i - 1] /\ last_cmd_line[i - 1] # NUL
  BY <1>0, StringType
<1>2. /\ usb_cmd_line' = [i \in Index |->
             IF i < Len(last) THEN last[i + 1]
             ELSE IF i = Len(last) THEN NUL ELSE usb_cmd_line[i]]
      /\ usb_cmd_line_ndx' = Len(last) /\ key_detected' = 2
      /\ UNCHANGED <<last_cmd_line, ran, overrun>>
  BY DEF RecallLine
<1>3. last = History
  BY DEF History
<1> HIDE DEF last
<1>4. ASSUME NEW i \in Index, i < Len(last)
      PROVE  usb_cmd_line'[i] = last[i + 1] /\ last[i + 1] = last_cmd_line[i]
             /\ last_cmd_line[i] # NUL
  <2>1. i + 1 \in 1 .. Len(last) /\ (i + 1) - 1 = i
    BY <1>0, <1>1, <1>4 DEF Index
  <2>2. last[i + 1] = last_cmd_line[i] /\ last_cmd_line[i] # NUL
    BY <1>1, <2>1
  <2>3. usb_cmd_line'[i] = last[i + 1]
    BY <1>2, <1>4
  <2> QED BY <2>2, <2>3
<1>5. usb_cmd_line'[0] # BLANK
  <2>1. CASE 0 < Len(last)
    BY <1>0, <1>4, <2>1
  <2>2. CASE ~(0 < Len(last))
    BY <1>0, <1>1, <1>2, <2>2
  <2> QED BY <2>1, <2>2
<1>6. \A i \in Index : i < usb_cmd_line_ndx' => usb_cmd_line'[i] # NUL
  BY <1>2, <1>4
<1>7. Content' = History
  <2>1. Content' = [i \in 1 .. Len(last) |-> usb_cmd_line'[i - 1]]
    BY <1>2 DEF Content
  <2>2. ASSUME NEW i \in 1 .. Len(last) PROVE usb_cmd_line'[i - 1] = last[i]
    <3>1. i - 1 \in Index /\ i - 1 < Len(last) /\ (i - 1) + 1 = i
      BY <1>0, <1>1 DEF Index
    <3> QED BY <1>4, <3>1
  <2>3. last = [i \in 1 .. Len(last) |-> last[i]]
    BY <1>1, LenProperties
  <2> QED BY <1>3, <2>1, <2>2, <2>3
<1>8. History' = History
  BY <1>2 DEF History
<1>9. Editor!Recall
  BY <1>2, <1>7, <1>8 DEF Editor!Recall, Content, History
<1> QED BY <1>0, <1>2, <1>5, <1>6, <1>9

(***************************************************************************)
(* The keys that erase take the last character.                            *)
(***************************************************************************)
LEMMA EraseEdits ==
  ASSUME LineInv, NEW cleared \in BOOLEAN, EraseKey(cleared)
  PROVE  /\ usb_cmd_line'[0] # BLANK /\ last_cmd_line'[0] # BLANK
         /\ \A i \in Index : i < usb_cmd_line_ndx' => usb_cmd_line'[i] # NUL
         /\ Editor!Erase
<1> DEFINE ndx == usb_cmd_line_ndx
<1>0. /\ usb_cmd_line \in [Index -> Chars] /\ ndx \in 0 .. LineSize
      /\ LineSize \in Nat \ {0} /\ ndx \in Nat /\ 0 \in Index
      /\ usb_cmd_line[0] # BLANK /\ last_cmd_line[0] # BLANK /\ BLANK # NUL
      /\ \A i \in Index : i < ndx => usb_cmd_line[i] # NUL
  BY TerminalAssumption DEF LineInv, TypeOK, Index
<1>1. /\ ndx > 0 /\ usb_cmd_line_ndx' = ndx - 1
      /\ usb_cmd_line' = [i \in Index |->
           IF i = ndx \/ (cleared /\ i = ndx - 1) THEN NUL ELSE usb_cmd_line[i]]
      /\ UNCHANGED <<last_cmd_line, key_detected, ran>>
  BY DEF EraseKey
<1>2. /\ Content \in Seq(Chars) /\ Len(Content) = ndx
      /\ \A i \in 1 .. ndx : i - 1 \in Index /\ Content[i] = usb_cmd_line[i - 1]
  BY ContentType DEF LineInv
<1>3. \A i \in Index : i < ndx - 1 => usb_cmd_line'[i] = usb_cmd_line[i]
  BY <1>0, <1>1 DEF Index
<1>4. usb_cmd_line'[0] # BLANK
  BY <1>0, <1>1
<1>5. \A i \in Index : i < usb_cmd_line_ndx' => usb_cmd_line'[i] # NUL
  BY <1>0, <1>1, <1>3 DEF Index
<1>6. Content' = SubSeq(Content, 1, Len(Content) - 1)
  <2>1. Content' = [i \in 1 .. ndx - 1 |-> usb_cmd_line'[i - 1]]
    BY <1>1 DEF Content
  <2>2. ASSUME NEW i \in 1 .. ndx - 1 PROVE usb_cmd_line'[i - 1] = Content[i]
    <3>1. i \in 1 .. ndx /\ i - 1 < ndx - 1
      BY <1>0
    <3>2. i - 1 \in Index
      BY <1>2, <3>1
    <3> QED BY <1>2, <1>3, <3>1, <3>2
  <2>3. SubSeq(Content, 1, ndx - 1) = [i \in 1 .. (ndx - 1) - 1 + 1 |-> Content[i + 1 - 1]]
    BY <1>0, <1>2
  <2>4. SubSeq(Content, 1, ndx - 1) = [i \in 1 .. ndx - 1 |-> Content[i]]
    <3> HIDE DEF ndx
    <3> QED BY <1>0, <2>3
  <2> QED BY <1>2, <2>1, <2>2, <2>4
<1>7. Content # << >>
  BY <1>0, <1>1, <1>2
<1>8. History' = History
  BY <1>1 DEF History
<1>9. Editor!Erase
  BY <1>1, <1>6, <1>7, <1>8 DEF Editor!Erase, Content, History
<1> QED BY <1>0, <1>1, <1>4, <1>5, <1>9

(***************************************************************************)
(* Every other key is typed, or ignored after the up key.                  *)
(***************************************************************************)
LEMMA StoreEdits ==
  ASSUME ~LeadingBlanks, LineInv, NEW c \in Letters \cup {BLANK}, StoreKey(c)
  PROVE  /\ usb_cmd_line'[0] # BLANK /\ last_cmd_line'[0] # BLANK
         /\ \A i \in Index : i < usb_cmd_line_ndx' => usb_cmd_line'[i] # NUL
         /\ \/ UNCHANGED <<Content, History, key_detected, ran>>
            \/ Editor!Type \/ Editor!Ignore
<1> DEFINE ndx == usb_cmd_line_ndx
<1>0. /\ usb_cmd_line \in [Index -> Chars] /\ ndx \in 0 .. LineSize /\ key_detected \in 0 .. 2
      /\ LineSize \in Nat \ {0} /\ ndx \in Nat /\ 0 \in Index
      /\ usb_cmd_line[0] # BLANK /\ last_cmd_line[0] # BLANK /\ c # NUL
      /\ \A i \in Index : i < ndx => usb_cmd_line[i] # NUL
  BY TerminalAssumption DEF LineInv, TypeOK, Index
<1>1. CASE key_detected > 0
  <2>1. /\ key_detected' = key_detected - 1
        /\ UNCHANGED <<usb_cmd_line, usb_cmd_line_ndx, last_cmd_line, ran>>
    BY <1>0, <1>1 DEF StoreKey
  <2>2. Content' = Content /\ History' = History
    BY <2>1 DEF Content, History
  <2>3. Editor!Ignore
    BY <1>1, <2>1, <2>2 DEF Editor!Ignore, Content, History
  <2> QED BY <1>0, <2>1, <2>3
<1>2. CASE ~(key_detected > 0)
  <2>1. /\ UNCHANGED <<last_cmd_line, key_detected, ran>> /\ key_detected = 0
        /\ c = BLANK => ndx # 0
    BY <1>0, <1>2 DEF StoreKey
  <2>2. CASE ndx = LineSize
    <3>1. UNCHANGED <<usb_cmd_line, usb_cmd_line_ndx>>
      BY <1>0, <1>2, <2>2 DEF StoreKey
    <3> QED BY <1>0, <2>1, <3>1 DEF Content, History
  <2>3. CASE ndx # LineSize
    <3>1. /\ usb_cmd_line' = [usb_cmd_line EXCEPT ![ndx] = c] /\ usb_cmd_line_ndx' = ndx + 1
      BY <1>0, <1>2, <2>3 DEF StoreKey
    <3>2. ndx \in Index
      BY <1>0, <2>3 DEF Index
    <3>3. /\ usb_cmd_line'[ndx] = c
          /\ \A i \in Index : i # ndx => usb_cmd_line'[i] = usb_cmd_line[i]
      BY <1>0, <3>1, <3>2
    <3>4. usb_cmd_line'[0] # BLANK
      BY <1>0, <2>1, <3>3
    <3>5. \A i \in Index : i < usb_cmd_line_ndx' => usb_cmd_line'[i] # NUL
      BY <1>0, <3>1, <3>3 DEF Index
    <3>6. /\ Content \in Seq(Chars) /\ Len(Content) = ndx
          /\ \A i \in 1 .. ndx : i - 1 \in Index /\ Content[i] = usb_cmd_line[i - 1]
      BY ContentType DEF LineInv
    <3>7. Content' = Append(Content, c)
      <4>1. Content' = [i \in 1 .. ndx + 1 |-> usb_cmd_line'[i - 1]]
        BY <3>1 DEF Content
      <4>2. /\ Append(Content, c) \in Seq(Chars) /\ Len(Append(Content, c)) = ndx + 1
            /\ \A i \in 1 .. ndx : Append(Content, c)[i] = Content[i]
            /\ Append(Content, c)[ndx + 1] = c
        <5>1. c \in Chars
          BY DEF Chars
        <5> QED BY <3>6, <5>1, AppendProperties
      <4>3. Append(Content, c) = [i \in 1 .. ndx + 1 |-> Append(Content, c)[i]]
        BY <4>2, LenProperties
      <4>4. ASSUME NEW i \in 1 .. ndx + 1
            PROVE  usb_cmd_line'[i - 1] = Append(Content, c)[i]
        <5>1. CASE i = ndx + 1
          BY <1>0, <3>3, <4>2, <5>1
        <5>2. CASE i # ndx + 1
          <6>1. i \in 1 .. ndx /\ i - 1 # ndx
            BY <1>0, <5>2
          <6>2. i - 1 \in Index /\ Content[i] = usb_cmd_line[i - 1]
            BY <3>6, <6>1
          <6> QED BY <3>3, <4>2, <6>1, <6>2
        <5> QED BY <5>1, <5>2
      <4> HIDE DEF ndx
      <4> QED BY <4>1, <4>3, <4>4
    <3>8. History' = History
      BY <2>1 DEF History
    <3>9. Editor!Type
      <4>1. c \in Editor!Symbols
        BY DEF Editor!Symbols
      <4> QED BY <2>1, <3>7, <3>8, <4>1 DEF Editor!Type, Content, History
    <3> QED BY <1>0, <2>1, <3>4, <3>5, <3>9
  <2> QED BY <2>2, <2>3
<1> QED BY <1>1, <1>2

(***************************************************************************)
(* If no line begins with a blank, the buffers implement a command line:   *)
(* whatever earlier lines left in them, Enter runs the command that was    *)
(* typed, and the up key recalls the line that was entered.                *)
(***************************************************************************)
THEOREM BuffersAreLine ==
  ASSUME ~LeadingBlanks
  PROVE  Spec => IsLineEditor
<1> DEFINE edited == <<Content, History, key_detected, ran>>
<1>0. LineSize \in Nat \ {0} /\ 0 \in Index /\ BLANK # NUL
  BY TerminalAssumption DEF Index
<1>1. ASSUME Init, TypeOK
      PROVE  LineInv /\ Editor!EditorInit
  <2>1. /\ usb_cmd_line_ndx = 0 /\ usb_cmd_line = [i \in Index |-> NUL]
        /\ last_cmd_line = [i \in Index |-> NUL] /\ key_detected = 0 /\ ran = NONE
    BY <1>1 DEF Init
  <2>2. LineInv
    <3>1. \A i \in Index : ~(i < 0)
      BY <1>0 DEF Index
    <3>2. usb_cmd_line[0] # BLANK /\ last_cmd_line[0] # BLANK
      BY <1>0, <2>1
    <3> QED BY <1>1, <2>1, <3>1, <3>2 DEF LineInv
  <2>3. Content = << >>
    BY <2>1 DEF Content
  <2>4. History = << >>
    <3>1. last_cmd_line[0] = NUL /\ \A i \in Index : i < 0 => last_cmd_line[i] # NUL
      BY <1>0, <2>1 DEF Index
    <3>2. StringAt(last_cmd_line, 0) = [i \in 1 .. 0 |-> last_cmd_line[i - 1]]
      BY <1>0, <3>1, StringUpTo
    <3> QED BY <3>2 DEF History
  <2> QED BY <2>1, <2>2, <2>3, <2>4 DEF Editor!EditorInit, Content, History
<1>2. ASSUME LineInv, TypeOK', [Next]_vars
      PROVE  LineInv' /\ [Editor!EditorNext]_edited
  <2>1. ASSUME usb_cmd_line'[0] # BLANK, last_cmd_line'[0] # BLANK,
               \A i \in Index : i < usb_cmd_line_ndx' => usb_cmd_line'[i] # NUL
        PROVE  LineInv'
    BY <1>2, <2>1 DEF LineInv
  <2>2. ASSUME UNCHANGED editVars PROVE LineInv' /\ UNCHANGED edited
    BY <1>2, <2>2 DEF LineInv, editVars, Content, History
  <2>3. CASE Enter
    BY <1>2, <2>1, <2>3, EnterEdits DEF Enter, Editor!EditorNext
  <2>4. CASE UpKey
    BY <1>2, <2>1, <2>4, RecallEdits DEF UpKey, Editor!EditorNext
  <2>5. ASSUME NEW cleared \in BOOLEAN, Erase(cleared)
        PROVE  LineInv' /\ [Editor!EditorNext]_edited
    BY <1>2, <2>1, <2>5, EraseEdits DEF Erase, Editor!EditorNext
  <2>6. ASSUME NEW c \in Letters \cup {BLANK}, Key(c)
        PROVE  LineInv' /\ [Editor!EditorNext]_edited
    BY <1>2, <2>1, <2>6, StoreEdits DEF Key, Editor!EditorNext
  <2>7. CASE Newline \/ ReadFails \/ UNCHANGED vars
    <3>1. UNCHANGED editVars
      BY <2>7 DEF Newline, ReadFails, vars
    <3> QED BY <2>2, <3>1
  <2> QED BY <1>2, <2>3, <2>4, <2>5, <2>6, <2>7 DEF Next
<1>3. [Editor!EditorNext]_edited =>
        [Editor!EditorNext]_(<<[i \in 1 .. usb_cmd_line_ndx |-> usb_cmd_line[i - 1]],
                               StringAt(last_cmd_line, 0), key_detected, ran>>)
  BY DEF Content, History
<1> QED BY <1>1, <1>2, <1>3, TerminalTypes, PTL DEF Spec, IsLineEditor, Editor!EditorSpec
=============================================================================
