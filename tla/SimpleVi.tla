------------------------------ MODULE SimpleVi ------------------------------
(***************************************************************************)
(* misc/simplevi/simplevi.c: the text buffer, the window over it and the   *)
(* cursor on the screen, key by key.  The buffer is a text with a table of *)
(* its lines and with the place of the cursor kept twice: as an index into *)
(* the text and as a line with an index in it.  What is drawn is left out, *)
(* except for the cursor; a key is "x" (any printable character), a        *)
(* newline, a control character or the terminal's erase character.         *)
(***************************************************************************)
EXTENDS Integers, Sequences, SequencesExt, FiniteSetsExt, ParseLastline

CONSTANTS
    BUFSIZ,        \* characters in the text
    MAXLINES,      \* lines in the table
    rows, cols,    \* the window
    CommandLines,  \* what the user may type at the colon
    MaxTop         \* bound: line_at_top grows with no limit in the code

EditorAssumption ==
    /\ BUFSIZ \in Nat \ {0} /\ MAXLINES \in Nat \ {0, 1}
    /\ rows \in Nat \ {0, 1} /\ cols \in Nat \ {0, 1}
    /\ CommandLines \subseteq Seq(Characters)
    /\ MaxTop \in Nat

VARIABLES
    mode,                         \* "command", "input" or "ended"
    text, index,                  \* text[1 .. size], and the cursor in it
    line_len, line_start,         \* the table of lines, from line 0
    num_lines,
    cur_line, index_in_cur_line,  \* the cursor, by line
    line_at_top,                  \* of the window
    curs                          \* the cursor on the screen

bufferVars == <<text, index, line_len, line_start, num_lines>>
lineVars == <<cur_line, index_in_cur_line>>
viewVars == <<line_at_top, curs>>
editorVars == <<mode, bufferVars, lineVars, viewVars>>

Printable == "x"
Newline == "newline"
Control == "control"
EraseKey == "erase"
Keys == {Printable, Newline, Control, EraseKey}

size == Len(text)
Lines == 0 .. num_lines - 1

\* Cells of the table from num_lines on are written before they are read.
Init ==
    /\ mode = "command"
    /\ text = <<>> /\ index = 0
    /\ line_len = [i \in 0 .. MAXLINES - 1 |-> 0]
    /\ line_start = [i \in 0 .. MAXLINES - 1 |-> 0]
    /\ num_lines = 0
    /\ cur_line = 0 /\ index_in_cur_line = 0
    /\ line_at_top = 0
    /\ curs = [r |-> 0, c |-> 0]

----------------------------------------------------------------------------
(* The window *)

\* The same number by either of the code's two tests, < cols and <= cols.
ScreenRows(len) == IF len <= cols THEN 1 ELSE (len + cols - 1) \div cols

\* Rows that the lines first .. last take.
RowsOf(lens, first, last) ==
    LET upto[i \in first - 1 .. last] ==
            IF i < first THEN 0 ELSE upto[i - 1] + ScreenRows(lens[i])
    IN  IF last < first THEN 0 ELSE upto[last]

\* The last line that fits in the window with all those above it.
get_lastline_in_win(lens, lines, top) ==
    LET overflowing == {i \in top .. lines - 1 :
                            RowsOf(lens, top, i) > rows - 1}
    IN  IF overflowing # {} THEN Min(overflowing) - 1
                            ELSE Max({top, lines}) - 1

\* C's division truncates: an index of -1 is on row 0, at column -1.
get_cursor_at(lens, top, idx, line) ==
    LET row == IF idx < 0 THEN 0 ELSE idx \div cols
    IN  [r |-> RowsOf(lens, top, line - 1) + row, c |-> idx - row * cols]

\* The lines that may be taken for the one of the character at pos: one more
\* when that character is a newline.  Past the text it was never written.
line_in_buffer(txt, starts, lines, pos) ==
    LET beyond == {i \in 0 .. lines - 1 : starts[i] > pos}
        i == IF beyond = {} THEN lines ELSE Min(beyond)
    IN  IF pos = Len(txt) THEN {i - 1, i}
        ELSE IF txt[pos + 1] = Newline THEN {i} ELSE {i - 1}

\* After an insertion: scroll to the line of the cursor, if it is not shown.
redraw_buffer(at) ==
    \E line \in line_in_buffer(text', line_start', num_lines', index') :
        LET lastline == get_lastline_in_win(line_len', num_lines', line_at_top)
            by == IF line < line_at_top THEN line - line_at_top
                  ELSE IF line > lastline THEN line - lastline ELSE 0
        IN  /\ line_at_top' = line_at_top + by
            /\ curs' = [at EXCEPT !.r = @ - by]
            /\ line_at_top' <= MaxTop

\* Mutant of advance_cursor: the line wraps one column late.
advance_cursor_late(ch) ==
    IF ch = Newline THEN [r |-> curs.r + 1, c |-> 0]
    ELSE IF curs.c = cols THEN [r |-> curs.r + 1, c |-> 0]
    ELSE [curs EXCEPT !.c = @ + 1]

advance_cursor(ch) ==
    IF ch = Newline THEN [r |-> curs.r + 1, c |-> 0]
    ELSE IF curs.c + 1 = cols THEN [r |-> curs.r + 1, c |-> 0]
    ELSE [curs EXCEPT !.c = @ + 1]

----------------------------------------------------------------------------
(* Input mode *)

TooMany(ch) == (ch = Newline /\ num_lines = MAXLINES) \/ size = BUFSIZ

\* The part of insert that every character goes through.  An index of -1
\* makes it shift the byte in front of the buffer in, and overwrite it.
StoreCharacter(ch) ==
    /\ \/ index >= 0 /\ text' = InsertAt(text, index + 1, ch)
       \/ /\ index < 0
          /\ \E garbage \in Keys \ {EraseKey} : text' = <<garbage>> \o text
    /\ index' = index + 1

\* With the new character, before a newline splits anything.
Counted == [line_len EXCEPT ![cur_line] = @ + 1]

\* Mutant of LinesCounted: the first character makes no line.
LinesUncounted == num_lines

LinesCounted == IF size = 0 THEN num_lines + 1 ELSE num_lines

\* A newline ends the current line where the cursor is; what was behind the
\* cursor is the next line, and all later lines move up by one.
SplitLengths ==
    LET kept == index_in_cur_line + 1
    IN  [i \in DOMAIN line_len |->
             CASE i < cur_line     -> line_len[i]
               [] i = cur_line     -> kept
               [] i = cur_line + 1 -> Counted[cur_line] - kept
               [] OTHER            -> line_len[i - 1]]

\* Mutant of SplitStarts: the later lines keep their starts.
SplitStartsUnshifted ==
    [i \in DOMAIN line_start |->
         CASE i <= cur_line    -> line_start[i]
           [] i = cur_line + 1 -> line_start[cur_line] + index_in_cur_line + 1
           [] OTHER            -> line_start[i - 1]]

SplitStarts ==
    [i \in DOMAIN line_start |->
         CASE i <= cur_line    -> line_start[i]
           [] i = cur_line + 1 -> line_start[cur_line] + index_in_cur_line + 1
           [] OTHER            -> line_start[i - 1] + 1]

SplitLine ==
    /\ num_lines' = LinesCounted + 1
    /\ line_len' = SplitLengths
    /\ line_start' = SplitStarts
    /\ cur_line' = cur_line + 1
    /\ index_in_cur_line' = 0

LengthenLine ==
    /\ num_lines' = LinesCounted
    /\ line_len' = Counted
    /\ line_start' = [i \in DOMAIN line_start |->
                          IF i \in cur_line + 1 .. LinesCounted - 1
                          THEN line_start[i] + 1 ELSE line_start[i]]
    /\ index_in_cur_line' = index_in_cur_line + 1
    /\ UNCHANGED cur_line

\* A full buffer ends input mode.
Refuse(ch) ==
    /\ mode = "input" /\ TooMany(ch)
    /\ mode' = "command"
    /\ UNCHANGED <<bufferVars, lineVars, viewVars>>

InsertShown(ch) ==
    /\ mode = "input" /\ ~TooMany(ch)
    /\ \/ ch = Newline /\ SplitLine
       \/ ch = Printable /\ LengthenLine
    /\ StoreCharacter(ch)
    /\ redraw_buffer(advance_cursor(ch))
    /\ UNCHANGED mode

\* insert reports a control character as unhandled, after it has stored it.
InsertControl ==
    /\ mode = "input" /\ ~TooMany(Control)
    /\ StoreCharacter(Control)
    /\ num_lines' = LinesCounted
    /\ line_len' = Counted
    /\ UNCHANGED <<mode, line_start, lineVars, viewVars>>

IgnoreErase ==
    /\ mode = "input" /\ ~TooMany(EraseKey)
    /\ UNCHANGED editorVars

LeaveInput ==
    /\ mode = "input"
    /\ mode' = "command"
    /\ UNCHANGED <<bufferVars, lineVars, viewVars>>

----------------------------------------------------------------------------
(* Command mode *)

\* By the table, in lines 0 .. line - 1.
CharactersBefore(line) ==
    LET upto[i \in 0 .. line] ==
            IF i = 0 THEN 0 ELSE upto[i - 1] + line_len[i - 1]
    IN  upto[line]

\* The key i, and update_buffer_index.
EnterInput ==
    /\ mode = "command"
    /\ mode' = "input"
    /\ index' = CharactersBefore(cur_line) + index_in_cur_line
    /\ UNCHANGED <<text, line_len, line_start, num_lines, lineVars, viewVars>>

\* After a colon, in_input_mode is set whatever the command was, and index is
\* where the last insertion left it.
AfterCommand(status) == mode' = IF status > 0 THEN "ended" ELSE "input"

CommandLine(line) ==
    LET result == parse_lastline(line)
    IN  /\ mode = "command"
        /\ \/ AfterCommand(result.status)
           \* save_buffer, where creat fails: exit(1)
           \/ result.filename # <<>> /\ mode' = "ended"
        /\ UNCHANGED <<bufferVars, lineVars, viewVars>>

\* The prompt was erased: do_lastline_mode returns an unset status.
CommandErased ==
    /\ mode = "command"
    /\ \E status \in -1 .. 1 : AfterCommand(status)
    /\ UNCHANGED <<bufferVars, lineVars, viewVars>>

\* The cursor goes to another line, and to its last character if that is
\* shorter; the window has to start at line top.
GoTo(line, idx, top) ==
    /\ cur_line' = line
    /\ index_in_cur_line' = idx
    /\ line_at_top' = top /\ top <= MaxTop
    /\ curs' = get_cursor_at(line_len, top, idx, line)
    /\ UNCHANGED <<mode, bufferVars>>

\* Mutant of IndexIn: the index is carried over to the other line.
IndexCarried(line) == index_in_cur_line

IndexIn(line) == IF index_in_cur_line >= line_len[line]
                 THEN line_len[line] - 1 ELSE index_in_cur_line

move_up ==
    /\ mode = "command" /\ cur_line > 0
    /\ GoTo(cur_line - 1, IndexIn(cur_line - 1),
            Min({line_at_top, cur_line - 1}))

move_down ==
    LET lastline == get_lastline_in_win(line_len, num_lines, line_at_top)
    IN  /\ mode = "command" /\ cur_line < num_lines - 1
        /\ GoTo(cur_line + 1, IndexIn(cur_line + 1),
                line_at_top + Max({cur_line + 1 - lastline, 0}))

MayMoveRight ==
    \/ index_in_cur_line < line_len[cur_line] - 1
    \/ index_in_cur_line < line_len[cur_line] /\ cur_line = num_lines - 1

\* Wrapping below the window scrolls it, but leaves the row where it is.
move_right ==
    /\ mode = "command" /\ MayMoveRight
    /\ index_in_cur_line' = index_in_cur_line + 1
    /\ IF (index_in_cur_line + 1) % cols = 0
       THEN /\ curs' = [r |-> curs.r + 1, c |-> 0]
            /\ line_at_top' = line_at_top + Max({curs.r + 1 - (rows - 2), 0})
            /\ line_at_top' <= MaxTop
       ELSE /\ curs' = [curs EXCEPT !.c = @ + 1]
            /\ UNCHANGED line_at_top
    /\ UNCHANGED <<mode, bufferVars, cur_line>>

move_left ==
    /\ mode = "command" /\ index_in_cur_line > 0
    /\ index_in_cur_line' = index_in_cur_line - 1
    /\ curs' = IF index_in_cur_line % cols = 0
               THEN [r |-> curs.r - 1, c |-> cols - 1]
               ELSE [curs EXCEPT !.c = @ - 1]
    /\ UNCHANGED <<mode, bufferVars, cur_line, line_at_top>>

\* Keys with no meaning in their mode.
Ignore == mode = "command" /\ UNCHANGED editorVars

Ended == mode = "ended" /\ UNCHANGED editorVars

----------------------------------------------------------------------------

Next ==
    \/ \E ch \in Keys : Refuse(ch) \/ InsertShown(ch)
    \/ InsertControl \/ IgnoreErase \/ LeaveInput
    \/ EnterInput \/ CommandErased
    \/ \E line \in CommandLines : CommandLine(line)
    \/ move_up \/ move_down \/ move_right \/ move_left
    \/ Ignore \/ Ended

Spec == Init /\ [][Next]_editorVars

----------------------------------------------------------------------------
(* Properties *)

\* Every variable has its type, and the buffer never exceeds its arrays.
EditorTypeOK ==
    /\ mode \in {"command", "input", "ended"}
    /\ text \in Seq(Keys \ {EraseKey}) /\ size <= BUFSIZ
    /\ index \in -1 .. size
    /\ DOMAIN line_len = 0 .. MAXLINES - 1
    /\ DOMAIN line_start = 0 .. MAXLINES - 1
    /\ num_lines \in 0 .. MAXLINES
    /\ cur_line \in 0 .. MAXLINES - 1
    /\ index_in_cur_line \in -1 .. BUFSIZ
    /\ line_at_top \in 0 .. MaxTop
    /\ curs.r \in Int /\ curs.c \in -1 .. cols - 1

\* Wherever characters are typed, also where index is stale after a colon or
\* out of the text, the lengths in the table add up to the characters stored
\* (l.753-761, 763-795): no split or shift of the table loses one.
AllCharactersCounted ==
    CharactersBefore(num_lines) = size

\* The table describes the text: each line starts where the one before it
\* ends, and newlines are found at the ends of all lines but the last.
TableFits ==
    /\ \A i \in Lines :
        /\ line_start[i] = CharactersBefore(i)
        /\ i < num_lines - 1 =>
               /\ line_len[i] > 0
               /\ text[line_start[i] + line_len[i]] = Newline
    /\ num_lines = IF size = 0 THEN 0
       ELSE Cardinality({j \in 1 .. size : text[j] = Newline}) + 1

\* The two places of the cursor are the same one.
CursorsAgree == index = line_start[cur_line] + index_in_cur_line

\* Inserting a printable character or a newline (l.749-795) where the two
\* cursors agree keeps them together, and keeps the table true to the text.
TableKept ==
    /\ TableFits /\ CursorsAgree /\ index_in_cur_line >= 0
    /\ size' > size /\ text'[index'] # Control
    => (TableFits /\ CursorsAgree)'

CursorAsComputed ==
    curs = get_cursor_at(line_len, line_at_top, index_in_cur_line, cur_line)

\* advance_cursor, move_right and move_left follow the cursor step by step
\* (l.861-874, 946-977); as long as the window does not scroll, they arrive
\* where get_cursor_at (l.834-852) puts it.
CursorKept ==
    /\ CursorAsComputed /\ line_at_top <= cur_line /\ index_in_cur_line >= 0
    /\ line_at_top' = line_at_top
    => CursorAsComputed'

\* The comment on index says that it is the "index of cursor in text buffer"
\* (l.108).  Moving down onto an empty last line makes index_in_cur_line -1
\* (l.928-930), moving up keeps that (l.905-907), and on line 0 the key i makes
\* an index of it (l.591-592): the next character is stored in front of text.
IndexInText == index \in 0 .. size
=============================================================================
