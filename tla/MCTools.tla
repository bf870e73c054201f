------------------------------ MODULE MCTools ------------------------------
(***************************************************************************)
(* Programs that run by themselves: simplevi, in two parts (the editor,    *)
(* with a command line typed in one step, and one prompt, key by key), and *)
(* the copies of Unix commands.  A behaviour is that of one of them.  What *)
(* a program does not have stays Unused.                                   *)
(***************************************************************************)
EXTENDS Integers, Sequences

CONSTANTS BUFSIZ, MAXLINES, rows, cols, MaxTop,      \* the editor
          MaxCommand,                                \* its prompt
          NUM_RECORDS, MaxRecords,                   \* who_copy_v5
          UserNames, NumTerminals, MaxTyped,         \* utmp
          FileLengths, NumFiles, MaxReplies,         \* more_copy
          MAXDEPTH, FileSizes, MaxNodes,             \* du_copy_v1
          MaxKeys,                                   \* non_block_demo
          BUFFER_SIZE, MaxBytes, MaxSpace,           \* cp_copy
          Names, MaxChanges                          \* ls_copy

VARIABLES
    program, \* the one that runs
    mode, text, index, line_len, line_start, num_lines, cur_line,
    index_in_cur_line, line_at_top, curs,                   \* the editor
    prompt, tempstr, result,                                \* its prompt
    utmp_file, offset, shown, stayed,                       \* both of these
    utmp_buf, number_of_recs_in_buffer, current_record, record_ptr,
    who,                                                    \* who_copy_v5
    asked, at, ut_buffer, typed, received, written,         \* utmp
    i, more, file_lines, num_of_lines, keyboard, file_ptr_tty, hung_up,
    replies, since_prompt, granted, quit,                   \* more_copy
    total_size, prev_level, cur_size, du, nodes, used, cur_used,
    level_twice,                                            \* du_copy_v1
    parent, names, pwd, cwd, frames, height, abs_pathname,
    start,                                                  \* pwd_copy_v2
    step, tty, original_state, flagset, count, pause, done, ch, screen,
    typed_keys, keys,                                       \* non_block_demo
    version,                                                \* pwd, cp and ls
    same, source, target, space, next, buf, file_offset, file_size,
    status,                                                 \* cp_copy
    long, args, dir, fresh, entries, since, seen, returned, entry, children,
    listed, changes, outcome                                \* ls_copy

editorVars == <<mode, text, index, line_len, line_start, num_lines, cur_line,
                index_in_cur_line, line_at_top, curs>>
promptVars == <<prompt, tempstr, result>>
fileVars == <<utmp_file, offset, shown, stayed>>
whoVars == <<utmp_buf, number_of_recs_in_buffer, current_record, record_ptr,
             who>>
recordVars == <<asked, at, ut_buffer, typed, received, written>>
utmpVars == <<fileVars, whoVars, recordVars>>
moreVars == <<i, more, file_lines, num_of_lines, keyboard, file_ptr_tty,
              hung_up, replies, since_prompt, granted, quit>>
duVars == <<total_size, prev_level, cur_size, du, nodes, used, cur_used,
            level_twice>>
pwdVars == <<parent, names, pwd, cwd, frames, height, abs_pathname, start>>
nonBlockVars == <<step, tty, original_state, flagset, count, pause, done, ch,
                  screen, typed_keys, keys>>
copyVars == <<same, source, target, space, next, buf, file_offset, file_size,
              status>>
lsVars == <<long, args, dir, fresh, entries, since, seen, returned, entry,
            children, listed, changes, outcome>>
filesVars == <<version, copyVars, lsVars>>
vars == <<program, editorVars, promptVars, utmpVars, moreVars, duVars, pwdVars,
          nonBlockVars, filesVars>>

\* One line for each outcome: quit, save, save and quit, nothing, an error.
Outcomes == {<<"q">>, <<"w", " ", "a">>, <<"w", "q", " ", "a">>, <<>>,
             <<"q", "a">>}
\* Two devices that use the same inode numbers.
TwoDevices == {1, 2} \X {2, 3}

editor == INSTANCE SimpleVi WITH CommandLines <- Outcomes
lastline == INSTANCE LastLine
who_copy == INSTANCE UtmpReader
utmp == INSTANCE UtmpRecords
more_copy == INSTANCE MoreCopy WITH tty_rows <- cols
du_copy == INSTANCE DuCopy
pwd_copy == INSTANCE PwdCopy WITH Directories <- TwoDevices, Root <- <<1, 2>>
non_block == INSTANCE NonBlock WITH numrows <- rows, numcols <- cols
cp_copy == INSTANCE CpCopy WITH offset <- file_offset
ls_copy == INSTANCE LsCopy WITH shown <- listed

ASSUME AllSizes ==
    /\ editor!EditorAssumption
    /\ MaxCommand \in Nat
    /\ who_copy!UtmpAssumption
    /\ more_copy!MoreAssumption
    /\ du_copy!DuAssumption
    /\ pwd_copy!PwdAssumption
    /\ non_block!ScreenAssumption
    /\ utmp!RecordsAssumption
    /\ cp_copy!CopyAssumption
    /\ ls_copy!LsAssumption

Unused == <<>>
NoEditor ==
    /\ mode = Unused /\ text = Unused /\ index = Unused
    /\ line_len = Unused /\ line_start = Unused /\ num_lines = Unused
    /\ cur_line = Unused /\ index_in_cur_line = Unused
    /\ line_at_top = Unused /\ curs = Unused
NoPrompt == prompt = Unused /\ tempstr = Unused /\ result = Unused
NoFile ==
    /\ utmp_file = Unused /\ offset = Unused /\ shown = Unused
    /\ stayed = Unused
NoWho ==
    /\ utmp_buf = Unused /\ number_of_recs_in_buffer = Unused
    /\ current_record = Unused /\ record_ptr = Unused /\ who = Unused
NoRecords ==
    /\ asked = Unused /\ at = Unused /\ ut_buffer = Unused
    /\ typed = Unused /\ received = Unused /\ written = Unused
NoUtmp == NoFile /\ NoWho /\ NoRecords
NoMore ==
    /\ i = Unused /\ more = Unused /\ file_lines = Unused
    /\ num_of_lines = Unused /\ keyboard = Unused
    /\ file_ptr_tty = Unused /\ hung_up = Unused /\ replies = Unused
    /\ since_prompt = Unused /\ granted = Unused /\ quit = Unused
NoDu ==
    /\ total_size = Unused /\ prev_level = Unused /\ cur_size = Unused
    /\ du = Unused /\ nodes = Unused /\ used = Unused
    /\ cur_used = Unused /\ level_twice = Unused
NoPwd ==
    /\ parent = Unused /\ names = Unused /\ pwd = Unused /\ cwd = Unused
    /\ frames = Unused /\ height = Unused /\ abs_pathname = Unused
    /\ start = Unused
NoNonBlock ==
    /\ step = Unused /\ tty = Unused /\ original_state = Unused
    /\ flagset = Unused /\ count = Unused /\ pause = Unused
    /\ done = Unused /\ ch = Unused /\ screen = Unused
    /\ typed_keys = Unused /\ keys = Unused
NoCopy ==
    /\ same = Unused /\ source = Unused /\ target = Unused /\ space = Unused
    /\ next = Unused /\ buf = Unused /\ file_offset = Unused
    /\ file_size = Unused /\ status = Unused
NoLs ==
    /\ long = Unused /\ args = Unused /\ dir = Unused /\ fresh = Unused
    /\ entries = Unused /\ since = Unused /\ seen = Unused
    /\ returned = Unused /\ entry = Unused /\ children = Unused
    /\ listed = Unused /\ changes = Unused /\ outcome = Unused
NoVersion == version = Unused
NoFiles == NoVersion /\ NoCopy /\ NoLs
NoSimpleVi == NoEditor /\ NoPrompt
NoTerminal == NoSimpleVi /\ NoMore /\ NoNonBlock

Init ==
    \/ /\ program = "editor" /\ editor!Init /\ NoPrompt
       /\ NoUtmp /\ NoMore /\ NoDu /\ NoPwd /\ NoNonBlock /\ NoFiles
    \/ /\ program = "prompt" /\ lastline!Init /\ NoEditor
       /\ NoUtmp /\ NoMore /\ NoDu /\ NoPwd /\ NoNonBlock /\ NoFiles
    \/ /\ program = "who" /\ who_copy!Init /\ NoRecords
       /\ NoTerminal /\ NoDu /\ NoPwd /\ NoFiles
    \/ /\ program = "utmp" /\ utmp!Init /\ NoWho
       /\ NoTerminal /\ NoDu /\ NoPwd /\ NoFiles
    \/ /\ program = "more" /\ more_copy!Init
       /\ NoSimpleVi /\ NoUtmp /\ NoDu /\ NoPwd /\ NoNonBlock /\ NoFiles
    \/ /\ program = "du" /\ du_copy!Init
       /\ NoTerminal /\ NoUtmp /\ NoPwd /\ NoFiles
    \/ /\ program = "pwd" /\ pwd_copy!Init
       /\ NoTerminal /\ NoUtmp /\ NoDu /\ NoCopy /\ NoLs
    \/ /\ program = "non_block" /\ non_block!Init
       /\ NoSimpleVi /\ NoUtmp /\ NoMore /\ NoDu /\ NoPwd /\ NoFiles
    \/ /\ program = "cp" /\ cp_copy!Init
       /\ NoTerminal /\ NoUtmp /\ NoDu /\ NoPwd /\ NoLs
    \/ /\ program = "ls" /\ ls_copy!Init
       /\ NoTerminal /\ NoUtmp /\ NoDu /\ NoPwd /\ NoCopy

terminalVars == <<editorVars, promptVars, moreVars, nonBlockVars>>

Next ==
    \/ /\ program = "editor" /\ editor!Next
       /\ UNCHANGED <<program, promptVars, utmpVars, moreVars, duVars, pwdVars,
                      nonBlockVars, filesVars>>
    \/ /\ program = "prompt" /\ lastline!do_lastline_mode
       /\ UNCHANGED <<program, editorVars, utmpVars, moreVars, duVars, pwdVars,
                      nonBlockVars, filesVars>>
    \/ /\ program = "who" /\ who_copy!Next
       /\ UNCHANGED <<program, terminalVars, recordVars, duVars, pwdVars,
                      filesVars>>
    \/ /\ program = "utmp" /\ utmp!Next
       /\ UNCHANGED <<program, terminalVars, whoVars, duVars, pwdVars,
                      filesVars>>
    \/ /\ program = "more" /\ more_copy!Next
       /\ UNCHANGED <<program, editorVars, promptVars, utmpVars, duVars,
                      pwdVars, nonBlockVars, filesVars>>
    \/ /\ program = "du" /\ du_copy!Next
       /\ UNCHANGED <<program, terminalVars, utmpVars, pwdVars, filesVars>>
    \/ /\ program = "pwd" /\ pwd_copy!Next
       /\ UNCHANGED <<program, terminalVars, utmpVars, duVars, copyVars,
                      lsVars>>
    \/ /\ program = "non_block" /\ non_block!Next
       /\ UNCHANGED <<program, editorVars, promptVars, utmpVars, moreVars,
                      duVars, pwdVars, filesVars>>
    \/ /\ program = "cp" /\ cp_copy!Next
       /\ UNCHANGED <<program, terminalVars, utmpVars, duVars, pwdVars, lsVars>>
    \/ /\ program = "ls" /\ ls_copy!Next
       /\ UNCHANGED <<program, terminalVars, utmpVars, duVars, pwdVars,
                      copyVars>>

Spec == Init /\ [][Next]_vars

----------------------------------------------------------------------------
(* Properties *)

TypeOK ==
    /\ program = "editor" => editor!EditorTypeOK
    /\ program = "prompt" => lastline!LineTypeOK
    /\ program = "who" => who_copy!UtmpTypeOK
    /\ program = "utmp" => utmp!RecordsTypeOK
    /\ program = "more" => more_copy!MoreTypeOK
    /\ program = "du" => du_copy!DuTypeOK
    /\ program = "pwd" => pwd_copy!PwdTypeOK
    /\ program = "non_block" => non_block!NonBlockTypeOK
    /\ program = "cp" => cp_copy!CopyTypeOK
    /\ program = "ls" => ls_copy!LsTypeOK

\* Wherever characters are typed, the lengths in the table of lines add up to
\* the characters stored (simplevi.c:753-795).
AllCharactersCounted == program = "editor" => editor!AllCharactersCounted

\* A key that inserts in the right place leaves a table that describes the
\* text, and the two places of the cursor together (simplevi.c:749-795).
EditsKeepTable == [][program = "editor" => editor!TableKept]_vars

\* Step by step, the cursor on the screen gets where get_cursor_at would put
\* it (simplevi.c:834-874, 946-977).
CursorFollows == [][program = "editor" => editor!CursorKept]_vars

\* A line typed at the prompt quits and saves if it asks to, and only then
\* (simplevi.c:265-393).  who_copy_v4 marks the terminal it was given and no
\* other, and nobody who was there before (l.40-48).  write_copy finds whoever
\* stays at a terminal that was asked for, and sends there what is typed, with
\* nothing left out (write_copy_v2.c:31-81).
CommandsAreObeyed ==
    /\ program = "prompt" => lastline!CommandsAreObeyed
    /\ program = "utmp" => utmp!OthersAreKept /\ utmp!MessageIsWhole

\* who lists whoever is logged in all the time, once, in the order of the file,
\* although the file changes while it is read (utmp_utils.h:44-97), with and
\* without a buffer; ls lists every entry that is there all the time, with its
\* own status, although entries come and go (ls_copy_v3.c:74-97).
ListsAreComplete ==
    /\ program = "who" => who_copy!WhoIsComplete
    /\ program = "utmp" => utmp!WhoIsComplete
    /\ program = "ls" => ls_copy!ListingIsTrue

\* cp reports success only if it has copied all that the source held, and in
\* its order, with a disk that fills up and a source that grows
\* (cp_copy_v1.c:40-55, cp_copy_v3.c:63-91).
CopyIsTrue == program = "cp" => cp_copy!CopyIsTrue

\* more asks whenever it has shown the lines that were asked for, a page or one
\* line, until it is told to quit (more_copy.c:71-101).
AsksForEachPage == program = "more" => more_copy!AsksForEachPage

\* du never prints more than a tree uses, and prints less only where two nodes
\* of a level follow each other (du_copy_v1.c:56-65).
UsageNeverOver == program = "du" => du_copy!UsageNeverOver

\* The path that pwd prints leads to where it was called, across devices that
\* use the same inode numbers and past links (pwd_copy_v2.c:49-83).
PathLeadsBack == program = "pwd" => pwd_copy!PathLeadsBack

\* The dots are no more than the menu says and stay above it, although keys are
\* obeyed again and writes may fail, and the terminal gets its flags back
\* (non_block_demo.c:84-123).
ScreenIsKept == program = "non_block" => non_block!ScreenIsKept
=============================================================================
