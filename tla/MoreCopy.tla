------------------------------ MODULE MoreCopy ------------------------------
(***************************************************************************)
(* more_copy/more_copy.c: more shows files, and asks for a key when the    *)
(* screen is full.  A file is the number of lines it has left, where a     *)
(* line longer than LINELEN - 1 counts as several: fgets hands it over in  *)
(* pieces.  The terminal's size stays the same.  As in the code, a line    *)
(* counts as one, however many rows of the screen it takes.                *)
(*                                                                         *)
(* The terminal hands out whole lines of keys.  Each file has a stream of  *)
(* its own on it, so keys that the stream of one file has read and not     *)
(* used are not seen by the next.                                          *)
(***************************************************************************)
EXTENDS Integers, Sequences

CONSTANTS
    tty_rows,
    FileLengths,  \* how many lines a file may have
    NumFiles,     \* argc - 1
    MaxReplies    \* bound: lines the user types

MoreAssumption ==
    /\ tty_rows \in Nat \ {0}
    /\ FileLengths \subseteq Nat
    /\ NumFiles \in Nat
    /\ MaxReplies \in Nat

VARIABLES
    i,             \* files main has begun with
    more,          \* where it is
    file_lines,    \* left in the file
    num_of_lines,  \* left on the screen
    keyboard,      \* lines of keys in the terminal
    file_ptr_tty,  \* keys in the stream of the file
    hung_up,       \* the terminal gives an end of file
    replies,       \* lines typed
    since_prompt,  \* history: lines shown since the last key but QUIT
    granted,       \* history: lines that this key, or opening, asked for
    quit           \* history: in this file QUIT or INVALID was replied

moreVars == <<i, more, file_lines, num_of_lines, keyboard, file_ptr_tty,
              hung_up, replies, since_prompt, granted, quit>>

Keys == {"q", " ", "other"}
Newline == "\n"

Init ==
    /\ i = 0 /\ more = "open" /\ file_lines = 0 /\ num_of_lines = 0
    /\ keyboard = <<>> /\ file_ptr_tty = <<>>
    /\ hung_up = FALSE /\ replies = 0
    /\ since_prompt = 0 /\ granted = 0 /\ quit = FALSE

----------------------------------------------------------------------------
(* main, do_more_of *)

\* Mutant of OpenFile: the prompt's row is counted for the file.
OpenOnRows ==
    /\ more = "open" /\ i < NumFiles
    /\ i' = i + 1
    /\ file_lines' \in FileLengths
    /\ num_of_lines' = tty_rows + 1 /\ file_ptr_tty' = <<>>
    /\ since_prompt' = 0 /\ granted' = tty_rows /\ quit' = FALSE
    /\ more' = "read"
    /\ UNCHANGED <<keyboard, hung_up, replies>>

OpenFile ==
    /\ more = "open" /\ i < NumFiles
    /\ i' = i + 1
    /\ file_lines' \in FileLengths
    /\ num_of_lines' = tty_rows /\ file_ptr_tty' = <<>>
    /\ since_prompt' = 0 /\ granted' = tty_rows /\ quit' = FALSE
    /\ more' = "read"
    /\ UNCHANGED <<keyboard, hung_up, replies>>

\* "Skipping"
SkipFile ==
    /\ more = "open" /\ i < NumFiles
    /\ i' = i + 1
    /\ UNCHANGED <<more, file_lines, num_of_lines, keyboard, file_ptr_tty,
                   hung_up, replies, since_prompt, granted, quit>>

ReadLine ==
    /\ more = "read" /\ file_lines > 0
    /\ file_lines' = file_lines - 1
    /\ more' = IF num_of_lines = 0 THEN "ask" ELSE "show"
    /\ UNCHANGED <<i, num_of_lines, keyboard, file_ptr_tty, hung_up, replies,
                   since_prompt, granted, quit>>

ShowLine ==
    /\ more = "show"
    /\ num_of_lines' = num_of_lines - 1
    /\ since_prompt' = since_prompt + 1
    /\ more' = "read"
    /\ UNCHANGED <<i, file_lines, keyboard, file_ptr_tty, hung_up, replies,
                   granted, quit>>

EndOfFile ==
    /\ more = "read" /\ file_lines = 0
    /\ more' = "open"
    /\ UNCHANGED <<i, file_lines, num_of_lines, keyboard, file_ptr_tty,
                   hung_up, replies, since_prompt, granted, quit>>

----------------------------------------------------------------------------
(* get_user_input *)

\* fgetc needs another line of the terminal.
FillStream ==
    /\ more = "ask" /\ file_ptr_tty = <<>>
    /\ keyboard # <<>>
    /\ file_ptr_tty' = Head(keyboard) /\ keyboard' = Tail(keyboard)
    /\ UNCHANGED <<i, more, file_lines, num_of_lines, hung_up, replies,
                   since_prompt, granted, quit>>

\* A key that is none of the three is passed over.  QUIT does not quit.
Reply ==
    /\ more = "ask" /\ file_ptr_tty # <<>>
    /\ file_ptr_tty' = Tail(file_ptr_tty)
    /\ LET c == Head(file_ptr_tty)
       IN  /\ num_of_lines' = CASE c = " " -> tty_rows
                                [] c = Newline -> num_of_lines + 1
                                [] OTHER -> num_of_lines
           /\ granted' = CASE c = " " -> tty_rows
                           [] c = Newline -> 1
                           [] OTHER -> granted
           /\ since_prompt' = IF c \in {" ", Newline} THEN 0 ELSE since_prompt
           /\ quit' = (quit \/ c = "q")
           /\ more' = IF c = "other" THEN "ask" ELSE "show"
    /\ UNCHANGED <<i, file_lines, keyboard, hung_up, replies>>

\* INVALID
EndOfInput ==
    /\ more = "ask" /\ file_ptr_tty = <<>> /\ keyboard = <<>> /\ hung_up
    /\ quit' = TRUE
    /\ more' = "show"
    /\ UNCHANGED <<i, file_lines, num_of_lines, keyboard, file_ptr_tty,
                   hung_up, replies, since_prompt, granted>>

----------------------------------------------------------------------------
(* The user *)

TypeReply ==
    /\ ~hung_up /\ replies < MaxReplies
    /\ \E reply \in {<<Newline>>} \union {<<key, Newline>> : key \in Keys} :
          keyboard' = Append(keyboard, reply)
    /\ replies' = replies + 1
    /\ UNCHANGED <<i, more, file_lines, num_of_lines, file_ptr_tty, hung_up,
                   since_prompt, granted, quit>>

HangUp ==
    /\ ~hung_up
    /\ hung_up' = TRUE
    /\ UNCHANGED <<i, more, file_lines, num_of_lines, keyboard, file_ptr_tty,
                   replies, since_prompt, granted, quit>>

Next ==
    \/ OpenFile
    \/ SkipFile
    \/ ReadLine
    \/ ShowLine
    \/ EndOfFile
    \/ FillStream
    \/ Reply
    \/ EndOfInput
    \/ TypeReply
    \/ HangUp

----------------------------------------------------------------------------
(* Properties *)

MoreTypeOK ==
    /\ i \in 0 .. NumFiles
    /\ more \in {"open", "read", "ask", "show"}
    /\ file_lines \in Nat /\ num_of_lines \in Int

\* "Display up to a page of the file", then the prompt; after SPACEBAR the next
\* page, after RETURN one more line (more_copy.c:12-18): the prompt comes when
\* as many lines were shown as were asked for, never later and never earlier,
\* in each file and whatever is typed ahead, until the user replies QUIT, after
\* which no prompt comes, or ends the terminal's input.
AsksForEachPage ==
    ~quit => /\ since_prompt <= granted
             /\ more = "ask" => since_prompt = granted
=============================================================================
