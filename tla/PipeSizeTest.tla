---------------------------- MODULE PipeSizeTest ----------------------------
(***************************************************************************)
(* pipes/pipe_size_test.c fills a pipe byte by byte until an alarm tells   *)
(* that write has blocked, and then looks how much must be read before it  *)
(* can write again.  A pipe is made of pages: there is room for a byte in  *)
(* the last page or in a new one.                                          *)
(***************************************************************************)
EXTENDS Integers, Sequences

CONSTANTS PageSize,   \* PIPE_BUF
          Pages       \* of a pipe

PipeSizeAssumption == PageSize \in Nat \ {0, 1} /\ Pages \in Nat \ {0}

VARIABLES
    prompt,   \* no step of the program but a blocked write takes four seconds
    step,     \* the call that comes next
    phase,    \* 1: filling the pipe, 2 and 3: after the first and second read
    pages,    \* how many bytes were written to each page of the pipe
    taken,    \* how many of the first page have been read
    test,     \* count and full, and whether an alarm is set
    found     \* what was printed: count in the handler, then whether writes
              \* succeeded

sizeVars == <<prompt, step, phase, pages, taken, test, found>>

Init ==
    /\ prompt \in BOOLEAN
    /\ step = "alarm" /\ phase = 1
    /\ pages = <<>> /\ taken = 0
    /\ test = [count |-> 0, full |-> FALSE, armed |-> FALSE]
    /\ found = <<>>

----------------------------------------------------------------------------
(* The pipe *)

Room == \/ Len(pages) < Pages
        \/ pages # <<>> /\ pages[Len(pages)] < PageSize

AddByte ==
    pages' = IF pages # <<>> /\ pages[Len(pages)] < PageSize
             THEN [pages EXCEPT ![Len(pages)] = @ + 1]
             ELSE Append(pages, 1)

----------------------------------------------------------------------------
(* The program *)

Alarm ==
    /\ step = "alarm"
    /\ step' = "write" /\ test' = [test EXCEPT !.armed = TRUE]
    /\ UNCHANGED <<prompt, phase, pages, taken, found>>

Write ==
    /\ step = "write" /\ Room
    /\ AddByte
    /\ step' = "unset"
    /\ UNCHANGED <<prompt, phase, taken, test, found>>

\* The handler.  It interrupts a write that has blocked.  When it comes
\* earlier than that, nothing is left to end a write that blocks after it.
on_alarm ==
    /\ test.armed
    /\ \/ step = "write" /\ ~Room /\ step' = "unset"
       \/ ~prompt /\ UNCHANGED step
    /\ test' = [test EXCEPT !.armed = FALSE, !.full = TRUE]
    /\ UNCHANGED <<prompt, phase, pages, taken, found>>

\* alarm(0), and what follows from full.
Unset ==
    /\ step = "unset"
    /\ LET blocked == test.full
           counted == phase = 1 /\ ~blocked
       IN  /\ test' = [count |-> test.count + (IF counted THEN 1 ELSE 0),
                       full |-> FALSE, armed |-> FALSE]
           /\ step' = CASE counted -> "alarm"
                        [] phase = 3 -> "over"
                        [] OTHER -> "read"
           /\ found' = CASE counted -> found
                         [] phase = 1 /\ blocked -> <<test.count>>
                         [] OTHER -> Append(found, ~blocked)
           /\ phase' = IF counted THEN 1 ELSE phase + 1
    /\ UNCHANGED <<prompt, pages, taken>>

amount_to_remove == IF phase = 2 THEN PageSize - 1 ELSE 1

\* Mutant of amount_to_remove: one byte more in the first round.
WholePage == IF phase = 2 THEN PageSize ELSE 1

\* read takes what there is, which is never in two pages here, and waits when
\* there is nothing.
Read ==
    /\ step = "read" /\ pages # <<>>
    /\ LET there == Head(pages) - taken
           bytes_read == IF there < amount_to_remove THEN there
                         ELSE amount_to_remove
       IN  /\ test' = [test EXCEPT !.count = @ - bytes_read]
           /\ pages' = IF bytes_read = there THEN Tail(pages) ELSE pages
           /\ taken' = IF bytes_read = there THEN 0 ELSE taken + bytes_read
    /\ step' = "alarm"
    /\ UNCHANGED <<prompt, phase, found>>

Next == Alarm \/ Write \/ on_alarm \/ Unset \/ Read

Spec == Init /\ [][Next]_sizeVars

----------------------------------------------------------------------------
(* Properties *)

Full == PageSize * Pages

PipeSizeTypeOK ==
    /\ step \in {"alarm", "write", "unset", "read", "over"}
    /\ phase \in 1 .. 4
    /\ Len(pages) <= Pages /\ \A k \in DOMAIN pages : pages[k] \in 1 .. PageSize
    /\ taken \in 0 .. PageSize - 1
    /\ test.count \in -2 .. Full

\* A run that is never held up prints the capacity of the pipe, cannot write
\* after PIPE_BUF - 1 bytes were read and can after one more.  A run that is
\* held up for four seconds may print too small a number, never one that is
\* too large.
PipeSizeIsTrue ==
    /\ found # <<>> => found[1] <= Full
    /\ prompt /\ step = "over" => found = <<Full, FALSE, TRUE>>
=============================================================================
