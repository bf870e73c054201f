------------------------------ MODULE NonBlock ------------------------------
(***************************************************************************)
(* misc/non_block_demo.c: draws dots until the screen is full or the user  *)
(* says q, and lets the user pause and resume in between.                  *)
(*                                                                         *)
(* `bytecount' is unsigned, so a read that finds nothing and returns -1    *)
(* passes for one that found something: ch, which nothing sets before the  *)
(* first key, is obeyed again in every round.  O_NONBLOCK is a flag of the *)
(* terminal that standard output shares, so a write to it may fail, which  *)
(* the program does not look at.                                           *)
(***************************************************************************)
EXTENDS Integers, Sequences

CONSTANTS
    numrows, numcols,
    MaxKeys    \* bound: keys the user types

ScreenAssumption ==
    /\ numrows \in Nat \ {0}
    /\ numcols \in Nat
    /\ MaxKeys \in Nat

VARIABLES
    step,               \* where main is
    tty,                \* flags of the terminal
    original_state,     \* those that were saved
    flagset,            \* O_NONBLOCK is set for standard input
    count, pause, done, ch,
    screen,             \* dots on it
    typed_keys, keys    \* keys not read yet; how many were typed

nonBlockVars == <<step, tty, original_state, flagset, count, pause, done, ch,
                  screen, typed_keys, keys>>

Keys == {"q", "p", "r", "other"}
Flags == {"ECHO", "ICANON", "ISIG"}
Full == numcols * (numrows - 1)

Init ==
    /\ step = "start"
    /\ tty \in SUBSET Flags
    /\ original_state = {} /\ flagset = FALSE
    /\ count = 0 /\ pause = FALSE /\ done = FALSE
    /\ ch \in Keys
    /\ screen = 0
    /\ typed_keys = <<>> /\ keys = 0

----------------------------------------------------------------------------

\* save_restore_tty(RETRIEVE), modify_termios, set_non_block
Prepare ==
    /\ step = "start"
    /\ original_state' = tty
    /\ tty' = tty \ {"ECHO", "ICANON", "ISIG"}
    /\ flagset' = TRUE
    /\ step' = "draw"
    /\ UNCHANGED <<count, pause, done, ch, screen, typed_keys, keys>>

\* Mutant of Draw: the dot that did not fit stays counted.
DrawAndCount ==
    /\ step = "draw" /\ ~done
    /\ IF pause THEN UNCHANGED <<count, pause, screen>>
       ELSE /\ count' = count + 1
            /\ IF count + 1 > Full
               THEN pause' = TRUE /\ UNCHANGED screen
               ELSE screen' \in {screen, screen + 1} /\ UNCHANGED pause
    /\ step' = "read"
    /\ UNCHANGED <<tty, original_state, flagset, done, ch, typed_keys, keys>>

\* A dot counts whether or not its write succeeds.
Draw ==
    /\ step = "draw" /\ ~done
    /\ CASE pause -> UNCHANGED <<count, pause, screen>>
         [] ~pause /\ count + 1 > Full ->
               pause' = TRUE /\ UNCHANGED <<count, screen>>
         [] OTHER ->
               /\ count' = count + 1 /\ screen' \in {screen, screen + 1}
               /\ UNCHANGED pause
    /\ step' = "read"
    /\ UNCHANGED <<tty, original_state, flagset, done, ch, typed_keys, keys>>

Read ==
    /\ step = "read"
    /\ IF typed_keys = <<>> THEN UNCHANGED <<ch, typed_keys>>
       ELSE ch' = Head(typed_keys) /\ typed_keys' = Tail(typed_keys)
    /\ done' = (ch' = "q")
    /\ pause' = CASE ch' = "p" -> TRUE [] ch' = "r" -> FALSE [] OTHER -> pause
    /\ step' = "draw"
    /\ UNCHANGED <<tty, original_state, flagset, count, screen, keys>>

\* tcflush, save_restore_tty(RESTORE); O_NONBLOCK stays.  The write that clears
\* the screen may fail as well.
CleanUp ==
    /\ step = "draw" /\ done
    /\ typed_keys' = <<>>
    /\ screen' \in {0, screen}
    /\ tty' = original_state
    /\ step' = "exited"
    /\ UNCHANGED <<original_state, flagset, count, pause, done, ch, keys>>

\* Keys typed earlier are there, too.
TypeKey ==
    /\ keys < MaxKeys
    /\ step # "exited"
    /\ \E key \in Keys : typed_keys' = Append(typed_keys, key)
    /\ keys' = keys + 1
    /\ UNCHANGED <<step, tty, original_state, flagset, count, pause, done, ch,
                   screen>>

Next == Prepare \/ Draw \/ Read \/ CleanUp \/ TypeKey

----------------------------------------------------------------------------
(* Properties *)

NonBlockTypeOK ==
    /\ step \in {"start", "draw", "read", "exited"}
    /\ tty \subseteq Flags
    /\ ch \in Keys
    /\ screen \in 0 .. Full

\* Although the last key is obeyed again in every round, so that a full screen
\* can be resumed over and over, the dots stay above the menu's row, and are no
\* more than the menu says; in the end the terminal has its flags back.  Fewer
\* dots than the menu says are there when a write has failed.
ScreenIsKept ==
    /\ step # "exited" => screen <= count /\ count <= Full
    /\ step = "exited" => tty = original_state
=============================================================================
