--------------------------- MODULE ParseLastline ---------------------------
(***************************************************************************)
(* parse_lastline of misc/simplevi/simplevi.c: the automaton that reads    *)
(* what the user has typed after the colon.  A character is a blank, w, q, *)
(* another letter, digit or underscore ("a"), or anything else (".").      *)
(***************************************************************************)
EXTENDS Integers, Sequences, SequencesExt

NameCharacters == {"w", "q", "a"}
Characters == NameCharacters \union {" ", "."}

\* What the code's return statements in the middle of the loop, and its flag
\* done, come to: states that the rest of the string does not leave.
Rejected == 8
Done == 9

\* Mutant of Goes: no blank is needed between the command and the name.
GoesAtOnce(state, ch) ==
    CASE state = 1 -> IF ch = " " THEN 1
                      ELSE IF ch = "w" THEN 2 ELSE IF ch = "q" THEN 7 ELSE 5
      [] state = 2 -> IF ch = "q" THEN 3
                      ELSE IF ch \in NameCharacters THEN 6 ELSE 4
      [] state = 3 -> IF ch = " " THEN 4 ELSE 5
      [] state = 4 -> IF ch = " " THEN 4
                      ELSE IF ch \in NameCharacters THEN 6 ELSE 5
      [] state = 6 -> IF ch \in NameCharacters THEN 6 ELSE Done
      [] state = 7 -> IF ch = " " THEN 7 ELSE Rejected
      [] state \in {5, Rejected} -> Rejected
      [] state = Done -> Done

Goes(state, ch) ==
    CASE state = 1 -> IF ch = " " THEN 1
                      ELSE IF ch = "w" THEN 2 ELSE IF ch = "q" THEN 7 ELSE 5
      [] state = 2 -> IF ch = "q" THEN 3 ELSE IF ch = " " THEN 4 ELSE 5
      [] state = 3 -> IF ch = " " THEN 4 ELSE 5
      [] state = 4 -> IF ch = " " THEN 4
                      ELSE IF ch \in NameCharacters THEN 6 ELSE 5
      [] state = 6 -> IF ch \in NameCharacters THEN 6 ELSE Done
      [] state = 7 -> IF ch = " " THEN 7 ELSE Rejected
      [] state \in {5, Rejected} -> Rejected
      [] state = Done -> Done

Read(p, ch) ==
    LET state == Goes(p.state, ch)
    IN  [state      |-> state,
         foundwrite |-> p.foundwrite \/ state = 2,
         foundquit  |-> p.foundquit \/ state \in {3, 7},
         filename   |-> IF state = 6 THEN Append(p.filename, ch)
                                     ELSE p.filename]

Begin == [state |-> 1, foundwrite |-> FALSE, foundquit |-> FALSE,
          filename |-> <<>>]

\* The value returned, and the name under which the buffer is saved, if any.
parse_lastline(str) ==
    LET p == FoldLeft(Read, Begin, str)
        error == \/ p.state = Rejected
                 \/ p.foundwrite /\ p.filename = <<>>
    IN  [status   |-> IF error THEN -1 ELSE IF p.foundquit THEN 1 ELSE 0,
         filename |-> IF error THEN <<>> ELSE p.filename]
=============================================================================
