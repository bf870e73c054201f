------------------------------ MODULE LastLine ------------------------------
(***************************************************************************)
(* do_lastline_mode of misc/simplevi/simplevi.c: the prompt at the bottom  *)
(* of the screen, key by key.  The loop has no bound on the length of the  *)
(* line; here it is MaxCommand.                                            *)
(***************************************************************************)
EXTENDS Integers, Sequences, SequencesExt, ParseLastline

CONSTANT MaxCommand  \* bound: longest line a user types

VARIABLES
    prompt,    \* "open", or how the loop ended: "entered" or "erased"
    tempstr,   \* the line so far
    result     \* what parse_lastline has returned

promptVars == <<prompt, tempstr, result>>

NoResult == [status |-> 0, filename |-> <<>>]

Init ==
    /\ prompt = "open"
    /\ tempstr = <<>>
    /\ result = NoResult

TypeCharacter(c) ==
    /\ prompt = "open"
    /\ Len(tempstr) < MaxCommand
    /\ tempstr' = Append(tempstr, c)
    /\ UNCHANGED <<prompt, result>>

\* Erasing an empty line leaves the prompt; status was never assigned, so the
\* caller gets whatever is there.
Erase ==
    /\ prompt = "open"
    /\ IF tempstr # <<>>
       THEN tempstr' = Front(tempstr) /\ UNCHANGED <<prompt, result>>
       ELSE /\ prompt' = "erased"
            /\ \E garbage \in -1 .. 1 :
                    result' = [status |-> garbage, filename |-> <<>>]
            /\ UNCHANGED tempstr

Enter ==
    /\ prompt = "open"
    /\ prompt' = "entered"
    /\ result' = parse_lastline(tempstr)
    /\ UNCHANGED tempstr

Ended == prompt # "open" /\ UNCHANGED promptVars

do_lastline_mode ==
    \/ \E c \in Characters : TypeCharacter(c)
    \/ Erase
    \/ Enter
    \/ Ended

----------------------------------------------------------------------------
(* Properties *)

LineTypeOK ==
    /\ prompt \in {"open", "entered", "erased"}
    /\ tempstr \in Seq(Characters) /\ Len(tempstr) <= MaxCommand
    /\ result.status \in -1 .. 1
    /\ result.filename \in Seq(NameCharacters)

\* The positions lo .. hi of the line hold blanks only.
Blank(lo, hi) == \A j \in lo .. hi : tempstr[j] = " "

\* The line is a q between blanks.
SaysQuit ==
    \E j \in 1 .. Len(tempstr) :
        tempstr[j] = "q" /\ Blank(1, j - 1) /\ Blank(j + 1, Len(tempstr))

\* Blanks, w and perhaps q, at least one blank, and a name at lo .. hi.
SaysWrite(quits, lo, hi) ==
    \E j \in 1 .. lo - 2 :
        LET end == IF quits THEN j + 1 ELSE j
        IN  /\ Blank(1, j - 1) /\ tempstr[j] = "w"
            /\ quits => tempstr[j + 1] = "q"
            /\ end + 1 < lo
            /\ Blank(end + 1, lo - 1)
            /\ \A n \in lo .. hi : tempstr[n] \in NameCharacters
            /\ hi < Len(tempstr) => tempstr[hi + 1] \notin NameCharacters

\* Nothing but blanks and then at most one character that starts no command:
\* the one mistake that the automaton lets pass, since it ends before the
\* state that would report it.
SaysNothing ==
    /\ Blank(1, Len(tempstr) - 1)
    /\ tempstr = <<>> \/ Last(tempstr) \in {" ", "a", "."}

\* A line that was entered quits if and only if it asks to, saves under the
\* name it gives and only then, and anything else is reported.
CommandsAreObeyed ==
    LET places == 1 .. Len(tempstr)
        bounds == {b \in BOOLEAN \X places \X places :
                       b[2] <= b[3] /\ SaysWrite(b[1], b[2], b[3])}
    IN  prompt = "entered" =>
            /\ \A b \in bounds :
                    result = [status   |-> IF b[1] THEN 1 ELSE 0,
                              filename |-> SubSeq(tempstr, b[2], b[3])]
            /\ SaysQuit => result = [status |-> 1, filename |-> <<>>]
            /\ SaysNothing => result = NoResult
            /\ bounds = {} /\ ~SaysQuit /\ ~SaysNothing
                   => result = [status |-> -1, filename |-> <<>>]
=============================================================================
