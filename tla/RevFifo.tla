------------------------------- MODULE RevFifo -------------------------------
(***************************************************************************)
(* pipes/rev_fifo_1: a server prints what clients write into its public    *)
(* FIFO, and keeps a write end of its own open so that it never comes to   *)
(* the end of it.  A read takes as many messages as fit.                   *)
(***************************************************************************)
EXTENDS Integers, Sequences

CONSTANTS
    FifoClients,     \* send_fifo_1
    ReadSize,        \* messages that fit into the server's buffer
    FifoCapacity,    \* messages for which the FIFO has room
    MaxMessages      \* bound: lines that users type, but for quit

RevFifoAssumption == {ReadSize, FifoCapacity, MaxMessages} \subseteq Nat \ {0}

VARIABLES
    rev,     \* the server: where it is, what it holds open, what it printed
    fifo,    \* its name, what is in it, what was ever put in
    sender   \* for each client where it is

revVars == <<rev, fifo, sender>>

Init ==
    /\ rev = [at |-> "mkfifo", reads |-> FALSE, dummy |-> FALSE,
              count |-> 0, printed |-> <<>>]
    /\ fifo \in [named : BOOLEAN, held : {<<>>}, sent : {<<>>}]
    /\ sender = [c \in FifoClients |-> "start"]

Writing == {c \in FifoClients : sender[c] \in {"prompt", "at end"}}
\* An open for writing waits for a reader, and the reverse.
Opening == {c \in FifoClients : sender[c] = "open"}

----------------------------------------------------------------------------
(* rev_fifo_1 *)

\* A FIFO that an earlier server left is used again.
mkfifo ==
    /\ rev.at = "mkfifo"
    /\ rev' = [rev EXCEPT !.at = "open"]
    /\ fifo' = [fifo EXCEPT !.named = TRUE]
    /\ UNCHANGED sender

OpenForReading ==
    /\ rev.at = "open" /\ Opening # {}
    /\ rev' = [rev EXCEPT !.at = "dummy", !.reads = TRUE]
    /\ sender' = [c \in FifoClients |->
                    IF c \in Opening THEN "prompt" ELSE sender[c]]
    /\ UNCHANGED fifo

OpenDummy ==
    /\ rev.at = "dummy"
    /\ rev' = [rev EXCEPT !.at = "read", !.dummy = TRUE]
    /\ UNCHANGED <<fifo, sender>>

\* Mutant of OpenDummy: the server does without its own write end.
NoDummy ==
    /\ rev.at = "dummy"
    /\ rev' = [rev EXCEPT !.at = "read"]
    /\ UNCHANGED <<fifo, sender>>

Read ==
    LET n == IF Len(fifo.held) < ReadSize THEN Len(fifo.held) ELSE ReadSize
    IN  /\ rev.at = "read"
        /\ \/ /\ n > 0
              /\ rev' = [rev EXCEPT !.count = @ + 1,
                            !.printed = @ \o SubSeq(fifo.held, 1, n)]
              /\ fifo' = [fifo EXCEPT
                            !.held = SubSeq(@, n + 1, Len(@))]
           \/ /\ n = 0 /\ Writing = {} /\ ~rev.dummy
              /\ rev' = [rev EXCEPT !.at = "returned", !.reads = FALSE]
              /\ UNCHANGED fifo
    /\ UNCHANGED sender

\* It may come at any time, also before the descriptors are there to be closed.
\* A client that waits for the FIFO to be opened goes on waiting.
on_signal ==
    /\ rev.at \in {"mkfifo", "open", "dummy", "read"}
    /\ rev' = [rev EXCEPT !.at = "interrupted", !.reads = FALSE,
                          !.dummy = FALSE]
    /\ fifo' = [fifo EXCEPT !.named = FALSE]
    /\ UNCHANGED sender

Server == mkfifo \/ OpenForReading \/ OpenDummy \/ Read

----------------------------------------------------------------------------
(* send_fifo_1 *)

At(c, place) == sender' = [sender EXCEPT ![c] = place]

Open(c) ==
    /\ sender[c] = "start"
    /\ At(c, IF ~fifo.named THEN "gone"
             ELSE IF rev.reads THEN "prompt" ELSE "open")
    /\ UNCHANGED <<rev, fifo>>

\* strncmp looks at the characters that were read, but for the last one: quit,
\* the beginnings of it and an empty line end the client.
Quit(c) ==
    /\ sender[c] = "prompt"
    /\ At(c, "gone")
    /\ UNCHANGED <<rev, fifo>>

\* Any other line is sent, which kills the client if nobody reads.
Write(c) ==
    /\ sender[c] = "prompt"
    /\ Len(fifo.sent) < MaxMessages
    /\ \/ /\ rev.reads /\ Len(fifo.held) < FifoCapacity
          /\ LET message == <<c, Len(fifo.sent)>>
             IN  fifo' = [fifo EXCEPT !.held = Append(@, message),
                                      !.sent = Append(@, message)]
          /\ UNCHANGED sender
       \/ ~rev.reads /\ At(c, "gone") /\ UNCHANGED fifo
    /\ UNCHANGED rev

\* At the end of its input it writes nothing, for ever.
EndOfInput(c) ==
    /\ sender[c] = "prompt"
    /\ At(c, "at end")
    /\ UNCHANGED <<rev, fifo>>

Client(c) == Open(c) \/ Quit(c) \/ Write(c) \/ EndOfInput(c)

Next == Server \/ on_signal \/ \E c \in FifoClients : Client(c)

Spec == Init /\ [][Next]_revVars

----------------------------------------------------------------------------
(* Properties *)

RevFifoTypeOK ==
    /\ rev.count \in 0 .. Len(rev.printed)
    /\ Len(fifo.held) <= FifoCapacity
    /\ sender \in [FifoClients -> {"start", "open", "prompt", "at end", "gone"}]

\* What is printed is what was written, in that order; and the server never
\* comes to the end of its FIFO, as a stream whose sender is never done.
Reader == CASE rev.at = "returned" -> "finished"
            [] rev.at = "interrupted" -> "left"
            [] OTHER -> "reading"
fifoStream == INSTANCE Stream WITH
    sent <- <<fifo.sent>>, received <- <<rev.printed>>,
    sender <- <<"open">>, reader <- <<Reader>>
ImplementsStream == fifoStream!Spec

\* Whatever was written has been printed, unless the server was interrupted.
RevFifoSettled ==
    rev.at # "interrupted" => rev.printed = fifo.sent
=============================================================================
