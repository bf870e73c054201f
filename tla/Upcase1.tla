------------------------------ MODULE Upcase1 ------------------------------
(***************************************************************************)
(* pipes/upcase/upcase_server_1.c and upcase_client_1.c: clients send      *)
(* pieces of text through one public FIFO to a server, which sends each    *)
(* piece back in upper case through the private FIFO of its client.        *)
(*                                                                         *)
(* A line of text is its length, a character its position in the line; the *)
(* conversion to upper case keeps positions and is left out.  A FIFO       *)
(* exists apart from its name: `generation' tells the FIFOs apart that     *)
(* were created one after another under the public name.  As in Linux, an  *)
(* open for reading counts as a reader while it still waits for a writer.  *)
(***************************************************************************)
EXTENDS Integers, SequencesExt

CONSTANTS
    Clients,
    MaxTries,        \* MAX_TRIES of the server
    HalfPipeBuf,     \* HALF_PIPE_BUF
    MaxLine,         \* bound: longest line a user types
    LineLengths,     \* bound: lengths of the lines that users type
    PublicCapacity,  \* messages the public FIFO holds
    MaxStarts,       \* bound: how often the server is started
    NoClient

ASSUME SizesAssumption ==
    /\ MaxTries \in Nat \ {0}
    /\ HalfPipeBuf \in Nat /\ HalfPipeBuf >= 2
    /\ MaxLine \in Nat /\ LineLengths \subseteq 1 .. MaxLine
    /\ PublicCapacity \in Nat \ {0}
    /\ MaxStarts \in Nat
    /\ NoClient \notin Clients

VARIABLES
    \* the file system and its FIFOs
    public,        \* generation under the public name, 0 for none
    generation,    \* the latest one
    queue,         \* messages in the public FIFO
    opened,        \* it was opened for writing since it was created
    private_name,  \* clients whose private FIFO has a name
    private,       \* text in each private FIFO
    \* the server
    server,        \* where it is
    dummy,         \* it holds the write end of the public FIFO itself
    msg,           \* the message it is working on
    tries,
    starts,
    abandoned,     \* clients it has given up on
    \* the clients
    pc,            \* where each is
    public_fd,     \* generation each has open for writing, 0 for none
    line,          \* text_buf: length of the line in it
    n_chunk,
    out,           \* history: what the client printed of its line
    sig_received,
    restart        \* SA_RESTART is among the flags, which nothing sets

fifos == <<public, generation, queue, opened, private_name, private>>
serverVars == <<server, dummy, msg, tries, starts, abandoned>>
clientVars == <<pc, public_fd, line, n_chunk, out, sig_received, restart>>
vars == <<fifos, serverVars, clientVars>>

NoMessage == [client |-> NoClient, text |-> <<>>]

Init ==
    /\ public = 0 /\ generation = 0 /\ queue = <<>> /\ opened = FALSE
    /\ private_name = {}
    /\ private = [c \in Clients |-> <<>>]
    /\ server = "down" /\ dummy = FALSE /\ msg = NoMessage
    /\ tries = 0 /\ starts = 0 /\ abandoned = {}
    /\ pc = [c \in Clients |-> "mkfifo"]
    /\ public_fd = [c \in Clients |-> 0]
    /\ line = [c \in Clients |-> 0]
    /\ n_chunk = [c \in Clients |-> 0]
    /\ out = [c \in Clients |-> <<>>]
    /\ sig_received = [c \in Clients |-> FALSE]
    /\ restart \in [Clients -> BOOLEAN]

----------------------------------------------------------------------------
(* Who has which end of a FIFO open *)

ServerReads == server \in {"open", "read", "try", "write", "close"}
HasPublicReader(g) == ServerReads /\ g = generation
ServerWritesTo(c) == server \in {"write", "close"} /\ msg.client = c
ClientReads(c) == pc[c] \in {"opening", "reading"}

\* What is left in a private FIFO when the server lets go of its end.
AfterServer(c) == IF ClientReads(c) THEN private[c] ELSE <<>>

----------------------------------------------------------------------------
(* The server *)

StartServer ==
    /\ server = "down"
    /\ starts < MaxStarts
    /\ server' = "mkfifo"
    /\ starts' = starts + 1
    /\ UNCHANGED <<fifos, dummy, msg, tries, abandoned, clientVars>>

MakePublic ==
    /\ server = "mkfifo"
    /\ IF public = 0
       THEN /\ generation' = generation + 1
            /\ public' = generation'
            /\ queue' = <<>> /\ opened' = FALSE
            /\ server' = "open"
       ELSE server' = "down" /\ UNCHANGED <<public, generation, queue, opened>>
    /\ UNCHANGED <<private_name, private, dummy, msg, tries, starts,
                   abandoned, clientVars>>

\* Mutant of OpenPublic: the server does not open the write end.
OpenReadEndOnly ==
    /\ server = "open"
    /\ opened
    /\ server' = "read"
    /\ UNCHANGED <<fifos, dummy, msg, tries, starts, abandoned, clientVars>>

\* The open for reading waits for the first writer; the open for writing
\* does not wait.
OpenPublic ==
    /\ server = "open"
    /\ opened
    /\ server' = "read"
    /\ dummy' = TRUE
    /\ UNCHANGED <<fifos, msg, tries, starts, abandoned, clientVars>>

ReadMessage ==
    /\ server = "read"
    /\ IF queue # <<>>
       THEN /\ msg' = Head(queue) /\ queue' = Tail(queue)
            /\ tries' = 0
            /\ server' = "try"
       ELSE \* end of file, which ends the main loop
            /\ ~dummy /\ \A c \in Clients : public_fd[c] # generation
            /\ server' = "ended"
            /\ UNCHANGED <<msg, queue, tries>>
    /\ UNCHANGED <<public, generation, opened, private_name, private, dummy,
                   starts, abandoned, clientVars>>

\* Mutants of OpenPrivate: one try too many; tries that are not counted.
OpenPrivateOnceMore ==
    /\ server = "try"
    /\ LET c == msg.client
       IN  IF c \in private_name /\ ClientReads(c)
           THEN /\ server' = "write"
                /\ pc' = [pc EXCEPT ![c] = "reading"]
                /\ UNCHANGED <<tries, abandoned>>
           ELSE /\ tries' = tries + 1
                /\ server' = IF tries < MaxTries THEN "try" ELSE "read"
                /\ abandoned' = IF tries < MaxTries THEN abandoned
                                ELSE abandoned \union {c}
                /\ UNCHANGED pc
    /\ UNCHANGED <<fifos, dummy, msg, starts, public_fd, line, n_chunk, out,
                   sig_received, restart>>

OpenPrivateUncounted ==
    /\ server = "try"
    /\ IF msg.client \in private_name /\ ClientReads(msg.client)
       THEN /\ server' = "write"
            /\ pc' = [pc EXCEPT ![msg.client] = "reading"]
       ELSE UNCHANGED <<server, pc>>
    /\ UNCHANGED <<fifos, dummy, msg, tries, abandoned, starts, public_fd,
                   line, n_chunk, out, sig_received, restart>>

\* The open for writing succeeds when the client has its private FIFO open
\* or is opening it, which it then has done.
OpenPrivate ==
    /\ server = "try"
    /\ LET c == msg.client
       IN  IF c \in private_name /\ ClientReads(c)
           THEN /\ server' = "write"
                /\ pc' = [pc EXCEPT ![c] = "reading"]
                /\ UNCHANGED <<tries, abandoned>>
           ELSE /\ tries' = tries + 1
                /\ server' = IF tries' < MaxTries THEN "try" ELSE "read"
                /\ abandoned' = IF tries' < MaxTries THEN abandoned
                                ELSE abandoned \union {c}
                /\ UNCHANGED pc
    /\ UNCHANGED <<fifos, dummy, msg, starts, public_fd, line, n_chunk, out,
                   sig_received, restart>>

\* With no reader left the write fails with EPIPE; the server goes on.
WritePrivate ==
    /\ server = "write"
    /\ private' = IF ClientReads(msg.client)
                  THEN [private EXCEPT ![msg.client] = @ \o msg.text]
                  ELSE private
    /\ server' = "close"
    /\ UNCHANGED <<public, generation, queue, opened, private_name, dummy,
                   msg, tries, starts, abandoned, clientVars>>

ClosePrivate ==
    /\ server = "close"
    /\ private' = [private EXCEPT ![msg.client] = AfterServer(msg.client)]
    /\ server' = "read"
    /\ UNCHANGED <<public, generation, queue, opened, private_name, dummy,
                   msg, tries, starts, abandoned, clientVars>>

\* on_signal removes the public name; a kill that cannot be caught does not.
EndServer(cleanup) ==
    /\ server # "down"
    /\ server' = "down"
    /\ dummy' = FALSE
    /\ queue' = <<>>
    /\ public' = IF cleanup THEN 0 ELSE public
    /\ private' = [c \in Clients |-> IF ServerWritesTo(c) THEN AfterServer(c)
                                                          ELSE private[c]]
    /\ msg' = NoMessage
    /\ tries' = 0
    /\ UNCHANGED <<generation, opened, private_name, starts, abandoned,
                   clientVars>>

on_signal_server == EndServer(TRUE)
ServerKilled == EndServer(FALSE)

Server ==
    \/ MakePublic
    \/ OpenPublic
    \/ ReadMessage
    \/ OpenPrivate
    \/ WritePrivate
    \/ ClosePrivate

----------------------------------------------------------------------------
(* The clients *)

Goto(c, to) == pc' = [pc EXCEPT ![c] = to]

\* The text of the piece at offset n of a line: HALF_PIPE_BUF - 1 characters.
Chunk(length, n) ==
    LET end == IF n + HalfPipeBuf - 1 < length THEN n + HalfPipeBuf - 1
                                               ELSE length
    IN  [j \in 1 .. end - n |-> n + j]

MakePrivate(c) ==
    /\ pc[c] = "mkfifo"
    /\ private_name' = private_name \union {c}
    /\ Goto(c, "connect")
    /\ UNCHANGED <<public, generation, queue, opened, private, serverVars,
                   public_fd, line, n_chunk, out, sig_received, restart>>

\* A client that finds no server leaves its private FIFO behind.
Connect(c) ==
    /\ pc[c] = "connect"
    /\ IF public # 0 /\ HasPublicReader(public)
       THEN /\ public_fd' = [public_fd EXCEPT ![c] = public]
            /\ opened' = TRUE
            /\ Goto(c, "prompt")
       ELSE Goto(c, "gone") /\ UNCHANGED <<public_fd, opened>>
    /\ UNCHANGED <<public, generation, queue, private_name, private,
                   serverVars, line, n_chunk, out, sig_received, restart>>

CleanUp(c) ==
    /\ public_fd' = [public_fd EXCEPT ![c] = 0]
    /\ private_name' = private_name \ {c}
    /\ Goto(c, "gone")
    /\ UNCHANGED <<public, generation, queue, opened, private, serverVars,
                   line, n_chunk, out, sig_received, restart>>

Prompt(c) ==
    /\ pc[c] = "prompt"
    /\ ~sig_received[c]
    /\ Goto(c, "fgets")
    /\ UNCHANGED <<fifos, serverVars, public_fd, line, n_chunk, out,
                   sig_received, restart>>

QuitOnSignal(c) == pc[c] = "prompt" /\ sig_received[c] /\ CleanUp(c)

\* The user types "quit" or an empty line.
Quit(c) == pc[c] = "fgets" /\ CleanUp(c)

\* The loop over the pieces of the line in text_buf, of length len.
BeginLine(c, len) ==
    /\ line' = [line EXCEPT ![c] = len]
    /\ n_chunk' = [n_chunk EXCEPT ![c] = 0]
    /\ out' = [out EXCEPT ![c] = <<>>]
    /\ Goto(c, IF len > 0 THEN "send" ELSE "prompt")

TypeLine(c) ==
    /\ pc[c] = "fgets"
    /\ \E len \in LineLengths : BeginLine(c, len)
    /\ UNCHANGED <<fifos, serverVars, public_fd, sig_received, restart>>

\* At the end of the input fgets leaves the previous line where it is.
EndOfInput(c) ==
    /\ pc[c] = "fgets"
    /\ BeginLine(c, line[c])
    /\ UNCHANGED <<fifos, serverVars, public_fd, sig_received, restart>>

\* Without a reader SIGPIPE ends the client: on_sigpipe is never installed.
Send(c) ==
    /\ pc[c] = "send"
    /\ IF HasPublicReader(public_fd[c])
       THEN /\ Len(queue) < PublicCapacity
            /\ queue' = Append(queue, [client |-> c,
                                       text |-> Chunk(line[c], n_chunk[c])])
            /\ Goto(c, "openPrivate")
            /\ UNCHANGED public_fd
       ELSE /\ Goto(c, "gone")
            /\ public_fd' = [public_fd EXCEPT ![c] = 0]
            /\ UNCHANGED queue
    /\ UNCHANGED <<public, generation, opened, private_name, private,
                   serverVars, line, n_chunk, out, sig_received, restart>>

\* The open for reading waits until there is a writer.
OpenForReply(c) ==
    /\ pc[c] = "openPrivate"
    /\ Goto(c, IF ServerWritesTo(c) THEN "reading" ELSE "opening")
    /\ UNCHANGED <<fifos, serverVars, public_fd, line, n_chunk, out,
                   sig_received, restart>>

ReadReply(c) ==
    /\ pc[c] = "reading"
    /\ private[c] # <<>>
    /\ out' = [out EXCEPT ![c] = @ \o private[c]]
    /\ private' = [private EXCEPT ![c] = <<>>]
    /\ UNCHANGED <<public, generation, queue, opened, private_name,
                   serverVars, pc, public_fd, line, n_chunk, sig_received,
                   restart>>

\* The end of the reading loop: close, and on to the next piece.
NextChunk(c) ==
    /\ private' = [private EXCEPT ![c] = IF ServerWritesTo(c) THEN @ ELSE <<>>]
    /\ n_chunk' = [n_chunk EXCEPT ![c] = @ + HalfPipeBuf]
    /\ Goto(c, IF n_chunk'[c] < line[c] THEN "send" ELSE "prompt")
    /\ UNCHANGED <<public, generation, queue, opened, private_name,
                   serverVars, public_fd, line, out, restart>>

\* Mutant of EndOfReply: the read does not wait for the server to close.
EndOfReplyNonBlocking(c) ==
    /\ pc[c] = "reading"
    /\ private[c] = <<>>
    /\ NextChunk(c)
    /\ UNCHANGED sig_received

EndOfReply(c) ==
    /\ pc[c] = "reading"
    /\ private[c] = <<>>
    /\ ~ServerWritesTo(c)
    /\ NextChunk(c)
    /\ UNCHANGED sig_received

\* A signal sets the flag.  Unless calls are restarted it also makes the call
\* the client is blocked in fail: fgets keeps the previous line, the open ends
\* the client, the read looks like the end of the reply, the write is lost.
Signal(c) ==
    /\ pc[c] # "gone"
    /\ sig_received' = [sig_received EXCEPT ![c] = TRUE]
    /\ \/ /\ \/ restart[c]
             \/ pc[c] \in {"mkfifo", "connect", "prompt", "openPrivate"}
             \/ pc[c] = "send" /\ Len(queue) < PublicCapacity
             \/ pc[c] = "reading" /\ (private[c] # <<>> \/ ~ServerWritesTo(c))
          /\ UNCHANGED <<fifos, serverVars, pc, public_fd, line, n_chunk, out,
                         restart>>
       \/ /\ ~restart[c] /\ pc[c] = "fgets"
          /\ BeginLine(c, line[c])
          /\ UNCHANGED <<fifos, serverVars, public_fd, restart>>
       \/ /\ ~restart[c] /\ pc[c] = "opening"
          /\ Goto(c, "gone")
          /\ public_fd' = [public_fd EXCEPT ![c] = 0]
          /\ UNCHANGED <<fifos, serverVars, line, n_chunk, out, restart>>
       \/ /\ ~restart[c] /\ pc[c] = "reading"
          /\ private[c] = <<>> /\ ServerWritesTo(c)
          /\ NextChunk(c)
       \/ /\ ~restart[c] /\ pc[c] = "send"
          /\ HasPublicReader(public_fd[c]) /\ Len(queue) = PublicCapacity
          /\ Goto(c, "openPrivate")
          /\ UNCHANGED <<fifos, serverVars, public_fd, line, n_chunk, out,
                         restart>>

Client(c) ==
    \/ MakePrivate(c)
    \/ Connect(c)
    \/ Prompt(c)
    \/ QuitOnSignal(c)
    \/ Send(c)
    \/ OpenForReply(c)
    \/ ReadReply(c)
    \/ EndOfReply(c)

User(c) == TypeLine(c) \/ EndOfInput(c) \/ Quit(c)

Next ==
    \/ Server
    \/ StartServer
    \/ on_signal_server
    \/ ServerKilled
    \/ \E c \in Clients : Client(c) \/ User(c) \/ Signal(c)

Spec == Init /\ [][Next]_vars

\* The two programs run; nobody has to start the server, type or interrupt.
FairSpec ==
    /\ Spec
    /\ WF_vars(Server)
    /\ \A c \in Clients : WF_vars(Client(c))

----------------------------------------------------------------------------
(* Properties *)

Texts == {Chunk(len, n) : len \in 1 .. MaxLine, n \in 0 .. MaxLine - 1}
Messages == [client : Clients, text : Texts]

TypeOK ==
    /\ public \in {0, generation}
    /\ generation \in 0 .. MaxStarts
    /\ Len(queue) <= PublicCapacity
    /\ \A j \in DOMAIN queue : queue[j] \in Messages
    /\ msg \in Messages \union {NoMessage}
    /\ tries \in 0 .. MaxTries
    /\ server \in {"down", "mkfifo", "open", "read", "try", "write", "close"}
    /\ pc \in [Clients -> {"mkfifo", "connect", "prompt", "fgets", "send",
                           "openPrivate", "opening", "reading", "gone"}]
    /\ line \in [Clients -> 0 .. MaxLine]
    /\ public_fd \in [Clients -> 0 .. MaxStarts]

\* "It will loop forever because it will never receive an end-of-file"
\* (upcase_server_1.c:19): from the mkfifo of a server to its end by a signal,
\* whoever connects gets in, however many clients have come and gone before.
\* The public name is that of the FIFO the server reads, and the server does
\* not leave its loop when the last client leaves the FIFO.
ServiceIsOpen ==
    server \notin {"down", "mkfifo"} => public # 0 /\ HasPublicReader(public)

\* The text a client prints is made of the pieces it has sent of its line so
\* far, in their order, each at most once: replies do not cross between
\* clients, and a reply that comes late is not taken for the next one.  Only
\* a server that is stopped can leave a piece out.
Sent(c) == {n \in 0 .. n_chunk[c] - 1 : n % HalfPipeBuf = 0}
Expected(c) ==
    UNION {ToSet(Chunk(line[c], n)) : n \in Sent(c)}
RepliesMatch ==
    \A c \in Clients :
        restart[c] /\ pc[c] \in {"send", "prompt"} =>
            /\ ToSet(out[c]) \subseteq Expected(c)
            /\ \A j \in 1 .. Len(out[c]) - 1 : out[c][j] < out[c][j + 1]
            /\ starts = 1 /\ server # "down" => ToSet(out[c]) = Expected(c)

\* A client that waits for the reply of a running server gets to the end of it,
\* unless the server is stopped or has given up on this client, whoever else
\* it has given up on; signals must not break the client's calls, for an
\* interrupted write leaves it waiting for ever.
WaitingEnds ==
    \A c \in Clients :
        pc[c] = "opening" /\ restart[c] /\ HasPublicReader(public_fd[c])
            ~> pc[c] # "opening" \/ c \in abandoned \/ server = "down"

\* "gets the next HALF_PIPE_BUF -1 sized chunk in the input text"
\* (upcase_client_1.c:10): when a client has gone through a line undisturbed,
\* by a server that runs since it was started first and has not given it up,
\* it has printed every character of the line.
WholeLineConverted ==
    \A c \in Clients :
        /\ pc[c] = "prompt" /\ restart[c]
        /\ starts = 1 /\ server # "down" /\ abandoned = {}
        => Len(out[c]) = line[c]
=============================================================================
