------------------------------ MODULE Upcase2 ------------------------------
(***************************************************************************)
(* pipes/upcase/upcase_server_2.c and upcase_client_2.c: the second upcase *)
(* service.  A client sends one message through the public FIFO, and the   *)
(* server forks a child that is to serve it through two FIFOs of its own.  *)
(*                                                                         *)
(* The text never gets to the child: `raw_text_fd = open(...) == -1' keeps *)
(* the outcome of the comparison, so the client writes to descriptor 0,    *)
(* and its real write end stays open, unused, until it exits.  The child   *)
(* reads the end of that FIFO and nothing before it, so what its loop does *)
(* with text is left out.  As in Upcase1, the FIFOs that have had the      *)
(* public name are told apart by their generation.                         *)
(***************************************************************************)
EXTENDS Integers, Sequences

CONSTANTS
    Clients,
    MaxTries,        \* MAXTRIES of the client
    PublicCapacity,  \* messages the public FIFO holds
    MaxStarts,       \* bound: how often the server is started
    NoClient

UpcaseAssumption ==
    /\ MaxTries \in Nat \ {0}
    /\ PublicCapacity \in Nat \ {0}
    /\ MaxStarts \in Nat
    /\ NoClient \notin Clients

VARIABLES
    public,      \* generation under the public name, 0 for none
    generation,  \* the latest one
    queue,       \* messages in it: the clients that sent them
    opened,      \* it was opened for writing
    private,     \* clients whose two FIFOs have their names
    \* the parent of the server
    server, msg,         \* where it is, and the message it has read
    server_pid,          \* it has stored its own process id
    handler, pending,    \* on_sigchld is running; SIGCHLD is pending
    \* its children
    child, born,         \* where each is, and the FIFO it has inherited
    \* the clients
    client,              \* where each is
    public_fifo,         \* generation each has open, 0 for none
    raw_text_fd, tries

fifos == <<public, generation, queue, opened, private>>
serverVars == <<server, msg, server_pid, handler, pending>>
childVars == <<child, born>>
clientVars == <<client, public_fifo, raw_text_fd, tries>>
vars == <<fifos, serverVars, childVars, clientVars>>

Each(value) == [c \in Clients |-> value]

Init ==
    /\ public = 0 /\ generation = 0 /\ queue = <<>> /\ opened = FALSE
    /\ private = {}
    /\ server = "down" /\ msg = NoClient /\ server_pid = FALSE
    /\ handler = FALSE /\ pending = FALSE
    /\ child = Each("none") /\ born = Each(0)
    /\ client = Each("start")
    /\ public_fifo = Each(0) /\ raw_text_fd = Each(-1) /\ tries = Each(0)

----------------------------------------------------------------------------
(* Who has which FIFO open: children inherit both ends of the public one *)

Running(c) == child[c] \in {"open", "opening", "reading"}
ParentReads == server \in {"open", "getpid", "read", "fork"}
HasPublicReader(g) ==
    \/ g = generation /\ ParentReads
    \/ \E c \in Clients : Running(c) /\ born[c] = g
Gone(c) == client[c] = "gone"

----------------------------------------------------------------------------
(* The parent *)

StartServer ==
    /\ server = "down"
    /\ generation < MaxStarts
    /\ server' = "mkfifo"
    /\ UNCHANGED <<fifos, msg, server_pid, handler, pending, childVars,
                   clientVars>>

\* "already exists. Delete it and restart."
MakePublic ==
    /\ server = "mkfifo"
    /\ IF public = 0
       THEN /\ generation' = generation + 1
            /\ public' = generation'
            /\ queue' = <<>> /\ opened' = FALSE
            /\ server' = "open"
       ELSE server' = "down" /\ UNCHANGED <<public, generation, queue, opened>>
    /\ UNCHANGED <<private, msg, server_pid, handler, pending, childVars,
                   clientVars>>

\* The open for reading waits for the first client.
OpenPublic ==
    /\ server = "open"
    /\ opened
    /\ server' = "getpid"
    /\ UNCHANGED <<fifos, msg, server_pid, handler, pending, childVars,
                   clientVars>>

StorePid ==
    /\ server = "getpid"
    /\ server_pid' = TRUE
    /\ server' = "read"
    /\ UNCHANGED <<fifos, msg, handler, pending, childVars, clientVars>>

\* There is no end of file: the parent has the write end itself.
ReadMessage ==
    /\ server = "read" /\ ~handler
    /\ queue # <<>>
    /\ msg' = Head(queue) /\ queue' = Tail(queue)
    /\ server' = "fork"
    /\ UNCHANGED <<public, generation, opened, private, server_pid, handler,
                   pending, childVars, clientVars>>

Fork ==
    /\ server = "fork" /\ ~handler
    /\ child' = [child EXCEPT ![msg] = "open"]
    /\ born' = [born EXCEPT ![msg] = generation]
    /\ msg' = NoClient
    /\ server' = "read"
    /\ UNCHANGED <<fifos, server_pid, handler, pending, clientVars>>

Deliver ==
    /\ pending /\ ~handler
    /\ pending' = FALSE /\ handler' = TRUE
    /\ UNCHANGED <<fifos, server, msg, server_pid, childVars, clientVars>>

Reap ==
    /\ handler
    /\ \E c \in Clients :
          child[c] = "zombie" /\ child' = [child EXCEPT ![c] = "reaped"]
    /\ UNCHANGED <<fifos, serverVars, born, clientVars>>

HandlerReturns ==
    /\ handler
    /\ \A c \in Clients : child[c] # "zombie"
    /\ handler' = FALSE
    /\ UNCHANGED <<fifos, server, msg, server_pid, pending, childVars,
                   clientVars>>

on_sigchld == Reap \/ HandlerReturns

\* Only the process whose id is in server_pid removes the public name.
on_signal_server ==
    /\ server # "down"
    /\ server' = "down"
    /\ public' = IF server_pid THEN 0 ELSE public
    /\ queue' = <<>>
    /\ msg' = NoClient /\ server_pid' = FALSE
    /\ handler' = FALSE /\ pending' = FALSE
    /\ child' = [c \in Clients |->
                    IF child[c] = "zombie" THEN "reaped" ELSE child[c]]
    /\ UNCHANGED <<generation, opened, private, born, clientVars>>

Server ==
    \/ MakePublic
    \/ OpenPublic
    \/ StorePid
    \/ ReadMessage
    \/ Fork
    \/ Deliver
    \/ on_sigchld

----------------------------------------------------------------------------
(* The children *)

\* A child whose parent has gone leaves no zombie to it.
ChildEnds(c) ==
    LET has_parent == ParentReads /\ born[c] = generation
    IN  /\ child' = [child EXCEPT ![c] =
                        IF has_parent THEN "zombie" ELSE "reaped"]
        /\ pending' = (pending \/ has_parent)

\* The open waits for a writer: the client opens its end after it has sent
\* the message.
OpenRaw(c) ==
    /\ child[c] = "open"
    /\ IF c \in private
       THEN child' = [child EXCEPT ![c] = "opening"] /\ UNCHANGED pending
       ELSE ChildEnds(c)
    /\ UNCHANGED <<fifos, server, msg, server_pid, handler, born, clientVars>>

\* The client, whose write end was never written to, has exited.
EndOfText(c) ==
    /\ child[c] = "reading"
    /\ Gone(c)
    /\ ChildEnds(c)
    /\ UNCHANGED <<fifos, server, msg, server_pid, handler, born, clientVars>>

Child(c) == OpenRaw(c) \/ EndOfText(c)

\* Mutant of on_signal_child: the name is removed by whoever gets the signal.
UnlinkInChild(c) ==
    /\ Running(c)
    /\ ChildEnds(c)
    /\ public' = 0
    /\ UNCHANGED <<generation, queue, opened, private, server, msg,
                   server_pid, handler, born, clientVars>>

\* The handler a child has inherited: server_pid is not its own id.
on_signal_child(c) ==
    /\ Running(c)
    /\ ChildEnds(c)
    /\ UNCHANGED <<fifos, server, msg, server_pid, handler, born, clientVars>>

----------------------------------------------------------------------------
(* The clients *)

Goto(c, to) == client' = [client EXCEPT ![c] = to]

MakePrivate(c) ==
    /\ client[c] = "start"
    /\ private' = private \union {c}
    /\ Goto(c, "connect")
    /\ UNCHANGED <<public, generation, queue, opened, serverVars, childVars,
                   public_fifo, raw_text_fd, tries>>

\* A client that finds no server leaves its FIFOs behind.
Connect(c) ==
    /\ client[c] = "connect"
    /\ IF public # 0 /\ HasPublicReader(public)
       THEN /\ public_fifo' = [public_fifo EXCEPT ![c] = public]
            /\ opened' = TRUE
            /\ Goto(c, "message")
       ELSE Goto(c, "gone") /\ UNCHANGED <<public_fifo, opened>>
    /\ UNCHANGED <<public, generation, queue, private, serverVars, childVars,
                   raw_text_fd, tries>>

\* clean_up and the handlers: the private names go, whether they exist or not.
clean_up(c) ==
    /\ private' = private \ {c}
    /\ public_fifo' = [public_fifo EXCEPT ![c] = 0]
    /\ Goto(c, "gone")

\* A message in a FIFO that only children have open is never read.
SendMessage(c) ==
    /\ client[c] = "message"
    /\ HasPublicReader(public_fifo[c])
    /\ LET alive == public_fifo[c] = generation /\ ParentReads
       IN  /\ alive => Len(queue) < PublicCapacity
           /\ queue' = IF alive THEN Append(queue, c) ELSE queue
    /\ Goto(c, "raw")
    /\ UNCHANGED <<public, generation, opened, private, serverVars, childVars,
                   public_fifo, raw_text_fd, tries>>

on_sigpipe(c) ==
    /\ client[c] = "message"
    /\ ~HasPublicReader(public_fifo[c])
    /\ clean_up(c)
    /\ UNCHANGED <<public, generation, queue, opened, serverVars, childVars,
                   raw_text_fd, tries>>

\* One call of open: it succeeds when the child waits in its own.  A success
\* after the last delay is taken for a failure.
OpenRawForWriting(c) ==
    /\ client[c] = "raw"
    /\ LET succeeds == child[c] = "opening"
       IN  /\ raw_text_fd' = [raw_text_fd EXCEPT ![c] =
                                 IF succeeds THEN 0 ELSE 1]
           /\ child' = [child EXCEPT ![c] = IF succeeds THEN "reading" ELSE @]
           /\ CASE tries[c] = MaxTries ->
                       clean_up(c) /\ UNCHANGED tries
                [] tries[c] < MaxTries /\ succeeds ->
                       /\ Goto(c, "fgets")
                       /\ UNCHANGED <<private, public_fifo, tries>>
                [] tries[c] < MaxTries /\ ~succeeds ->
                       /\ tries' = [tries EXCEPT ![c] = @ + 1]
                       /\ UNCHANGED <<client, private, public_fifo>>
    /\ UNCHANGED <<public, generation, queue, opened, serverVars, born>>

TypeLine(c) ==
    /\ client[c] = "fgets"
    /\ Goto(c, "write")
    /\ UNCHANGED <<fifos, serverVars, childVars, public_fifo, raw_text_fd,
                   tries>>

\* The text goes to the descriptor raw_text_fd.
WriteChunk(c) ==
    /\ client[c] = "write"
    /\ Goto(c, "reply")
    /\ UNCHANGED <<fifos, serverVars, childVars, public_fifo, raw_text_fd,
                   tries>>

\* The FIFO is opened without waiting and nobody writes to it: the end is
\* all there is to read, and the next piece or line follows.
ReadReply(c) ==
    /\ client[c] = "reply"
    /\ \E next \in {"write", "fgets"} : Goto(c, next)
    /\ UNCHANGED <<fifos, serverVars, childVars, public_fifo, raw_text_fd,
                   tries>>

EndOfInput(c) ==
    /\ client[c] = "fgets"
    /\ clean_up(c)
    /\ UNCHANGED <<public, generation, queue, opened, serverVars, childVars,
                   raw_text_fd, tries>>

on_signal_client(c) ==
    /\ ~Gone(c)
    /\ clean_up(c)
    /\ UNCHANGED <<public, generation, queue, opened, serverVars, childVars,
                   raw_text_fd, tries>>

Client(c) ==
    \/ MakePrivate(c)
    \/ Connect(c)
    \/ SendMessage(c)
    \/ on_sigpipe(c)
    \/ OpenRawForWriting(c)
    \/ WriteChunk(c)
    \/ ReadReply(c)

User(c) == TypeLine(c) \/ EndOfInput(c)

Next ==
    \/ Server
    \/ StartServer
    \/ on_signal_server
    \/ \E c \in Clients :
          Child(c) \/ on_signal_child(c) \/ Client(c) \/ User(c)
          \/ on_signal_client(c)

Spec == Init /\ [][Next]_vars

----------------------------------------------------------------------------
(* Properties *)

TypeOK ==
    /\ public \in {0, generation}
    /\ generation \in 0 .. MaxStarts
    /\ Len(queue) <= PublicCapacity
    /\ server \in {"down", "mkfifo", "open", "getpid", "read", "fork"}
    /\ msg \in Clients \union {NoClient}
    /\ handler \/ pending => server_pid
    /\ child \in [Clients -> {"none", "open", "opening", "reading", "zombie",
                              "reaped"}]
    /\ client \in [Clients -> {"start", "connect", "message", "raw", "fgets",
                               "write", "reply", "gone"}]
    /\ raw_text_fd \in [Clients -> {-1, 0, 1}]
    /\ tries \in [Clients -> 0 .. MaxTries]

\* As long as the server runs, clients find the FIFO it reads under the
\* public name, whatever signals its children get.
NameKept == ParentReads => public = generation

\* Every dead child is waited for, no client tries for ever, and a child ends
\* when its client has, unless the client left while the child was opening
\* the client's FIFO: it waits there for ever for a client that has given up
\* or was interrupted, and for no other.
Settled ==
    \A c \in Clients :
        /\ child[c] # "zombie"
        /\ client[c] # "raw"
        /\ Gone(c) => child[c] \notin {"open", "reading"}
        /\ child[c] = "opening" => Gone(c)

\* "remove the public FIFO and exits" (upcase_server_2.c:39): a server that
\* was interrupted leaves no public name.
PublicRemoved == server = "down" => public = 0
=============================================================================
