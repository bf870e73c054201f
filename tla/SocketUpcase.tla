---------------------------- MODULE SocketUpcase ----------------------------
(***************************************************************************)
(* sockets/upcase/sock_demo_server_3.c and sock_demo_client_3.c: a server  *)
(* that forks a child for each connection, which sends back in upper case  *)
(* what it reads, and clients that wait with select for their user and     *)
(* their socket at once.                                                   *)
(*                                                                         *)
(* A line is its number; turning it to upper case is left out, and so are  *)
(* the smaller pieces a line may travel in.  The server listens before the *)
(* first client connects.  Children may be killed; other processes not.    *)
(*                                                                         *)
(* The server takes PORT for a number in network order, the client for one *)
(* in the order of the machine, so they meet only where these are the same.*)
(***************************************************************************)
EXTENDS Integers, SequencesExt

CONSTANTS
    SocketClients,
    ListenQueueSize,  \* LISTEN_QUEUE_SIZE
    SocketCapacity,   \* lines a direction of a connection holds
    MaxTyped,         \* bound: lines that all users together type
    MaxKilled,        \* bound: children that are killed
    NoConnection

SocketAssumption ==
    /\ ListenQueueSize \in Nat \ {0}
    /\ SocketCapacity \in Nat \ {0}
    /\ MaxTyped \in Nat
    /\ MaxKilled \in Nat
    /\ NoConnection \notin SocketClients

VARIABLES
    network_order,  \* the order of bytes of this machine is the network's
    \* the parent
    server,        \* where it is
    conn_fd,       \* the connection it has just accepted
    handler,       \* on_sigchld is running, and so main is not
    pending,       \* SIGCHLD is pending
    \* the connections
    backlog,       \* those that wait to be accepted
    held,          \* those of which the parent has the server's end
    requests, replies,  \* lines on their way
    reset,         \* those the server closed on unread or later lines
    \* the children
    child, line,   \* where each is, and the lines it is working on
    killed,        \* history: those that did not end by themselves
    \* the clients
    client,        \* where each is
    typed,         \* lines in the kernel that stdin has not read
    buffered,      \* lines that fgets has read from the kernel for later
    ended,         \* its user has ended the input
    stdin_oef, read_set, send_line,  \* locals
    entered, printed  \* history: how much was typed, what was printed

serverVars == <<network_order, server, conn_fd, handler, pending>>
connections == <<backlog, held, requests, replies, reset>>
childVars == <<child, line, killed>>
stdinVars == <<typed, buffered, ended, entered>>
clientVars == <<client, stdin_oef, read_set, send_line, printed>>
vars == <<serverVars, connections, childVars, stdinVars, clientVars>>

NoLine == 0
Each(value) == [c \in SocketClients |-> value]

Init ==
    /\ network_order \in BOOLEAN
    /\ server = "accept" /\ conn_fd = NoConnection
    /\ handler = FALSE /\ pending = FALSE
    /\ backlog = <<>> /\ held = {} /\ reset = {}
    /\ requests = Each(<<>>) /\ replies = Each(<<>>)
    /\ child = Each("none") /\ line = Each(<<>>) /\ killed = {}
    /\ client = Each("connect")
    /\ typed = Each(<<>>) /\ buffered = Each(<<>>) /\ ended = {}
    /\ stdin_oef = Each(FALSE) /\ read_set = Each({})
    /\ send_line = Each(NoLine)
    /\ entered = Each(0) /\ printed = Each(<<>>)

----------------------------------------------------------------------------
(* Who has an end of a connection open *)

ServerEndOpen(c) == c \in held \/ child[c] \in {"read", "write"}
ClientGone(c) == client[c] \in {"returned", "failed"}
WritesEnded(c) == ClientGone(c) \/ stdin_oef[c]  \* shutdown(SHUT_WR)

\* A connection whose last end in the server is closed while a line is unread
\* is reset.
Resets(c) == IF requests[c] # <<>> THEN {c} ELSE {}

----------------------------------------------------------------------------
(* The parent *)

Accept ==
    /\ server = "accept" /\ ~handler
    /\ backlog # <<>>
    /\ conn_fd' = Head(backlog) /\ backlog' = Tail(backlog)
    /\ server' = "fork"
    /\ UNCHANGED <<network_order, handler, pending, held, requests, replies,
                   reset, childVars, stdinVars, clientVars>>

Fork ==
    /\ server = "fork" /\ ~handler
    /\ child' = [child EXCEPT ![conn_fd] = "read"]
    /\ server' = "close"
    /\ UNCHANGED <<network_order, conn_fd, handler, pending, connections,
                   line, killed, stdinVars, clientVars>>

CloseConnection ==
    /\ server = "close" /\ ~handler
    /\ held' = held \ {conn_fd}
    /\ reset' = IF child[conn_fd] \in {"read", "write"} THEN reset
                ELSE reset \union Resets(conn_fd)
    /\ server' = "accept" /\ conn_fd' = NoConnection
    /\ UNCHANGED <<network_order, handler, pending, backlog, requests,
                   replies, childVars, stdinVars, clientVars>>

----------------------------------------------------------------------------
(* on_sigchld: the signal is blocked while its handler runs, and accept is   *)
(* started again afterwards                                                  *)

Deliver ==
    /\ pending /\ ~handler
    /\ pending' = FALSE /\ handler' = TRUE
    /\ UNCHANGED <<network_order, server, conn_fd, connections, childVars,
                   stdinVars, clientVars>>

\* Mutant of Reap: waitpid is called once.
ReapOnce ==
    /\ handler
    /\ \E c \in SocketClients :
          child[c] = "zombie" /\ child' = [child EXCEPT ![c] = "reaped"]
    /\ handler' = FALSE
    /\ UNCHANGED <<network_order, server, conn_fd, pending, connections,
                   line, killed, stdinVars, clientVars>>

Reap ==
    /\ handler
    /\ \E c \in SocketClients :
          child[c] = "zombie" /\ child' = [child EXCEPT ![c] = "reaped"]
    /\ UNCHANGED <<serverVars, connections, line, killed, stdinVars,
                   clientVars>>

\* waitpid with WNOHANG finds no zombie.
HandlerReturns ==
    /\ handler
    /\ \A c \in SocketClients : child[c] # "zombie"
    /\ handler' = FALSE
    /\ UNCHANGED <<network_order, server, conn_fd, pending, connections,
                   childVars, stdinVars, clientVars>>

on_sigchld == Reap \/ HandlerReturns

Server == Accept \/ Fork \/ CloseConnection \/ Deliver \/ on_sigchld

----------------------------------------------------------------------------
(* The children: str_echo *)

ReadRequest(c) ==
    /\ child[c] = "read"
    /\ \E n \in 1 .. Len(requests[c]) :
          /\ line' = [line EXCEPT ![c] = SubSeq(requests[c], 1, n)]
          /\ requests' = [requests EXCEPT ![c] =
                             SubSeq(@, n + 1, Len(@))]
    /\ child' = [child EXCEPT ![c] = "write"]
    /\ UNCHANGED <<serverVars, backlog, held, replies, reset, killed,
                   stdinVars, clientVars>>

ChildEnds(c) ==
    /\ child' = [child EXCEPT ![c] = "zombie"]
    /\ line' = [line EXCEPT ![c] = <<>>]
    /\ pending' = TRUE
    /\ reset' = IF c \in held THEN reset ELSE reset \union Resets(c)
    /\ UNCHANGED <<network_order, server, conn_fd, handler, backlog, held,
                   requests, replies, stdinVars, clientVars>>

\* read returns 0 when the client has shut its side down.
EndOfRequests(c) ==
    /\ child[c] = "read"
    /\ requests[c] = <<>> /\ WritesEnded(c)
    /\ ChildEnds(c)
    /\ UNCHANGED killed

\* write waits for room for each line.
WriteReply(c) ==
    /\ child[c] = "write"
    /\ ~ClientGone(c)
    /\ Len(replies[c]) < SocketCapacity
    /\ replies' = [replies EXCEPT ![c] = Append(@, Head(line[c]))]
    /\ line' = [line EXCEPT ![c] = Tail(@)]
    /\ child' = [child EXCEPT ![c] = IF line'[c] = <<>> THEN "read" ELSE @]
    /\ UNCHANGED <<serverVars, backlog, held, requests, reset, killed,
                   stdinVars, clientVars>>

str_echo(c) == ReadRequest(c) \/ WriteReply(c) \/ EndOfRequests(c)

\* Somebody kills a child.
Kill(c) ==
    /\ child[c] \in {"read", "write"}
    /\ Cardinality(killed) < MaxKilled
    /\ killed' = killed \union {c}
    /\ ChildEnds(c)

----------------------------------------------------------------------------
(* The clients *)

Goto(c, to) == client' = [client EXCEPT ![c] = to]

Connect(c) ==
    /\ client[c] = "connect"
    /\ network_order
    /\ Len(backlog) < ListenQueueSize
    /\ backlog' = Append(backlog, c)
    /\ held' = held \union {c}
    /\ Goto(c, "select")
    /\ UNCHANGED <<serverVars, requests, replies, reset, childVars,
                   stdinVars, stdin_oef, read_set, send_line, printed>>

\* "Could not connect": nobody listens at the port the client asks for.
CouldNotConnect(c) ==
    /\ client[c] = "connect"
    /\ ~network_order
    /\ Goto(c, "failed")
    /\ UNCHANGED <<serverVars, connections, childVars, stdinVars, stdin_oef,
                   read_set, send_line, printed>>

\* fgets may hold lines that select, which asks the kernel, does not see.
Readable(c) ==
    (IF replies[c] # <<>> \/ c \in reset \/ ~ServerEndOpen(c)
     THEN {"socket"} ELSE {})
    \union
    (IF ~stdin_oef[c] /\ (typed[c] # <<>> \/ c \in ended)
     THEN {"stdin"} ELSE {})

\* The socket comes first; what became readable since is not looked at.
Select(c) ==
    /\ client[c] = "select"
    /\ Readable(c) # {}
    /\ read_set' = [read_set EXCEPT ![c] = Readable(c)]
    /\ Goto(c, IF "socket" \in Readable(c) THEN "socket" ELSE "stdin")
    /\ UNCHANGED <<serverVars, connections, childVars, stdinVars, stdin_oef,
                   send_line, printed>>

AfterSocket(c) ==
    /\ Goto(c, IF "stdin" \in read_set[c] THEN "stdin" ELSE "select")
    /\ read_set' = [read_set EXCEPT ![c] = {}]

ReadSocket(c) ==
    /\ client[c] = "socket"
    /\ c \notin reset
    /\ \E n \in 1 .. Len(replies[c]) :
          /\ printed' = [printed EXCEPT ![c] =
                            @ \o SubSeq(replies[c], 1, n)]
          /\ replies' = [replies EXCEPT ![c] = SubSeq(@, n + 1, Len(@))]
    /\ AfterSocket(c)
    /\ UNCHANGED <<serverVars, backlog, held, requests, reset, childVars,
                   stdinVars, stdin_oef, send_line>>

\* read fails once, which the client takes for a length: it prints what
\* recv_line still holds, whatever that is.
ReadReset(c) ==
    /\ client[c] = "socket"
    /\ c \in reset
    /\ printed' = [printed EXCEPT ![c] = Append(@, 0)]
    /\ replies' = [replies EXCEPT ![c] = <<>>]
    /\ requests' = [requests EXCEPT ![c] = <<>>]
    /\ reset' = reset \ {c}
    /\ AfterSocket(c)
    /\ UNCHANGED <<serverVars, backlog, held, childVars, stdinVars,
                   stdin_oef, send_line>>

\* read returns 0: the end, or "Server terminated prematurely."
EndOfReplies(c) ==
    /\ client[c] = "socket"
    /\ c \notin reset
    /\ replies[c] = <<>> /\ ~ServerEndOpen(c)
    /\ Goto(c, IF stdin_oef[c] THEN "returned" ELSE "failed")
    /\ UNCHANGED <<serverVars, connections, childVars, stdinVars, stdin_oef,
                   read_set, send_line, printed>>

\* fgets takes a line of its buffer, which it fills with what there is: one
\* line from a terminal, perhaps several from a pipe.
ReadLine(c) ==
    /\ client[c] = "stdin"
    /\ \E n \in (IF buffered[c] = <<>> THEN 1 .. Len(typed[c]) ELSE {0}) :
          LET lines == buffered[c] \o SubSeq(typed[c], 1, n)
          IN  /\ send_line' = [send_line EXCEPT ![c] = Head(lines)]
              /\ buffered' = [buffered EXCEPT ![c] = Tail(lines)]
              /\ typed' = [typed EXCEPT ![c] = SubSeq(@, n + 1, Len(@))]
    /\ Goto(c, "write")
    /\ UNCHANGED <<serverVars, connections, childVars, ended, entered,
                   stdin_oef, read_set, printed>>

\* Mutant of EndOfInput: the client leaves at the end of its input.
LeaveAtOnce(c) ==
    /\ client[c] = "stdin"
    /\ buffered[c] = <<>> /\ typed[c] = <<>>
    /\ stdin_oef' = [stdin_oef EXCEPT ![c] = TRUE]
    /\ Goto(c, "returned")
    /\ UNCHANGED <<serverVars, connections, childVars, stdinVars, read_set,
                   send_line, printed>>

EndOfInput(c) ==
    /\ client[c] = "stdin"
    /\ buffered[c] = <<>> /\ typed[c] = <<>>
    /\ stdin_oef' = [stdin_oef EXCEPT ![c] = TRUE]
    /\ Goto(c, "select")
    /\ UNCHANGED <<serverVars, connections, childVars, stdinVars, read_set,
                   send_line, printed>>

Write(c) ==
    /\ client[c] = "write"
    /\ ServerEndOpen(c)
    /\ Len(requests[c]) < SocketCapacity
    /\ requests' = [requests EXCEPT ![c] = Append(@, send_line[c])]
    /\ send_line' = [send_line EXCEPT ![c] = NoLine]
    /\ Goto(c, "select")
    /\ UNCHANGED <<serverVars, backlog, held, replies, reset, childVars,
                   stdinVars, stdin_oef, read_set, printed>>

\* With no server end the line is lost and the connection reset; once the
\* client's end knows of that, SIGPIPE ends the client.
WriteToNobody(c) ==
    /\ client[c] = "write"
    /\ ~ServerEndOpen(c)
    /\ \/ Goto(c, "select") /\ reset' = reset \union {c}
       \/ Goto(c, "failed") /\ UNCHANGED reset
    /\ send_line' = [send_line EXCEPT ![c] = NoLine]
    /\ UNCHANGED <<serverVars, backlog, held, requests, replies, childVars,
                   stdinVars, stdin_oef, read_set, printed>>

Client(c) ==
    \/ Connect(c)
    \/ CouldNotConnect(c)
    \/ Select(c)
    \/ ReadSocket(c)
    \/ ReadReset(c)
    \/ EndOfReplies(c)
    \/ ReadLine(c)
    \/ EndOfInput(c)
    \/ Write(c)
    \/ WriteToNobody(c)

Type(c) ==
    /\ c \notin ended
    /\ FoldFunction(+, 0, entered) < MaxTyped
    /\ entered' = [entered EXCEPT ![c] = @ + 1]
    /\ typed' = [typed EXCEPT ![c] = Append(@, entered'[c])]
    /\ UNCHANGED <<serverVars, connections, childVars, buffered, ended,
                   clientVars>>

EndTyping(c) ==
    /\ c \notin ended
    /\ ended' = ended \union {c}
    /\ UNCHANGED <<serverVars, connections, childVars, typed, buffered,
                   entered, clientVars>>

User(c) == Type(c) \/ EndTyping(c)

Next ==
    \/ Server
    \/ \E c \in SocketClients : str_echo(c) \/ Kill(c) \/ Client(c) \/ User(c)

Spec == Init /\ [][Next]_vars

----------------------------------------------------------------------------
(* Properties *)

Lines == 1 .. MaxTyped

TypeOK ==
    /\ network_order \in BOOLEAN
    /\ server \in {"accept", "fork", "close"}
    /\ handler \in BOOLEAN /\ pending \in BOOLEAN
    /\ Len(backlog) <= ListenQueueSize
    /\ \A c \in SocketClients :
          /\ Len(requests[c]) <= SocketCapacity
          /\ Len(replies[c]) <= SocketCapacity
          /\ ToSet(requests[c] \o replies[c] \o line[c]) \subseteq Lines
          /\ child[c] = "write" <=> line[c] # <<>>
    /\ child \in [SocketClients ->
                     {"none", "read", "write", "zombie", "reaped"}]
    /\ client \in [SocketClients ->
                     {"connect", "select", "socket", "stdin", "write",
                      "returned", "failed"}]
    /\ reset \subseteq killed

\* What a client prints is what its user typed, in that order, and a client
\* that returns has printed all of it: it must go on reading when its input
\* has ended, while its child still answers.  Clients leave early only when
\* their child was killed, or when the port they ask for is another one.  (What
\* a client prints after a reset, line 0, is nothing that it received.)
Sent == [c \in SocketClients |-> [k \in 1 .. entered[c] |-> k]]
Printed == [c \in SocketClients |->
               SelectSeq(printed[c], LAMBDA k : k > 0)]
Sender == [c \in SocketClients |-> IF c \in ended THEN "closed" ELSE "open"]
Reader == [c \in SocketClients |->
              IF client[c] \notin {"returned", "failed"} THEN "reading"
              ELSE IF c \in killed \/ ~network_order THEN "left"
              ELSE "finished"]
lineStream == INSTANCE Stream WITH
                 sent <- Sent, received <- Printed,
                 sender <- Sender, reader <- Reader
ImplementsStream == lineStream!Spec

\* Whoever has ended the input sees the client end, and every dead child is
\* waited for, also when several deaths make one signal.
Settled ==
    \A c \in SocketClients :
        (c \in ended => ClientGone(c)) /\ child[c] # "zombie"
=============================================================================
