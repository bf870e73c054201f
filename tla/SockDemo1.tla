----------------------------- MODULE SockDemo1 -----------------------------
(***************************************************************************)
(* sockets/sock_demo_server_1.c and sock_demo_client_1.c: a child for each *)
(* connection sends back every character in upper case, and a client waits *)
(* for the answer before it reads the next character.  Anybody may be      *)
(* killed.  Children hold the listening socket open, so clients find it    *)
(* after the server has died.  Both sides take PORT as it is.              *)
(***************************************************************************)
EXTENDS Integers, FiniteSetsExt, SequencesExt

CONSTANTS
    CharClients,
    NoConnection,      \* connection_fd when there is none
    QueueSize,         \* LISTEN_QUEUE_SIZE
    MaxChars           \* bound: characters that all users type

SockDemo1Assumption ==
    /\ NoConnection \notin CharClients
    /\ QueueSize \in Nat \ {0} /\ MaxChars \in Nat

VARIABLES
    srv,     \* the parent: where it is, connection_fd, SIGCHLD and its handler
    kid,     \* for each connection the child that serves it
    queue,   \* connections that wait to be accepted
    conn,    \* for each connection what is on its way, and whether the client
             \* has been told that the other end has gone
    user     \* for each client: where it is, what it sent and printed

sockVars == <<srv, kid, queue, conn, user>>

Connections == CharClients \union {NoConnection}
Kids(state) == {c \in Connections : kid[c] = state}
Alive == Kids("recv") \union Kids("send")

Init ==
    /\ srv = [at |-> "accept", connection_fd |-> NoConnection,
              pending |-> FALSE, handler |-> FALSE]
    /\ kid = [c \in Connections |-> "unborn"]
    /\ queue = <<>>
    /\ conn = [c \in CharClients |->
                 [up |-> <<>>, down |-> <<>>, reset |-> FALSE]]
    /\ user = [c \in CharClients |->
                 [at |-> "connect", sent |-> 0, printed |-> <<>>]]

----------------------------------------------------------------------------
(* The server *)

Main(place) == srv.at = place /\ ~srv.handler

accept ==
    /\ Main("accept") /\ queue # <<>>
    /\ srv' = [srv EXCEPT !.at = "fork", !.connection_fd = Head(queue)]
    /\ queue' = Tail(queue)
    /\ UNCHANGED <<kid, conn, user>>

\* After an error the server forks nevertheless.  Bound: one error.
AcceptFails ==
    /\ Main("accept") /\ kid[NoConnection] = "unborn"
    /\ srv' = [srv EXCEPT !.at = "fork", !.connection_fd = NoConnection]
    /\ UNCHANGED <<kid, queue, conn, user>>

fork ==
    /\ Main("fork")
    /\ kid' = [kid EXCEPT ![srv.connection_fd] = "recv"]
    /\ srv' = [srv EXCEPT !.at = "close"]
    /\ UNCHANGED <<queue, conn, user>>

\* What is left in connection_fd is a descriptor that is closed.
close ==
    /\ Main("close")
    /\ srv' = [srv EXCEPT !.at = "accept", !.connection_fd = NoConnection]
    /\ UNCHANGED <<kid, queue, conn, user>>

Deliver ==
    /\ srv.at # "dead" /\ srv.pending /\ ~srv.handler
    /\ srv' = [srv EXCEPT !.pending = FALSE, !.handler = TRUE]
    /\ UNCHANGED <<kid, queue, conn, user>>

\* One call of waitpid; when there is no zombie left, main goes on.
on_sigchld ==
    /\ srv.handler
    /\ IF Kids("zombie") = {}
       THEN srv' = [srv EXCEPT !.handler = FALSE] /\ UNCHANGED kid
       ELSE \E c \in Kids("zombie") :
                kid' = [kid EXCEPT ![c] = "reaped"] /\ UNCHANGED srv
    /\ UNCHANGED <<queue, conn, user>>

\* Mutant of on_sigchld: one wait for each signal.
ReapOne ==
    /\ srv.handler
    /\ \/ Kids("zombie") = {} /\ UNCHANGED kid
       \/ \E c \in Kids("zombie") : kid' = [kid EXCEPT ![c] = "reaped"]
    /\ srv' = [srv EXCEPT !.handler = FALSE]
    /\ UNCHANGED <<queue, conn, user>>

\* With the last process that has the listening socket go the connections that
\* nobody has accepted.
ResetQueue ==
    /\ queue' = <<>>
    /\ conn' = [c \in CharClients |->
                  [conn[c] EXCEPT !.reset = @ \/ c \in ToSet(queue)]]

\* By on_sigpipe, if somebody sends it that signal, or by any other.
KillServer ==
    /\ srv.at # "dead"
    /\ srv' = [srv EXCEPT !.at = "dead", !.pending = FALSE, !.handler = FALSE]
    /\ kid' = [c \in Connections |->
                 IF kid[c] = "zombie" THEN "reaped" ELSE kid[c]]
    /\ IF Alive = {} THEN ResetQueue ELSE UNCHANGED <<queue, conn>>
    /\ UNCHANGED user

Server == accept \/ fork \/ close \/ Deliver \/ on_sigchld

----------------------------------------------------------------------------
(* A child *)

ChildEnds(c) ==
    /\ kid' = [kid EXCEPT ![c] = IF srv.at = "dead" THEN "reaped"
                                 ELSE "zombie"]
    /\ srv' = [srv EXCEPT !.pending = srv.at # "dead"]
    /\ IF srv.at = "dead" /\ Alive = {c} THEN ResetQueue
       ELSE UNCHANGED <<queue, conn>>
    /\ UNCHANGED user

recv(c) ==
    /\ kid[c] = "recv" /\ c \in CharClients /\ conn[c].up # <<>>
    /\ kid' = [kid EXCEPT ![c] = "send"]
    /\ UNCHANGED <<srv, queue, conn, user>>

\* The client has gone, or there is no connection.
EndOfFile(c) ==
    /\ kid[c] = "recv"
    /\ IF c = NoConnection THEN TRUE
       ELSE conn[c].up = <<>> /\ user[c].at = "gone"
    /\ ChildEnds(c)

\* The answer to a client that has gone is lost; the next recv finds out, so
\* these clients never raise SIGPIPE.
send(c) ==
    /\ kid[c] = "send"
    /\ conn' = [conn EXCEPT ![c].up = <<>>,
                  ![c].down = IF user[c].at = "gone" THEN <<>>
                              ELSE @ \o conn[c].up]
    /\ kid' = [kid EXCEPT ![c] = "recv"]
    /\ UNCHANGED <<srv, queue, user>>

on_sigpipe(c) == c \in Alive /\ ChildEnds(c)

Child(c) == recv(c) \/ EndOfFile(c) \/ send(c)

----------------------------------------------------------------------------
(* A client *)

Place(c, place) == user' = [user EXCEPT ![c].at = place]

Connect(c) ==
    /\ user[c].at = "connect"
    /\ IF srv.at # "dead" \/ Alive # {}
       THEN /\ Len(queue) < QueueSize
            /\ queue' = Append(queue, c)
            /\ Place(c, "getchar")
       ELSE Place(c, "gone") /\ UNCHANGED queue
    /\ UNCHANGED <<srv, kid, conn>>

ServerEndOpen(c) ==
    \/ c \in ToSet(queue) \union Alive
    \/ srv.at \in {"fork", "close"} /\ srv.connection_fd = c

Typed == MapThenSumSet(LAMBDA c : user[c].sent, CharClients)

\* getchar and write, whose result nobody looks at.  At the end of the input
\* the same character is sent, again and again.
Write(c) ==
    /\ user[c].at = "getchar" /\ Typed < MaxChars
    /\ user' = [user EXCEPT ![c].at = "read", ![c].sent = @ + 1]
    /\ conn' = IF ServerEndOpen(c)
               THEN [conn EXCEPT ![c].up = Append(@, user'[c].sent)]
               ELSE [conn EXCEPT ![c].reset = TRUE]
    /\ UNCHANGED <<srv, kid, queue>>

\* SIGPIPE: the client has no handler.
WriteToReset(c) ==
    /\ user[c].at = "getchar" /\ conn[c].reset
    /\ Place(c, "gone")
    /\ UNCHANGED <<srv, kid, queue, conn>>

Read(c) ==
    /\ user[c].at = "read" /\ conn[c].down # <<>>
    /\ user' = [user EXCEPT ![c].at = "getchar",
                            ![c].printed = @ \o conn[c].down]
    /\ conn' = [conn EXCEPT ![c].down = <<>>]
    /\ UNCHANGED <<srv, kid, queue>>

\* Mutant of Read: the answer that was not there is printed.
ReadNothing(c) ==
    /\ user[c].at = "read"
    /\ user' = [user EXCEPT ![c].at = "getchar",
                            ![c].printed = Append(@, 0)]
    /\ UNCHANGED <<srv, kid, queue, conn>>

ServerHasDied(c) ==
    /\ user[c].at = "read" /\ conn[c].down = <<>> /\ ~ServerEndOpen(c)
    /\ Place(c, "gone")
    /\ UNCHANGED <<srv, kid, queue, conn>>

KillClient(c) ==
    /\ user[c].at \in {"getchar", "read"}
    /\ Place(c, "gone")
    /\ conn' = [conn EXCEPT ![c].down = <<>>]
    /\ UNCHANGED <<srv, kid, queue>>

\* What a client does by itself, and what it does for others.
Client(c) == Connect(c) \/ Read(c) \/ ServerHasDied(c)
User(c) == Write(c) \/ WriteToReset(c) \/ KillClient(c)

Next ==
    \/ Server \/ AcceptFails \/ KillServer
    \/ \E c \in Connections : Child(c) \/ on_sigpipe(c)
    \/ \E c \in CharClients : Client(c) \/ User(c)

Spec == Init /\ [][Next]_sockVars

----------------------------------------------------------------------------
(* Properties *)

SockDemo1TypeOK ==
    /\ srv.at \in {"accept", "fork", "close", "dead"}
    /\ kid \in [Connections -> {"unborn", "recv", "send", "zombie", "reaped"}]
    /\ Len(queue) <= QueueSize
    /\ \A c \in CharClients : Len(conn[c].up) + Len(conn[c].down) <= 1

\* The characters that a client prints are those it sent, in that order.
Sent == [c \in CharClients |-> [k \in 1 .. user[c].sent |-> k]]
Printed == [c \in CharClients |-> user[c].printed]
Sender == [c \in CharClients |-> "open"]
Reader == [c \in CharClients |->
              IF user[c].at = "gone" THEN "left" ELSE "reading"]
charStream == INSTANCE Stream WITH
    sent <- Sent, received <- Printed, sender <- Sender, reader <- Reader
ImplementsStream == charStream!Spec

\* The dead have been waited for, the children of clients that have gone have
\* ended, and a client that waits for an answer is one that waits behind a
\* server that has died, while its children live.
SockDemo1Settled ==
    /\ srv.at # "dead" => Kids("zombie") = {}
    /\ \A c \in CharClients :
          /\ c \in Alive => user[c].at # "gone"
          /\ user[c].at = "read" => srv.at = "dead" /\ c \in ToSet(queue)
=============================================================================
