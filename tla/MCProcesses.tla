---------------------------- MODULE MCProcesses ----------------------------
(***************************************************************************)
(* The programs in which a parent forks children and signals, pipes, FIFOs *)
(* or sockets connect them: a behaviour is a run of one of them.  What a   *)
(* program does not have stays Unused.                                     *)
(*                                                                         *)
(* The smaller programs share the variables d1 to d8, in the order in      *)
(* which their modules declare them.                                       *)
(***************************************************************************)
EXTENDS Integers, Sequences, Functions

CONSTANTS NumChildren,                            \* rabbits2
          Repeat, PipeBuf, PipeCapacity, RdChunk, \* pipe_demo_3
          Clients,                                \* the upcase services
          MaxTries, PublicCapacity, MaxStarts, NoClient,     \* upcase_2
          ListenQueueSize, SocketCapacity, MaxTyped, MaxKilled, \* sock_demo_3
          MaxChars,                                \* sock_demo_1
          NUM, Output, ReadSize, Capacity,         \* pipelines, rev_fifo
          MaxMessages,                             \* rev_fifo
          Writes,                                  \* select_demo
          Rounds, MaxRaised,                       \* the signal demos
          N,                                       \* the fork demos
          ExitCodes, MaxStops,                     \* the wait demos, rabbits2
          PageSize, Pages,                         \* pipe_size_test
          MaxCounter                               \* the synch demos

VARIABLES
    program,                       \* the one that runs
    pc,                            \* rabbits2 and pipe_demo_3
    pending,                       \* all
    child,                         \* all but pipe_demo_3
    death, sa_flags, disposition, stops, forked, count, pid, status,
    child_terminated, frames,                                \* rabbits2
    pipe, writers, signalled, lines, left, parent, pd2_output, reaped,
                                                             \* pipe_demo_3
    server, handler, client,       \* the upcase services
    public, generation, queue, opened, private, msg, server_pid, born,
    public_fifo, raw_text_fd, tries,                         \* upcase_2
    network_order, conn_fd, backlog, held, requests, replies, reset, line,
    killed, typed, buffered, ended, stdin_oef, read_set, send_line, entered,
    printed,
                                                             \* sock_demo_3
    d1, d2, d3, d4, d5, d6, d7, d8                           \* the others

rabbitVars == <<death, sa_flags, disposition, stops, forked, count, pid,
                status, child_terminated, frames>>
pipeVars == <<pipe, writers, signalled, lines, left, parent, pd2_output,
              reaped>>
serviceVars == <<server, handler, client>>
upcaseVars == <<public, generation, queue, opened, private, msg, server_pid,
                born, public_fifo, raw_text_fd, tries>>
socketVars == <<network_order, conn_fd, backlog, held, requests, replies,
                reset, line, killed, typed, buffered, ended, stdin_oef,
                read_set, send_line, entered, printed>>
bigVars == <<pc, pending, child, rabbitVars, pipeVars, serviceVars, upcaseVars,
             socketVars>>
from8 == <<d8>>
from7 == <<d7, from8>>
from6 == <<d6, from7>>
from5 == <<d5, from6>>
from4 == <<d4, from5>>
demoVars == <<d1, d2, d3, from4>>
vars == <<program, bigVars, demoVars>>

rabbits == INSTANCE Rabbits
pipe_demo == INSTANCE PipeDemo3
upcase == INSTANCE Upcase2
sock == INSTANCE SocketUpcase WITH
            SocketClients <- Clients, NoConnection <- NoClient
pipelines == INSTANCE Pipelines WITH
                demo <- d1, proc <- d2, pipe <- d3, passed <- d4
rev_fifo == INSTANCE RevFifo WITH
               rev <- d1, fifo <- d2, sender <- d3,
               FifoClients <- Clients, FifoCapacity <- Capacity
char == INSTANCE SockDemo1 WITH
           srv <- d1, kid <- d2, queue <- d3, conn <- d4, user <- d5,
           CharClients <- Clients, NoConnection <- NoClient,
           QueueSize <- ListenQueueSize
select_demo == INSTANCE SelectDemo WITH
                  at <- d1, holds <- d2, written <- d3, fate <- d4
signal_demos == INSTANCE SignalDemos WITH
                   asked <- d1, calls <- d2, kernel <- d3, frames <- d4,
                   life <- d5, raised <- d6
fork_demos == INSTANCE ForkDemos WITH run <- d1, procs <- d2, output <- d3
wait_demos == INSTANCE WaitDemos WITH
                 demo <- d1, child <- d2, changed <- d3, changes <- d4,
                 parent <- d5, reports <- d6
pipe_size == INSTANCE PipeSizeTest WITH
                prompt <- d1, step <- d2, phase <- d3, pages <- d4,
                taken <- d5, test <- d6, found <- d7
synch_demos == INSTANCE SynchDemos WITH
                  demo <- d1, at <- d2, caught <- d3, pending <- d4,
                  sigint <- d5, counter <- d6, file <- d7, signals <- d8

\* The streams of the program that runs.
Streams(p, l, r, c) ==
    CASE program = "pipelines" -> p
      [] program = "sock_demo_3" -> l
      [] program = "rev_fifo" -> r
      [] program = "sock_demo_1" -> c
      [] OTHER -> <<>>
streams == INSTANCE Stream WITH
    sent <- Streams(<<d4.sent>>, sock!Sent, <<d2.sent>>, char!Sent),
    received <- Streams(<<d4.arrived>>, sock!Printed, <<d1.printed>>,
                        char!Printed),
    sender <- Streams(<<pipelines!Sender>>, sock!Sender, <<"open">>,
                      char!Sender),
    reader <- Streams(<<pipelines!Reader>>, sock!Reader, <<rev_fifo!Reader>>,
                      char!Reader)

ASSUME AllSizes ==
    /\ rabbits!NumChildrenAssumption
    /\ pipe_demo!SizesAssumption
    /\ upcase!UpcaseAssumption
    /\ sock!SocketAssumption
    /\ pipelines!PipelineAssumption
    /\ rev_fifo!RevFifoAssumption
    /\ char!SockDemo1Assumption
    /\ select_demo!SelectAssumption
    /\ signal_demos!SignalAssumption
    /\ fork_demos!ForkAssumption
    /\ wait_demos!WaitAssumption
    /\ pipe_size!PipeSizeAssumption
    /\ synch_demos!SynchAssumption

Unused == <<>>
NoRabbits ==
    /\ death = Unused /\ sa_flags = Unused /\ disposition = Unused
    /\ stops = Unused
    /\ forked = Unused /\ count = Unused /\ pid = Unused /\ status = Unused
    /\ child_terminated = Unused /\ frames = Unused
NoPipe ==
    /\ pipe = Unused /\ writers = Unused /\ signalled = Unused
    /\ lines = Unused /\ left = Unused /\ parent = Unused
    /\ pd2_output = Unused /\ reaped = Unused
NoService == server = Unused /\ handler = Unused /\ client = Unused
NoUpcase ==
    /\ public = Unused /\ generation = Unused /\ queue = Unused
    /\ opened = Unused /\ private = Unused /\ msg = Unused
    /\ server_pid = Unused /\ born = Unused /\ public_fifo = Unused
    /\ raw_text_fd = Unused /\ tries = Unused
NoSocket ==
    /\ network_order = Unused /\ conn_fd = Unused /\ backlog = Unused
    /\ held = Unused /\ requests = Unused /\ replies = Unused
    /\ reset = Unused /\ line = Unused /\ killed = Unused
    /\ typed = Unused /\ buffered = Unused /\ ended = Unused
    /\ stdin_oef = Unused /\ read_set = Unused /\ send_line = Unused
    /\ entered = Unused /\ printed = Unused

NoBig ==
    /\ pc = Unused /\ pending = Unused /\ child = Unused
    /\ NoRabbits /\ NoPipe /\ NoService /\ NoUpcase /\ NoSocket
No8 == d8 = Unused
No7 == d7 = Unused /\ No8
No6 == d6 = Unused /\ No7
No5 == d5 = Unused /\ No6
No4 == d4 = Unused /\ No5
NoDemo == d1 = Unused /\ d2 = Unused /\ d3 = Unused /\ No4

BigInit ==
    \/ /\ program = "rabbits2" /\ rabbits!Init
       /\ NoPipe /\ NoService /\ NoUpcase /\ NoSocket
    \/ /\ program = "pipe_demo_3" /\ pipe_demo!Init
       /\ child = Unused /\ NoRabbits /\ NoService /\ NoUpcase /\ NoSocket
    \/ /\ program = "upcase_2" /\ upcase!Init
       /\ pc = Unused /\ NoRabbits /\ NoPipe /\ NoSocket
    \/ /\ program = "sock_demo_3" /\ sock!Init
       /\ pc = Unused /\ NoRabbits /\ NoPipe /\ NoUpcase

DemoInit ==
    \/ program = "rev_fifo" /\ rev_fifo!Init /\ No4
    \/ program = "fork_demos" /\ fork_demos!Init /\ No4
    \/ program = "pipelines" /\ pipelines!Init /\ No5
    \/ program = "select_demo" /\ select_demo!Init /\ No5
    \/ program = "sock_demo_1" /\ char!Init /\ No6
    \/ program = "signal_demos" /\ signal_demos!Init /\ No7
    \/ program = "wait_demos" /\ wait_demos!Init /\ No7
    \/ program = "pipe_size_test" /\ pipe_size!Init /\ No8
    \/ program = "synch_demos" /\ synch_demos!Init

Init == (BigInit /\ NoDemo) \/ (DemoInit /\ NoBig)

\* A step of a program.
RabbitsStep(step) ==
    /\ program = "rabbits2" /\ step
    /\ UNCHANGED <<program, pipeVars, serviceVars, upcaseVars, socketVars,
                   demoVars>>
PipeStep(step) ==
    /\ program = "pipe_demo_3" /\ step
    /\ UNCHANGED <<program, child, rabbitVars, serviceVars, upcaseVars,
                   socketVars, demoVars>>
UpcaseStep(step) ==
    /\ program = "upcase_2" /\ step
    /\ UNCHANGED <<program, pc, rabbitVars, pipeVars, socketVars, demoVars>>
SocketStep(step) ==
    /\ program = "sock_demo_3" /\ step
    /\ UNCHANGED <<program, pc, rabbitVars, pipeVars, upcaseVars, demoVars>>
RevFifoStep(step) ==
    program = "rev_fifo" /\ step /\ UNCHANGED <<program, bigVars, from4>>
PipelineStep(step) ==
    program = "pipelines" /\ step /\ UNCHANGED <<program, bigVars, from5>>
SelectStep(step) ==
    program = "select_demo" /\ step /\ UNCHANGED <<program, bigVars, from5>>
CharStep(step) ==
    program = "sock_demo_1" /\ step /\ UNCHANGED <<program, bigVars, from6>>
WaitStep(step) ==
    program = "wait_demos" /\ step /\ UNCHANGED <<program, bigVars, from7>>
SynchStep(step) ==
    program = "synch_demos" /\ step /\ UNCHANGED <<program, bigVars>>

Next ==
    \/ RabbitsStep(rabbits!Next)
    \/ PipeStep(pipe_demo!Next)
    \/ UpcaseStep(upcase!Next)
    \/ SocketStep(sock!Next)
    \/ RevFifoStep(rev_fifo!Next)
    \/ PipelineStep(pipelines!Next)
    \/ SelectStep(select_demo!Next)
    \/ CharStep(char!Next)
    \/ WaitStep(wait_demos!Next)
    \/ SynchStep(synch_demos!Next)
    \/ /\ program = "fork_demos" /\ fork_demos!Next
       /\ UNCHANGED <<program, bigVars, from4>>
    \/ /\ program = "signal_demos" /\ signal_demos!Next
       /\ UNCHANGED <<program, bigVars, from7>>
    \/ /\ program = "pipe_size_test" /\ pipe_size!Next
       /\ UNCHANGED <<program, bigVars, from8>>

Spec == Init /\ [][Next]_vars

\* Processes run: the first process of each program, its children, which are
\* those of clients (and of no client, which sock_demo_1 can have) or are
\* numbered, and its clients.  Nobody has to type, to start or interrupt a
\* server, or to kill anyone.
Turns == Clients \cup {NoClient}
number == CHOOSE f \in [Turns -> 0 .. 2] : IsInjective(f)
MainProcess ==
    \/ UpcaseStep(upcase!Server)
    \/ SocketStep(sock!Server)
    \/ RevFifoStep(rev_fifo!Server)
    \/ PipelineStep(pipelines!Process("main"))
    \/ SelectStep(select_demo!parent)
    \/ CharStep(char!Server)
    \/ WaitStep(wait_demos!WaitForEnd \/ wait_demos!waitid)
    \/ SynchStep(synch_demos!Parent)
ChildProcess(t) ==
    \/ t \in Clients /\ UpcaseStep(upcase!Child(t))
    \/ t \in Clients /\ SocketStep(sock!str_echo(t))
    \/ number[t] = 0 /\ PipelineStep(pipelines!Process("child1"))
    \/ number[t] = 1 /\ PipelineStep(pipelines!Process("child2"))
    \/ SelectStep(select_demo!child(number[t]))
    \/ CharStep(char!Child(t))
    \/ number[t] = 0 /\ SynchStep(synch_demos!Child)
ClientProcess(c) ==
    \/ UpcaseStep(upcase!Client(c))
    \/ SocketStep(sock!Client(c))
    \/ CharStep(char!Client(c))

FairSpec ==
    /\ Spec
    /\ WF_vars(MainProcess)
    /\ \A t \in Turns : WF_vars(ChildProcess(t))
    /\ \A c \in Clients : WF_vars(ClientProcess(c))

----------------------------------------------------------------------------
(* Properties *)

TypeOK ==
    /\ program = "rabbits2" => rabbits!TypeOK
    /\ program = "pipe_demo_3" => pipe_demo!TypeOK
    /\ program = "upcase_2" => upcase!TypeOK
    /\ program = "sock_demo_3" => sock!TypeOK
    /\ program = "pipelines" => pipelines!PipelineTypeOK
    /\ program = "rev_fifo" => rev_fifo!RevFifoTypeOK
    /\ program = "sock_demo_1" => char!SockDemo1TypeOK
    /\ program = "select_demo" => select_demo!SelectTypeOK
    /\ program = "signal_demos" => signal_demos!SignalTypeOK
    /\ program = "fork_demos" => fork_demos!ForkTypeOK
    /\ program = "wait_demos" => wait_demos!WaitTypeOK
    /\ program = "pipe_size_test" => pipe_size!PipeSizeTypeOK
    /\ program = "synch_demos" => synch_demos!SynchTypeOK

\* Only children that are stopped or continued make on_sigchld wait without a
\* zombie of its own; and as long as it does not interrupt itself, main never
\* sees the pid of one child with the status of another (rabbits2.c:129-136).
HandlersAreSafe ==
    program = "rabbits2" =>
        rabbits!WaitsAreAccountedFor /\ rabbits!PidMatchesStatus

\* Lines of at most PIPE_BUF bytes come out of the pipe whole, however the
\* reader cuts the stream (pipe_demo_3.c:3).
LinesAreWhole == program = "pipe_demo_3" => pipe_demo!LinesAreWhole

\* When the parent of pipe_demo_3 stops reading, the file has every line.
OutputComplete == program = "pipe_demo_3" => pipe_demo!OutputComplete

\* A child that is to wait for its parent's signal does nothing before it
\* (pipe_demo_3.c, synch_demo_1.c:34-41).
ActsAfterSignal ==
    /\ program = "pipe_demo_3" => pipe_demo!NoWriteBeforeSignal
    /\ program = "synch_demos" => synch_demos!ComputesAfterNotice

\* Clients of the second upcase service find the FIFO that the running server
\* reads, whatever its children are told (upcase_server_2.c:218).
NameKept == program = "upcase_2" => upcase!NameKept

\* What comes out is what went in, in order, and all of it at the end: from
\* one end of a pipeline to the other, through a FIFO with several writers,
\* and from a client through a child of the server back to the client.
StreamsArrive == streams!Spec

\* select_demo's pipes stay open until their own child is done, and the first
\* to find that out is the last child (select_demo.c:66-87).
KilledLastFirst == program = "select_demo" => select_demo!KilledLastFirst

\* Handlers nest, signals are blocked and the demos end as the flags and masks
\* that main sets ask for (sigaction_demo_v2.c:55-78, signal_demo_v2.c,
\* procmask_demo.c).
SignalsFollowFlags ==
    program = "signal_demos" => signal_demos!SignalsFollowFlags

\* Processes that share an open file or a copied buffer write everything once
\* (fork_demo_1.c, synch_demo_2.c:50-52).
OutputOnce ==
    /\ program = "fork_demos" => fork_demos!OutputOnce
    /\ program = "synch_demos" => synch_demos!LinesOfBoth

\* What a parent says about its child, and the test about the pipe, is true
\* (waitid_demo.c:36-62, pipe_size_test.c:51-112).
ReportsAreTrue ==
    /\ program = "wait_demos" => wait_demos!ReportsAreTrue
    /\ program = "pipe_size_test" => pipe_size!PipeSizeIsTrue

\* The programs come to rest: dead children have been waited for, although
\* their signals merge (upcase_server_2.c:195, sock_demo_server_3.c:73), and
\* whoever has nothing more to wait for has ended: no end of a pipe that
\* somebody forgot to close keeps a reader waiting.  Ends and deaths are for
\* good, so this says that each is eventually followed by what it calls for.
ServicesSettle ==
    <>[](/\ program = "upcase_2" => upcase!Settled
         /\ program = "sock_demo_3" => sock!Settled
         /\ program = "pipelines" => pipelines!PipesSettled
         /\ program = "rev_fifo" => rev_fifo!RevFifoSettled
         /\ program = "sock_demo_1" => char!SockDemo1Settled
         /\ program = "select_demo" => select_demo!SelectSettled
         /\ program = "wait_demos" => wait_demos!WaitSettled
         /\ program = "synch_demos" => synch_demos!SynchSettled)
=============================================================================
