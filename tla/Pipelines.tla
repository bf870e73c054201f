----------------------------- MODULE Pipelines -----------------------------
(***************************************************************************)
(* Small programs that lay a pipe between two processes (pipes/sh_pipe_1,  *)
(* sh_pipe_2, sh_pipe_3, pipe_demo_1, pipe_demo_2) or between a command    *)
(* and a file (redirect_out).  They differ in the calls that each process  *)
(* makes, so a process is the calls it still has to make; what a call does *)
(* is the kernel's part.  Descriptor 3 is the read end of the pipe and 4   *)
(* its write end, as pipe() returns them.                                  *)
(***************************************************************************)
EXTENDS Integers, Sequences

CONSTANTS
    NUM,           \* messages of pipe_demo_1
    Output,        \* items that a command or a parent writes
    ReadSize,      \* items a read asks for
    Capacity       \* items for which a pipe has room

PipelineAssumption ==
    /\ {NUM, Output, ReadSize, Capacity} \subseteq Nat \ {0}
    /\ NUM <= Capacity

VARIABLES
    demo,      \* the program
    proc,      \* for each process its calls, its descriptors and its fate
    pipe,      \* what is in each pipe
    passed     \* history: items that the source sent and the sink got

pipelineVars == <<demo, proc, pipe, passed>>

Demos == {"pipe_demo_1", "pipe_demo_2", "sh_pipe_1", "sh_pipe_2", "sh_pipe_3",
          "redirect_out"}
Procs == {"main", "child1", "child2"}
Fds == 0 .. 4
ReadEnd == [read1 |-> 1, read2 |-> 2]
WriteEnd == [write1 |-> 1, write2 |-> 2]

\* argv[1] writes on its standard output, argv[2] reads its standard input to
\* the end, or leaves before, and writes on its standard output.
Items(d, n) == [k \in 1 .. n |-> <<"write", d, k>>]
command1 == Items(1, Output)
command2 == <<<<"copy", 0, 1>>>>

sh_pipe_1_child == <<<<"close", 1>>, <<"dup", 4>>, <<"close", 3>>, <<"close", 4>>>>
sh_pipe_1 == <<<<"fork", "child1">>,
               <<"close", 0>>, <<"dup", 3>>, <<"close", 4>>, <<"close", 3>>>>
sh_pipe_2_child1 == <<<<"dup2", 4, 1>>, <<"close", 3>>, <<"close", 4>>>>
\* Mutant of sh_pipe_2_child2: the write end stays open.
sh_pipe_2_child2_open == <<<<"dup2", 3, 0>>, <<"close", 3>>>>
sh_pipe_2_child2 == <<<<"dup2", 3, 0>>, <<"close", 3>>, <<"close", 4>>>>
\* The label of the parent's branch is misspelt, so the parent returns.
sh_pipe_2 == <<<<"fork", "child1">>, <<"fork", "child2">>>>
sh_pipe_3 == <<<<"popen", "child1">>, <<"popen", "child2">>, <<"copy", 3, 4>>,
               <<"close", 3>>, <<"wait", {"child1"}>>,
               <<"close", 4>>, <<"wait", {"child2"}>>>>
pipe_demo_1 == Items(4, NUM) \o
               <<<<"close", 4>>, <<"read", 3, 1>>, <<"exit">>>>
pipe_demo_2_child == <<<<"close", 4>>, <<"copy", 3, 1>>>>
pipe_demo_2 == <<<<"fork", "child1">>, <<"close", 3>>>> \o Items(4, Output) \o
               <<<<"close", 4>>, <<"wait", Procs>>>>
redirect_out_child == <<<<"close", 1>>, <<"open">>>>
redirect_out == <<<<"fork", "child1">>, <<"wait", Procs>>>>

MainCalls ==
    CASE demo = "sh_pipe_1" -> sh_pipe_1 \o command2
      [] demo = "sh_pipe_2" -> sh_pipe_2
      [] demo = "sh_pipe_3" -> sh_pipe_3
      [] demo = "pipe_demo_1" -> pipe_demo_1
      [] demo = "pipe_demo_2" -> pipe_demo_2
      [] demo = "redirect_out" -> redirect_out
ChildCalls ==
    CASE demo = "sh_pipe_1" -> [child1 |-> sh_pipe_1_child \o command1]
      [] demo = "sh_pipe_2" -> [child1 |-> sh_pipe_2_child1 \o command1,
                                child2 |-> sh_pipe_2_child2 \o command2]
      [] demo = "sh_pipe_3" -> [child1 |-> command1, child2 |-> command2]
      [] demo = "pipe_demo_2" -> [child1 |-> pipe_demo_2_child]
      [] demo = "redirect_out" -> [child1 |-> redirect_out_child \o command1]

\* Where items come from, who is the last to read them, and where they go.
Source == IF demo \in {"pipe_demo_1", "pipe_demo_2"} THEN "main" ELSE "child1"
Sink == CASE demo \in {"sh_pipe_1", "pipe_demo_1"} -> "main"
          [] demo \in {"sh_pipe_2", "sh_pipe_3"} -> "child2"
          [] demo \in {"pipe_demo_2", "redirect_out"} -> "child1"
Destination == IF demo = "redirect_out" THEN "file" ELSE "tty"

NoFds == [d \in Fds |-> "closed"]
Standard == [NoFds EXCEPT ![0] = "tty", ![1] = "tty", ![2] = "tty"]
AfterPipe == [Standard EXCEPT ![3] = "read1", ![4] = "write1"]

Init ==
    /\ demo \in Demos
    /\ proc = [p \in Procs |->
                 IF p # "main"
                 THEN [calls |-> <<>>, fd |-> NoFds, fate |-> "unborn"]
                 ELSE [calls |-> MainCalls, fate |-> "running",
                       fd |-> IF demo \in {"sh_pipe_3", "redirect_out"}
                              THEN Standard ELSE AfterPipe]]
    /\ pipe = [k \in 1 .. 2 |-> <<>>]
    /\ passed = [sent |-> <<>>, arrived |-> <<>>]

----------------------------------------------------------------------------
(* Calls *)

Call(p) == Head(proc[p].calls)
Calls(p, name) ==
    proc[p].fate = "running" /\ proc[p].calls # <<>> /\ Call(p)[1] = name
Open(end) == \E p \in Procs, d \in Fds : proc[p].fd[d] = end
ReaderOf(k) == IF k = 1 THEN "read1" ELSE "read2"
WriterOf(k) == IF k = 1 THEN "write1" ELSE "write2"
FdOf(p) == proc[p].fd[Call(p)[2]]
Closed(p) == {d \in Fds : proc[p].fd[d] = "closed"}
Lowest(ds) == CHOOSE d \in ds : \A e \in ds : d <= e

\* Process p makes its next call, which makes its descriptor d mean end.
SetFd(p, d, end) ==
    /\ proc' = [proc EXCEPT ![p].calls = Tail(@), ![p].fd[d] = end]
    /\ UNCHANGED <<demo, pipe, passed>>
End(p, fate) ==
    proc' = [proc EXCEPT ![p] = [calls |-> <<>>, fd |-> NoFds, fate |-> fate]]

close(p) == Calls(p, "close") /\ SetFd(p, Call(p)[2], "closed")
dup(p) == Calls(p, "dup") /\ SetFd(p, Lowest(Closed(p)), FdOf(p))
dup2(p) == Calls(p, "dup2") /\ SetFd(p, Call(p)[3], FdOf(p))

\* creat in redirect_out; its child ends if the file cannot be made.
open(p) ==
    /\ Calls(p, "open")
    /\ \/ SetFd(p, Lowest(Closed(p)), "file")
       \/ End(p, "left") /\ UNCHANGED <<demo, pipe, passed>>

fork(p) ==
    /\ Calls(p, "fork")
    /\ LET child == Call(p)[2]
       IN  proc' = [proc EXCEPT ![p].calls = Tail(@),
                      ![child] = [calls |-> ChildCalls[child],
                                  fd |-> proc[p].fd, fate |-> "running"]]
    /\ UNCHANGED <<demo, pipe, passed>>

\* popen of child1 for reading and of child2 for writing.
popen(p) ==
    /\ Calls(p, "popen")
    /\ LET child == Call(p)[2]
           reads == child = "child1"
           theirs == IF reads THEN [Standard EXCEPT ![1] = "write1"]
                     ELSE [Standard EXCEPT ![0] = "read2"]
       IN  proc' = [proc EXCEPT ![p].calls = Tail(@),
                      ![p].fd[IF reads THEN 3 ELSE 4] =
                            IF reads THEN "read1" ELSE "write2",
                      ![child] = [calls |-> ChildCalls[child],
                                  fd |-> theirs, fate |-> "running"]]
    /\ UNCHANGED <<demo, pipe, passed>>

\* A write waits for room, and kills its process when nobody can read.
write(p) ==
    LET end == FdOf(p)
        item == Call(p)[3]
        Sent == IF p = Source /\ end # "tty"
                THEN Append(passed.sent, item) ELSE passed.sent
    IN  /\ Calls(p, "write")
        /\ \/ /\ end \in {"tty", "file"}
              /\ passed' = [sent |-> Sent,
                            arrived |-> IF end = Destination
                                        THEN Append(passed.arrived, item)
                                        ELSE passed.arrived]
              /\ proc' = [proc EXCEPT ![p].calls = Tail(@)]
              /\ UNCHANGED pipe
           \/ /\ end \in DOMAIN WriteEnd
              /\ Open(ReaderOf(WriteEnd[end]))
              /\ Len(pipe[WriteEnd[end]]) < Capacity
              /\ pipe' = [pipe EXCEPT ![WriteEnd[end]] = Append(@, item)]
              /\ passed' = [passed EXCEPT !.sent = Sent]
              /\ proc' = [proc EXCEPT ![p].calls = Tail(@)]
           \/ /\ end \in DOMAIN WriteEnd
              /\ ~Open(ReaderOf(WriteEnd[end]))
              /\ End(p, "killed")
              /\ UNCHANGED <<pipe, passed>>
        /\ UNCHANGED demo

\* A read takes what is there, up to its size, and writes it out: once, or in a
\* loop until there is no writer left.
read(p) ==
    LET k == ReadEnd[FdOf(p)]
        n == IF Len(pipe[k]) < ReadSize THEN Len(pipe[k]) ELSE ReadSize
        rest == IF Call(p)[1] = "copy" THEN proc[p].calls
                ELSE Tail(proc[p].calls)
        Out == [j \in 1 .. n |-> <<"write", Call(p)[3], pipe[k][j]>>]
    IN  /\ Calls(p, "copy") \/ Calls(p, "read")
        /\ FdOf(p) \in DOMAIN ReadEnd
        /\ \/ /\ n > 0
              /\ pipe' = [pipe EXCEPT ![k] = SubSeq(@, n + 1, Len(@))]
              /\ proc' = [proc EXCEPT ![p].calls = Out \o rest]
           \/ /\ n = 0 /\ ~Open(WriterOf(k))
              /\ proc' = [proc EXCEPT ![p].calls = Tail(@)]
              /\ UNCHANGED pipe
        /\ UNCHANGED <<demo, passed>>

\* wait, or the wait of pclose for its own child.
wait(p) ==
    /\ Calls(p, "wait")
    /\ \E c \in Call(p)[2] \ {p} : proc[c].fate \in {"exited", "left", "killed"}
    /\ proc' = [proc EXCEPT ![p].calls = Tail(@)]
    /\ UNCHANGED <<demo, pipe, passed>>

exit(p) ==
    /\ \/ proc[p].fate = "running" /\ proc[p].calls = <<>> /\ End(p, "exited")
       \/ Calls(p, "exit") /\ End(p, "left")
    /\ UNCHANGED <<demo, pipe, passed>>

\* A command may end before it has read everything.
stop(p) ==
    /\ Calls(p, "copy") /\ Call(p)[2] = 0
    /\ End(p, "left")
    /\ UNCHANGED <<demo, pipe, passed>>

Process(p) ==
    \/ close(p) \/ dup(p) \/ dup2(p) \/ open(p) \/ fork(p) \/ popen(p)
    \/ write(p) \/ read(p) \/ wait(p) \/ exit(p)

Next == \E p \in Procs : Process(p) \/ stop(p)

Spec == Init /\ [][Next]_pipelineVars

----------------------------------------------------------------------------
(* Properties *)

PipelineTypeOK ==
    /\ \A p \in Procs : proc[p].fate \in {"unborn", "running", "exited",
                                          "left", "killed"}
    /\ \A k \in 1 .. 2 : Len(pipe[k]) <= Capacity

\* The pipe as a stream from its source to its sink.
Sender ==
    IF /\ proc[Source].fate \in {"unborn", "running"}
       /\ Len(passed.sent) < (IF demo = "pipe_demo_1" THEN NUM ELSE Output)
    THEN "open" ELSE "closed"
Reader == CASE proc[Sink].fate \in {"unborn", "running"} -> "reading"
            [] proc[Sink].fate = "exited" -> "finished"
            [] OTHER -> "left"
pipeStream == INSTANCE Stream WITH
    sent <- <<passed.sent>>, received <- <<passed.arrived>>,
    sender <- <<Sender>>, reader <- <<Reader>>
ImplementsStream == pipeStream!Spec

\* Every process has ended: a copy of a write end that somebody forgot to close
\* would keep a reader waiting.
PipesSettled == \A p \in Procs : proc[p].fate # "running"
=============================================================================
