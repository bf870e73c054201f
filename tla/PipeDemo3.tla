----------------------------- MODULE PipeDemo3 -----------------------------
(***************************************************************************)
(* pipes/pipe_demo_3/pipe_demo_3.c: two children write lines of PIPE_BUF - *)
(* 1 bytes into one pipe, each after a SIGUSR1 from the parent, and the    *)
(* parent copies what it reads, RD_CHUNK bytes at a time, to a file until  *)
(* both children have closed the pipe; then it waits for them.             *)
(*                                                                         *)
(* A byte is the child that wrote it.  The kernel appends a write of at    *)
(* most PIPE_BUF bytes as a whole when there is room for all of it, and a  *)
(* longer one in pieces.                                                   *)
(***************************************************************************)
EXTENDS Integers, Sequences, SequencesExt

CONSTANTS Repeat,        \* the command line argument
          PipeBuf,       \* PIPE_BUF
          PipeCapacity,  \* how many bytes the pipe holds
          RdChunk        \* RD_CHUNK

SizesAssumption ==
    /\ Repeat \in Nat
    /\ PipeBuf \in Nat /\ PipeBuf > 2
    /\ PipeCapacity \in Nat /\ PipeCapacity >= PipeBuf
    /\ RdChunk \in Nat \ {0}

Children == {"child1", "child2"}
\* Mutant of chunk_size: ATOMIC is not defined.
chunk_size_not_atomic == PipeBuf + 2

chunk_size == PipeBuf
message_length == chunk_size - 1

VARIABLES
    pipe,      \* bytes in the pipe, oldest first
    writers,   \* the processes that have the write end open
    signalled, \* children SIGUSR1 was sent to
    pending,   \* children that have a pending SIGUSR1
    pc,        \* where each child is
    lines,     \* writes each child has completed (its i)
    left,      \* bytes of its line a child has still to write
    parent,    \* where the parent is
    pd2_output, \* the bytes the parent has written to the file
    reaped     \* children wait has returned for

ends == <<pipe, writers>>
signals == <<signalled, pending>>
child == <<pc, lines, left>>
vars == <<ends, signals, child, parent, pd2_output, reaped>>

Init ==
    /\ pipe = <<>>
    /\ writers = {"parent"}
    /\ signalled = {}
    /\ pending = {}
    /\ pc = [c \in Children |-> "unborn"]
    /\ lines = [c \in Children |-> 0]
    /\ left = [c \in Children |-> 0]
    /\ parent = "fork1"
    /\ pd2_output = <<>>
    /\ reaped = {}

----------------------------------------------------------------------------
(* The children *)

Goto(c, to) == pc' = [pc EXCEPT ![c] = to]

\* Mutant of Pause: the call is missing.
NoPause(c) ==
    /\ pc[c] = "forked"
    /\ Goto(c, "loop")
    /\ UNCHANGED <<ends, signals, lines, left, parent, pd2_output, reaped>>

Pause(c) ==
    /\ pc[c] = "forked"
    /\ Goto(c, "pause")
    /\ UNCHANGED <<ends, signals, lines, left, parent, pd2_output, reaped>>

\* do_nothing runs; only a process that is in pause takes notice.
HandleSignal(c) ==
    /\ c \in pending
    /\ pending' = pending \ {c}
    /\ Goto(c, IF pc[c] = "pause" THEN "loop" ELSE pc[c])
    /\ UNCHANGED <<ends, signalled, lines, left, parent, pd2_output, reaped>>

\* Mutant of StartWrite: one line too many.
StartWriteOnceMore(c) ==
    /\ pc[c] = "loop"
    /\ lines[c] <= Repeat
    /\ left' = [left EXCEPT ![c] = message_length]
    /\ Goto(c, "write")
    /\ UNCHANGED <<ends, signals, lines, parent, pd2_output, reaped>>

StartWrite(c) ==
    /\ pc[c] = "loop"
    /\ lines[c] < Repeat
    /\ left' = [left EXCEPT ![c] = message_length]
    /\ Goto(c, "write")
    /\ UNCHANGED <<ends, signals, lines, parent, pd2_output, reaped>>

\* Pieces the kernel may append in one go.
PieceSizes(c) == IF message_length <= PipeBuf THEN {left[c]} ELSE 1 .. left[c]

WritePiece(c) ==
    /\ pc[c] = "write"
    /\ \E n \in PieceSizes(c) :
            /\ Len(pipe) + n <= PipeCapacity
            /\ pipe' = pipe \o [j \in 1 .. n |-> c]
            /\ left' = [left EXCEPT ![c] = @ - n]
    /\ IF left'[c] = 0
       THEN Goto(c, "loop") /\ lines' = [lines EXCEPT ![c] = @ + 1]
       ELSE UNCHANGED <<pc, lines>>
    /\ UNCHANGED <<writers, signals, parent, pd2_output, reaped>>

CloseAndExit(c) ==
    /\ pc[c] = "loop"
    /\ lines[c] = Repeat
    /\ writers' = writers \ {c}
    /\ Goto(c, "exited")
    /\ UNCHANGED <<pipe, signals, lines, left, parent, pd2_output, reaped>>

Child(c) ==
    \/ Pause(c)
    \/ HandleSignal(c)
    \/ StartWrite(c)
    \/ WritePiece(c)
    \/ CloseAndExit(c)

----------------------------------------------------------------------------
(* The parent *)

Fork(c, from, to) ==
    /\ parent = from
    /\ Goto(c, "forked")
    /\ writers' = writers \union {c}
    /\ parent' = to
    /\ UNCHANGED <<pipe, signals, lines, left, pd2_output, reaped>>

CloseWriteEnd ==
    /\ parent = "close"
    /\ writers' = writers \ {"parent"}
    /\ parent' = "kill1"
    /\ UNCHANGED <<pipe, signals, child, pd2_output, reaped>>

Kill(c, from, to) ==
    /\ parent = from
    /\ signalled' = signalled \union {c}
    /\ pending' = pending \union {c}
    /\ parent' = to
    /\ UNCHANGED <<ends, child, pd2_output, reaped>>

\* Mutant of Read: a read of an empty pipe ends the loop, as it would if the
\* read did not block.
ReadNonBlocking ==
    /\ parent = "read"
    /\ pd2_output' = pd2_output \o pipe
    /\ pipe' = <<>>
    /\ parent' = IF pipe = <<>> THEN "wait" ELSE "read"
    /\ UNCHANGED <<writers, signals, child, reaped>>

\* read returns what is there, up to RD_CHUNK bytes, or 0 when the pipe is
\* empty and nobody has it open for writing.
Read ==
    /\ parent = "read"
    /\ \/ /\ pipe # <<>>
          /\ LET n == IF Len(pipe) < RdChunk THEN Len(pipe) ELSE RdChunk
             IN  /\ pd2_output' = pd2_output \o SubSeq(pipe, 1, n)
                 /\ pipe' = SubSeq(pipe, n + 1, Len(pipe))
          /\ UNCHANGED parent
       \/ /\ pipe = <<>>
          /\ writers = {}
          /\ parent' = "wait"
          /\ UNCHANGED <<pipe, pd2_output>>
    /\ UNCHANGED <<writers, signals, child, reaped>>

Wait ==
    /\ parent = "wait"
    /\ \E c \in Children \ reaped :
            /\ pc[c] = "exited"
            /\ reaped' = reaped \union {c}
    /\ parent' = IF reaped' = Children THEN "exited" ELSE "wait"
    /\ UNCHANGED <<ends, signals, child, pd2_output>>

Parent ==
    \/ Fork("child1", "fork1", "fork2")
    \/ Fork("child2", "fork2", "close")
    \/ CloseWriteEnd
    \/ Kill("child1", "kill1", "kill2")
    \/ Kill("child2", "kill2", "read")
    \/ Read
    \/ Wait

Next == Parent \/ \E c \in Children : Child(c)

Spec == Init /\ [][Next]_vars
FairSpec == Spec /\ WF_vars(Parent) /\ \A c \in Children : WF_vars(Child(c))

----------------------------------------------------------------------------
(* Properties *)

TypeOK ==
    /\ pipe \in Seq(Children) /\ Len(pipe) <= PipeCapacity
    /\ writers \in SUBSET (Children \union {"parent"})
    /\ signalled \in SUBSET Children
    /\ pending \in SUBSET signalled
    /\ pc \in [Children -> {"unborn", "forked", "pause", "loop", "write",
                            "exited"}]
    /\ lines \in [Children -> 0 .. Repeat]
    /\ left \in [Children -> 0 .. message_length]
    /\ parent \in {"fork1", "fork2", "close", "kill1", "kill2", "read", "wait",
                   "exited"}
    /\ pd2_output \in Seq(Children)
    /\ reaped \in SUBSET Children

\* All the bytes that went through the pipe, in order.
Stream == pd2_output \o pipe

\* "writes of up to PIPE_BUF bytes are atomic" (pipe_demo_3.c:3): the stream
\* is made of whole lines, no line holds bytes of both children, whatever
\* part of a line each read stops at.
LinesAreWhole ==
    /\ Len(Stream) % message_length = 0
    /\ \A j \in 1 .. Len(Stream) :
        LET before == message_length * ((j - 1) \div message_length)
        IN  Stream[j] = Stream[before + 1]

\* The parent takes an empty pipe for the end only when nothing is to come:
\* the file then holds all the lines of both children.
OutputComplete ==
    parent \in {"wait", "exited"} =>
        \A c \in Children :
            Len(SelectSeq(pd2_output, LAMBDA b : b = c))
                = Repeat * message_length

\* A child writes nothing before the parent has signalled it.
NoWriteBeforeSignal ==
    \A c \in Children :
        c \notin signalled => \A j \in DOMAIN Stream : Stream[j] # c

\* "wait for signal before continuing" (pipe_demo_3.c:98): a child that was
\* signalled goes on.
SignalIsHeard ==
    \A c \in Children : c \in signalled ~> pc[c] \notin {"forked", "pause"}
=============================================================================
