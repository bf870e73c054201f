----------------------------- MODULE ForkDemos -----------------------------
(***************************************************************************)
(* processes/fork_demo_1, fork_demo_2 and fork_demo_3: what is printed     *)
(* before a fork and is still in the buffer of stdout is there twice       *)
(* afterwards.  On a terminal stdout is written at the end of each line.   *)
(***************************************************************************)
EXTENDS Integers, FiniteSets, SequencesExt

CONSTANT N     \* forks of each process
ForkAssumption == N \in Nat

VARIABLES
    run,     \* the program, and whether stdout is a terminal
    procs,   \* for each process its forks so far, its buffer, where it is
    output   \* what has been written, in order

forkVars == <<run, procs, output>>

Demos == {"fork_demo_1", "fork_demo_2", "fork_demo_3"}
Forks == IF run.demo = "fork_demo_1" THEN 1 ELSE N
\* A process is named by the forks that made it: the k-th child of p.
Root == <<>>

Init ==
    /\ run \in [demo : Demos, isatty : BOOLEAN]
    /\ procs = [p \in {Root} |-> [i |-> 0, buffer |-> <<>>, at |-> "start"]]
    /\ output = <<>>

First == <<-1>>
ChildLine(p) == <<-2>> \o p

\* p prints lines, with what is in its buffer, or into its buffer, and goes on.
Puts(p, lines, through, place) ==
    /\ procs' = [procs EXCEPT ![p].at = place,
                   ![p].buffer = IF through THEN <<>> ELSE @ \o lines]
    /\ output' = IF through THEN output \o procs[p].buffer \o lines ELSE output
    /\ UNCHANGED run
Moves(p, from) == p \in DOMAIN procs /\ procs[p].at = from

\* Mutant of Announce: it does not.
AnnounceUnflushed(p) ==
    /\ Moves(p, "start")
    /\ Puts(p, <<First>>, run.isatty, "fork")

\* The third program flushes where it is not on a terminal.
Announce(p) ==
    /\ Moves(p, "start")
    /\ Puts(p, <<First>>, run.isatty \/ run.demo = "fork_demo_3", "fork")

Fork(p) ==
    /\ Moves(p, "fork") /\ procs[p].i < Forks
    /\ LET me == [procs[p] EXCEPT !.i = @ + 1]
           child == Append(p, procs[p].i)
       IN  procs' = [q \in DOMAIN procs \union {child} |->
                        CASE q = p -> me
                          [] q = child -> [me EXCEPT !.at =
                                IF run.demo = "fork_demo_1" THEN "child"
                                ELSE "fork"]
                          [] OTHER -> procs[q]]
    /\ UNCHANGED <<run, output>>

\* exit writes what is in the buffer.
ForkFails(p) ==
    /\ Moves(p, "fork") /\ procs[p].i < Forks
    /\ Puts(p, <<>>, TRUE, "failed")

\* The first program's child counts in its own memory.
PrintInChild(p) ==
    /\ Moves(p, "child")
    /\ Puts(p, <<ChildLine(p)>>, run.isatty, "fork")

\* The line with the process's number, by printf and then flushed or written at
\* exit; the third program writes it past the buffer.
PrintId(p) ==
    /\ Moves(p, "fork") /\ procs[p].i = Forks
    /\ IF run.demo = "fork_demo_3"
       THEN /\ output' = Append(output, p) \o procs[p].buffer
            /\ procs' = [procs EXCEPT ![p].at = "ended", ![p].buffer = <<>>]
            /\ UNCHANGED run
       ELSE Puts(p, <<p>>, TRUE, "ended")

Process(p) ==
    Announce(p) \/ Fork(p) \/ ForkFails(p) \/ PrintInChild(p) \/ PrintId(p)

Next == \E p \in DOMAIN procs : Process(p)

Spec == Init /\ [][Next]_forkVars

----------------------------------------------------------------------------
(* Properties *)

ForkTypeOK ==
    /\ DOMAIN procs \subseteq BoundedSeq(0 .. Forks, Forks)
    /\ \A p \in DOMAIN procs :
          procs[p].at \in {"start", "fork", "child", "failed", "ended"}

\* On a terminal, and by fork_demo_3 anywhere, the first line is printed once,
\* in whatever order the processes run; otherwise there is one for each process
\* that has ended, and every other line is there once.
Lines(p) == Cardinality({k \in DOMAIN output : output[k] = p})
OutputOnce ==
    LET over == {p \in DOMAIN procs : procs[p].at \in {"ended", "failed"}}
    IN  /\ IF run.isatty \/ run.demo = "fork_demo_3"
           THEN Lines(First) <= 1
           ELSE Lines(First) = Cardinality(over)
        /\ \A p \in DOMAIN procs :
              /\ Lines(p) = IF procs[p].at = "ended" THEN 1 ELSE 0
              /\ Lines(ChildLine(p)) <= 1
=============================================================================
