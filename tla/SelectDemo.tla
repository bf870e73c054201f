----------------------------- MODULE SelectDemo -----------------------------
(***************************************************************************)
(* pipes/upcase/select_demo.c: three children write into a pipe each, and  *)
(* the parent is to select between the pipes and its terminal.  It closes  *)
(* pipeset[i][i], which is the read end of the first pipe, the write end   *)
(* of the second, and whatever number is behind the array; so select finds *)
(* a closed descriptor, and the parent ends without a message.  A child    *)
(* inherits the ends of the pipes made before it, which keeps the earlier  *)
(* children alive.                                                         *)
(***************************************************************************)
EXTENDS Integers

CONSTANT Writes   \* messages of a child, Bye!! included
SelectAssumption == Writes \in Nat \ {0}

VARIABLES
    at,      \* parent: the number of pipes, or where it is
    holds,   \* for the parent and each child the ends of pipes it has open
    written, \* for each child how much it wrote
    fate     \* of the parent and of each child

selectVars == <<at, holds, written, fate>>

Pipes == 0 .. 2
Procs == Pipes \union {3}
Parent == 3
Ends == Pipes \X {0, 1}

Init ==
    /\ at = 0
    /\ holds = [p \in Procs |-> {}]
    /\ written = [i \in Pipes |-> 0]
    /\ fate = [p \in Procs |-> IF p = Parent THEN "running" ELSE "unborn"]

End(p, how) ==
    /\ fate' = [fate EXCEPT ![p] = how]
    /\ holds' = [holds EXCEPT ![p] = {}]

----------------------------------------------------------------------------
(* The parent *)

\* Mutant of Fork: the parent closes the ends that it is to give away later.
ForkAndClose ==
    /\ at \in Pipes
    /\ holds' = [holds EXCEPT ![at] = {<<at, 1>>}]
    /\ fate' = [fate EXCEPT ![at] = "running"]
    /\ at' = at + 1
    /\ UNCHANGED written

\* pipe, fork, and the first thing that the child does.
Fork ==
    /\ at \in Pipes
    /\ LET both == holds[Parent] \union {<<at, 0>>, <<at, 1>>}
       IN  holds' = [holds EXCEPT ![Parent] = both, ![at] = both \ {<<at, 0>>}]
    /\ fate' = [fate EXCEPT ![at] = "running"]
    /\ at' = at + 1
    /\ UNCHANGED written

\* The loop of closes: the third one may hit any descriptor, or none.
CloseDiagonal ==
    /\ at = 3
    /\ \E hit \in SUBSET holds[Parent] :
          /\ \A e, f \in hit : e = f
          /\ holds' = [holds EXCEPT
                         ![Parent] = @ \ ({<<0, 0>>, <<1, 1>>} \union hit)]
    /\ at' = 4
    /\ UNCHANGED <<written, fate>>

\* With a closed descriptor in its set select fails, and the parent returns;
\* it would go on if all of the read ends were open.
Select ==
    /\ at = 4 /\ fate[Parent] = "running"
    /\ ~(Pipes \X {0} \subseteq holds[Parent])
    /\ End(Parent, "exited")
    /\ UNCHANGED <<at, written>>

parent == Fork \/ CloseDiagonal \/ Select

----------------------------------------------------------------------------
(* A child *)

Write(i) ==
    /\ fate[i] = "running" /\ written[i] < Writes
    /\ IF \E p \in Procs : <<i, 0>> \in holds[p]
       THEN written' = [written EXCEPT ![i] = @ + 1] /\ UNCHANGED <<holds, fate>>
       ELSE End(i, "killed") /\ UNCHANGED written
    /\ UNCHANGED at

Exit(i) ==
    /\ fate[i] = "running" /\ written[i] = Writes
    /\ End(i, "exited")
    /\ UNCHANGED <<at, written>>

child(i) == Write(i) \/ Exit(i)

Next == parent \/ \E i \in Pipes : child(i)

Spec == Init /\ [][Next]_selectVars

----------------------------------------------------------------------------
(* Properties *)

SelectTypeOK ==
    /\ at \in 0 .. 4
    /\ holds \in [Procs -> SUBSET Ends]
    /\ written \in [Pipes -> 0 .. Writes]
    /\ fate \in [Procs -> {"unborn", "running", "exited", "killed"}]

\* A child is killed by SIGPIPE only when the parent has closed descriptors and
\* all later children, which could read its pipe, have ended: the last one
\* goes first.
KilledLastFirst ==
    \A i \in Pipes : fate[i] = "killed" =>
        at = 4 /\ \A p \in Pipes : p > i => fate[p] \in {"exited", "killed"}

\* Everybody has ended.
SelectSettled == \A p \in Procs : fate[p] # "running"
=============================================================================
