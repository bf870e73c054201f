----------------------------- MODULE WaitDemos -----------------------------
(***************************************************************************)
(* processes/wait_demo_1, waitpid_demo and waitid_demo: a parent reports   *)
(* what becomes of its child.  The kernel keeps the last change of the     *)
(* child's state only, so a parent that is slow misses the ones before.    *)
(***************************************************************************)
EXTENDS Integers, Sequences

CONSTANTS ExitCodes,     \* that the user may ask the child to exit with
          MaxStops       \* bound: how often the child is stopped

WaitAssumption == ExitCodes \subseteq Nat /\ MaxStops \in Nat

VARIABLES
    demo,      \* the program
    child,     \* "running", "stopped", "zombie" or "reaped"
    changed,   \* the change that the kernel keeps: its number in changes, or 0
    changes,   \* history: all of them
    parent,    \* "waiting" or "ended"
    reports    \* what the parent printed, by number of the change

waitVars == <<demo, child, changed, changes, parent, reports>>

Init ==
    /\ demo \in {"wait_demo_1", "waitpid_demo", "waitid_demo"}
    /\ child = "running"
    /\ changed = 0 /\ changes = <<>>
    /\ parent = "waiting"
    /\ reports = <<>>

----------------------------------------------------------------------------
(* The child, and who stops, continues and kills it *)

Change(state, what) ==
    /\ child' = state
    /\ changes' = Append(changes, what)
    /\ changed' = Len(changes) + 1
    /\ UNCHANGED <<demo, parent, reports>>

\* The status has room for eight bits of the value.
Exit ==
    /\ child = "running"
    /\ \E exit_code \in ExitCodes :
          /\ demo = "waitid_demo" => exit_code = 0
          /\ Change("zombie", <<"exited", exit_code % 256>>)
Killed == child \in {"running", "stopped"} /\ Change("zombie", <<"killed", 9>>)
Stopped ==
    /\ child = "running" /\ Len(changes) < 2 * MaxStops
    /\ Change("stopped", <<"stopped", 19>>)
Continued == child = "stopped" /\ Change("running", <<"continued", 18>>)

----------------------------------------------------------------------------
(* The parent *)

Final(k) == changes[k][1] \in {"exited", "killed"}

Report(k) ==
    /\ reports' = Append(reports, [number |-> k, what |-> changes[k]])
    /\ changed' = 0
    /\ child' = IF Final(k) THEN "reaped" ELSE child
    /\ parent' = IF Final(k) THEN "ended" ELSE parent
    /\ UNCHANGED <<demo, changes>>

\* wait blocks, and waitpid is called again and again, until the child is dead.
WaitForEnd ==
    /\ demo \in {"wait_demo_1", "waitpid_demo"}
    /\ parent = "waiting" /\ child = "zombie"
    /\ Report(changed)

\* Mutant of waitid: the loop ends with the first report.
WaitOnce ==
    /\ demo = "waitid_demo" /\ parent = "waiting" /\ changed # 0
    /\ reports' = Append(reports, [number |-> changed,
                                   what |-> changes[changed]])
    /\ changed' = 0 /\ parent' = "ended"
    /\ UNCHANGED <<demo, child, changes>>

\* waitid takes any change; without one it leaves si_code zero, and the loop
\* goes on.
waitid ==
    /\ demo = "waitid_demo" /\ parent = "waiting" /\ changed # 0
    /\ Report(changed)

Next == Exit \/ Killed \/ Stopped \/ Continued \/ WaitForEnd \/ waitid

Spec == Init /\ [][Next]_waitVars

----------------------------------------------------------------------------
(* Properties *)

WaitTypeOK ==
    /\ child \in {"running", "stopped", "zombie", "reaped"}
    /\ changed \in 0 .. Len(changes)
    /\ parent \in {"waiting", "ended"}

\* What is reported did happen, in that order and each change once; the parent
\* ends with the report of the child's end, and leaves no zombie.
ReportsAreTrue ==
    /\ \A j \in DOMAIN reports :
          /\ reports[j].what = changes[reports[j].number]
          /\ \A k \in DOMAIN reports :
                j < k => reports[j].number < reports[k].number
    /\ parent = "ended" =>
          /\ child = "reaped"
          /\ reports[Len(reports)].number = Len(changes)

\* The parent of a dead child ends.
WaitSettled == child = "zombie" => parent = "ended"
=============================================================================
