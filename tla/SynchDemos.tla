----------------------------- MODULE SynchDemos -----------------------------
(***************************************************************************)
(* processes/synch_demo_1 and synch_demo_2: a parent and its child tell    *)
(* each other with SIGUSR1 when to work.  In both, a process that has not  *)
(* installed its handler yet is killed by the signal.                      *)
(***************************************************************************)
EXTENDS Integers, Sequences

CONSTANTS MaxCounter      \* bound: lines of a process of synch_demo_2

SynchAssumption == MaxCounter \in Nat \ {0}

Family == {"parent", "child"}
Other(p) == IF p = "parent" THEN "child" ELSE "parent"

VARIABLES
    demo,      \* the program
    at,        \* where both processes are
    caught,    \* SIGUSR1 has a handler (c_action, p_action), by process
    pending,   \* SIGUSR1 was sent and not delivered
    sigint,    \* SIGINT: has a handler, was received (sigint_received), or not
    counter,   \* the lines that a process has written
    file,      \* synch_demo_2: the file
    signals    \* history: the signals a process has sent

synchVars == <<demo, at, caught, pending, sigint, counter, file, signals>>

Init ==
    /\ demo \in {"synch_demo_1", "synch_demo_2"}
    /\ at = [p \in Family |-> "started"]
    /\ caught = [p \in Family |-> FALSE]
    /\ pending = [p \in Family |-> FALSE]
    /\ sigint = "default"
    /\ counter = [p \in Family |-> 0]
    /\ file = <<>>
    /\ signals = [p \in Family |-> 0]

Ended == {"exited", "killed"}
Alive(p) == at[p] \notin Ended
Goto(p, place) == at' = [at EXCEPT ![p] = place]

\* kill: signals of one kind do not queue up, and a zombie takes them, too.
KillOther(p) ==
    /\ signals' = [signals EXCEPT ![p] = @ + 1]
    /\ pending' = [pending EXCEPT ![Other(p)] = @ \/ Alive(Other(p))]

\* SIGUSR1 is delivered: it kills, or ends pause and sleep.
Deliver(p) ==
    /\ Alive(p) /\ pending[p]
    /\ pending' = [pending EXCEPT ![p] = FALSE]
    /\ at' = [at EXCEPT ![p] = CASE ~caught[p] -> "killed"
                                 [] caught[p] /\ at[p] = "pausing" ->
                                        "working"
                                 [] OTHER -> @]
    /\ UNCHANGED <<demo, caught, sigint, counter, file, signals>>

\* sigaction for SIGUSR1.
SetAction(p) ==
    /\ at[p] = "started"
    /\ demo = "synch_demo_1" => p = "child"
    /\ caught' = [caught EXCEPT ![p] = TRUE]
    /\ Goto(p, IF demo = "synch_demo_1" THEN "pause" ELSE "ready")
    /\ UNCHANGED <<demo, pending, sigint, counter, file, signals>>

----------------------------------------------------------------------------
(* synch_demo_1 *)

\* A signal that came before pause is lost on it.
Pause ==
    /\ demo = "synch_demo_1" /\ at["child"] = "pause"
    /\ Goto("child", "pausing")
    /\ UNCHANGED <<demo, caught, pending, sigint, counter, file, signals>>

\* The computation: ten lines, of which nothing but their end matters.
Compute ==
    /\ demo = "synch_demo_1" /\ at["child"] = "working"
    /\ counter' = [counter EXCEPT !["child"] = 10]
    /\ Goto("child", "exited")
    /\ UNCHANGED <<demo, caught, pending, sigint, file, signals>>

\* The parent sleeps, however long that is compared to the child's start.
Notice ==
    /\ demo = "synch_demo_1" /\ at["parent"] = "started"
    /\ KillOther("parent")
    /\ Goto("parent", "waiting")
    /\ UNCHANGED <<demo, caught, sigint, counter, file>>

wait ==
    /\ demo = "synch_demo_1" /\ at["parent"] = "waiting"
    /\ ~Alive("child")
    /\ Goto("parent", "exited")
    /\ UNCHANGED <<demo, caught, pending, sigint, counter, file, signals>>

----------------------------------------------------------------------------
(* synch_demo_2 *)

\* The parent's second sigaction, for SIGINT.
OnSigint ==
    /\ demo = "synch_demo_2" /\ at["parent"] = "ready" /\ sigint = "default"
    /\ sigint' = "caught"
    /\ UNCHANGED <<demo, at, caught, pending, counter, file, signals>>

Ready(p) == at[p] = "ready" /\ (p = "parent" => sigint # "default")

\* The two have one open file, and thus one position in it: no line is written
\* over another.
WriteLine(p) ==
    /\ demo = "synch_demo_2" /\ Ready(p)
    /\ counter[p] < MaxCounter
    /\ file' = Append(file, <<p, counter[p]>>)
    /\ counter' = [counter EXCEPT ![p] = @ + 1]
    /\ Goto(p, "written")
    /\ UNCHANGED <<demo, caught, pending, sigint, signals>>

\* Mutant of WriteLine: a file position of one's own.
OwnPosition(p) ==
    /\ demo = "synch_demo_2" /\ Ready(p)
    /\ counter[p] < MaxCounter
    /\ LET k == counter[p] + 1
       IN  file' = IF k \in DOMAIN file
                   THEN [file EXCEPT ![k] = <<p, counter[p]>>]
                   ELSE Append(file, <<p, counter[p]>>)
    /\ counter' = [counter EXCEPT ![p] = @ + 1]
    /\ Goto(p, "written")
    /\ UNCHANGED <<demo, caught, pending, sigint, signals>>

SendSignal(p) ==
    /\ demo = "synch_demo_2" /\ at[p] = "written"
    /\ KillOther(p)
    /\ Goto(p, IF p = "parent" THEN "signalled" ELSE "ready")
    /\ UNCHANGED <<demo, caught, sigint, counter, file>>

\* The parent looks for SIGINT at the end of each round only.
EndRound ==
    /\ demo = "synch_demo_2" /\ at["parent"] = "signalled"
    /\ Goto("parent", IF sigint = "received" THEN "exited" ELSE "ready")
    /\ UNCHANGED <<demo, caught, pending, sigint, counter, file, signals>>

\* The user types Ctrl-C: both get SIGINT, which the child does not catch.
\* Or SIGINT is sent to the parent alone.
Interrupt(group) ==
    /\ demo = "synch_demo_2" /\ Alive("parent") /\ sigint # "received"
    /\ "parent" \in group
    /\ sigint' = IF sigint = "caught" THEN "received" ELSE sigint
    /\ at' = [p \in Family |->
                 CASE p \notin group \/ ~Alive(p) -> at[p]
                   [] p = "parent" /\ sigint = "caught" -> at[p]
                   [] OTHER -> "killed"]
    /\ UNCHANGED <<demo, caught, pending, counter, file, signals>>

Parent == Deliver("parent") \/ SetAction("parent") \/ Notice \/ wait \/ OnSigint
          \/ WriteLine("parent") \/ SendSignal("parent") \/ EndRound
Child == Deliver("child") \/ SetAction("child") \/ Pause \/ Compute
         \/ WriteLine("child") \/ SendSignal("child")

Next ==
    \/ Parent
    \/ Child
    \/ \E group \in SUBSET Family : Interrupt(group)

Spec == Init /\ [][Next]_synchVars

----------------------------------------------------------------------------
(* Properties *)

SynchTypeOK ==
    /\ \A p \in Family :
          /\ at[p] \in Ended \cup {"started", "pause", "pausing", "working",
                                   "waiting", "ready", "written", "signalled"}
          /\ caught[p] \in BOOLEAN /\ pending[p] \in BOOLEAN
          /\ counter[p] \in 0 .. (IF demo = "synch_demo_1" THEN 10
                                  ELSE MaxCounter)
          /\ signals[p] \in 0 .. MaxCounter
    /\ sigint \in {"default", "caught", "received"}

\* The child of synch_demo_1 computes after the parent's notice only.
ComputesAfterNotice ==
    demo = "synch_demo_1" /\ counter["child"] > 0 => signals["parent"] = 1

\* The file of synch_demo_2 has all lines of both processes, each in its order:
\* neither writes over the other.
LinesOfBoth ==
    demo = "synch_demo_2" =>
       \A p \in Family :
          SelectSeq(file, LAMBDA l : l[1] = p)
             = [k \in 1 .. counter[p] |-> <<p, k - 1>>]

\* The parent of synch_demo_1 comes to its end, unless the signal was lost on
\* a child that pauses after it.
SynchSettled ==
    demo = "synch_demo_1" /\ at["parent"] # "exited" =>
       at["parent"] = "waiting" /\ at["child"] = "pausing"
=============================================================================
