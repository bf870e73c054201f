---------------------------- MODULE SignalDemos ----------------------------
(***************************************************************************)
(* Five programs that catch, ignore or block the signals of the keyboard:  *)
(* misc/sigaction_demo (v1, v2), misc/signal_demo (v1, v2) and             *)
(* misc/procmask_demo.  They differ in the calls that main makes and in    *)
(* what the handler is asked to do; the rest is the kernel's part.         *)
(***************************************************************************)
EXTENDS Integers, SequencesExt

CONSTANTS Rounds,      \* bound: rounds of a loop that only sleeps
          MaxRaised    \* bound: signals

SignalAssumption == {Rounds, MaxRaised} \subseteq Nat

VARIABLES
    asked,     \* the program, the words of the command line, sa_mask
    calls,     \* that main has yet to make
    kernel,    \* dispositions, the mask of main and the pending signals
    frames,    \* handlers that run, each interrupting the one before
    life,      \* "running", "ended" or the signal that killed it
    raised     \* history: number of signals, and those caught

signalVars == <<asked, calls, kernel, frames, life, raised>>

Signals == {"INT", "QUIT"}
Words == {"reset", "noblock", "restart"}
Sleeps == [k \in 1 .. Rounds |-> <<"sleep", "">>]

sigaction_demo_v2 ==
    <<<<"catch", "INT">>, <<"catch", "QUIT">>, <<"read", "">>>>
sigaction_demo_v1 == <<<<"catch", "INT">>, <<"sleep", "">>>>
signal_demo_v1 == <<<<"catch", "INT">>, <<"catch", "QUIT">>>> \o Sleeps
signal_demo_v2 == <<<<"ignore", "INT">>, <<"ignore", "QUIT">>>> \o Sleeps
procmask_demo == <<<<"block", "INT">>>> \o Sleeps \o
                 <<<<"unblock", "INT">>>> \o Sleeps

Programs == {"sigaction_demo_v1", "sigaction_demo_v2", "signal_demo_v1",
             "signal_demo_v2", "procmask_demo"}
Main(program) ==
    CASE program = "sigaction_demo_v1" -> sigaction_demo_v1
      [] program = "sigaction_demo_v2" -> sigaction_demo_v2
      [] program = "signal_demo_v1" -> signal_demo_v1
      [] program = "signal_demo_v2" -> signal_demo_v2
      [] program = "procmask_demo" -> procmask_demo

\* sa_mask is typed in by the user of the second sigaction_demo, and never set
\* by the first.
Init ==
    /\ asked \in [program : Programs, words : SUBSET Words,
                  sa_mask : SUBSET Signals]
    /\ asked.program # "sigaction_demo_v2" => asked.words = {}
    /\ asked.program \notin {"sigaction_demo_v1", "sigaction_demo_v2"}
            => asked.sa_mask = {}
    /\ calls = Main(asked.program)
    /\ kernel = [disposition |-> [s \in Signals |-> "default"],
                 mask |-> {}, pending |-> {}]
    /\ frames = <<>>
    /\ life = "running"
    /\ raised = [number |-> 0, caught |-> {}]

SA_RESETHAND == "reset" \in asked.words

\* Mutant of SA_NODEFER: it is always set.
SA_NODEFER_always == TRUE

\* The command line: restart sets the same flag as noblock.
SA_NODEFER == asked.words \intersect {"noblock", "restart"} # {}

----------------------------------------------------------------------------
(* The kernel *)

Masked(s) == asked.sa_mask \union (IF SA_NODEFER THEN {} ELSE {s})
Blocked == kernel.mask \union UNION {Masked(frames[k]) : k \in DOMAIN frames}
Deliverable == kernel.pending \ Blocked

\* A signal that is ignored is not kept; one that is pending is not counted.
Raise(s) ==
    /\ life = "running" /\ raised.number < MaxRaised
    /\ kernel' = IF kernel.disposition[s] = "ignore" THEN kernel
                 ELSE [kernel EXCEPT !.pending = @ \union {s}]
    /\ raised' = [raised EXCEPT !.number = @ + 1]
    /\ UNCHANGED <<asked, calls, frames, life>>

Deliver(s) ==
    /\ life = "running" /\ s \in Deliverable
    /\ IF kernel.disposition[s] = "default"
       THEN /\ life' = s
            /\ UNCHANGED <<kernel, frames, raised>>
       ELSE /\ frames' = Append(frames, s)
            /\ kernel' = [kernel EXCEPT !.pending = @ \ {s},
                            !.disposition[s] =
                                IF SA_RESETHAND THEN "default" ELSE @]
            /\ raised' = [raised EXCEPT !.caught = @ \union {s}]
            /\ UNCHANGED life
    /\ UNCHANGED <<asked, calls>>

----------------------------------------------------------------------------
(* The handlers: that of the first sigaction_demo exits. *)

Leave ==
    /\ life = "running" /\ frames # <<>> /\ Deliverable = {}
    /\ frames' = Front(frames)
    /\ life' = IF asked.program = "sigaction_demo_v1" THEN "ended" ELSE life
    /\ UNCHANGED <<asked, calls, kernel, raised>>

----------------------------------------------------------------------------
(* main *)

Runs == life = "running" /\ frames = <<>> /\ Deliverable = {}
Calls(name) == Runs /\ calls # <<>> /\ Head(calls)[1] = name
Return == calls' = Tail(calls) /\ UNCHANGED <<asked, frames, life, raised>>

\* sigaction, signal and sigprocmask.
SetDisposition ==
    /\ Calls("catch") \/ Calls("ignore")
    /\ kernel' = [kernel EXCEPT !.disposition[Head(calls)[2]] =
                                    Head(calls)[1]]
    /\ Return
SetMask ==
    /\ Calls("block") \/ Calls("unblock")
    /\ kernel' = [kernel EXCEPT !.mask =
                    IF Head(calls)[1] = "block" THEN {Head(calls)[2]} ELSE {}]
    /\ Return

\* sleep, or a read that gets the word quit; any other text is echoed, and a
\* read that a handler interrupted is made again.
Wait ==
    /\ Calls("sleep") \/ Calls("read")
    /\ UNCHANGED kernel
    /\ Return

End ==
    /\ Runs /\ calls = <<>>
    /\ life' = "ended"
    /\ UNCHANGED <<asked, calls, kernel, frames, raised>>

main == SetDisposition \/ SetMask \/ Wait \/ End

Next ==
    \/ \E s \in Signals : Raise(s) \/ Deliver(s)
    \/ Leave
    \/ main

Spec == Init /\ [][Next]_signalVars

----------------------------------------------------------------------------
(* Properties *)

SignalTypeOK ==
    /\ life \in {"running", "ended"} \union Signals
    /\ frames \in BoundedSeq(Signals, MaxRaised)

\* The demos do what the flags that reach the kernel ask for, of which `restart'
\* sets that of `noblock' (sigaction_demo_v2.c:60-61): without them a handler
\* is not entered again before it has returned, and it is never interrupted by
\* what the user wants blocked; a signal that has a handler kills only after
\* reset, and then without these flags not during the handler; and a signal
\* that came during the first loop of procmask_demo neither ends that loop nor
\* lets the second one begin.  What the words ask for is RestartDoesNotNest.
Nested ==
    \A j, k \in DOMAIN frames : j < k =>
        /\ frames[k] \notin asked.sa_mask
        /\ "noblock" \notin asked.words /\ "restart" \notin asked.words
                => frames[j] # frames[k]
Waiting(name, s) == <<name, s>> \in ToSet(calls)
KilledAsAsked ==
    \A s \in Signals : life = s =>
        \/ Waiting("catch", s) \/ Waiting("ignore", s)
        \/ asked.program = "sigaction_demo_v1" /\ s = "QUIT"
        \/ /\ asked.program = "sigaction_demo_v2"
           /\ "reset" \in asked.words /\ s \in raised.caught
           /\ asked.words \intersect {"noblock", "restart"} = {}
                => s \notin ToSet(frames)
        \/ /\ asked.program = "procmask_demo"
           /\ s = "INT" => Waiting("block", s) \/ ~Waiting("unblock", s)
SecondLoopAlone ==
    asked.program = "procmask_demo" /\ ~Waiting("unblock", "INT")
    /\ "INT" \in kernel.pending => life # "ended"
SignalsFollowFlags == Nested /\ KilledAsAsked /\ SecondLoopAlone

\* "restart turns on SA_RESTART" and "noblock turns on SA_NODEFER"
\* (sigaction_demo_v2.c:14-15): of the words, only noblock lets the handler be
\* entered recursively (l.18-23).
RestartDoesNotNest ==
    "noblock" \notin asked.words =>
        \A j, k \in DOMAIN frames : j < k => frames[j] # frames[k]
=============================================================================
