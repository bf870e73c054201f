------------------------------ MODULE Rabbits ------------------------------
(***************************************************************************)
(* processes/rabbits2.c: a parent forks NumChildren children, installs a   *)
(* SIGCHLD handler that calls wait once for every time it runs, and polls  *)
(* the variables the handler sets.                                         *)
(*                                                                         *)
(* A pending SIGCHLD is one bit: deaths that come before the handler gets  *)
(* to run are merged into one run.  main leaves sa_flags of the handler    *)
(* unset, so any of the flags that matter may be on: with SA_NODEFER the   *)
(* handler can interrupt itself, with SA_RESETHAND it runs once, with      *)
(* SA_NOCLDWAIT dead children leave nothing to wait for, and only with     *)
(* SA_NOCLDSTOP a child that is stopped or continued raises no SIGCHLD.    *)
(***************************************************************************)
EXTENDS Integers, Sequences, SequencesExt

CONSTANTS NumChildren,  \* NUM_CHILDREN
          MaxStops      \* bound: how often children are stopped or continued

NumChildrenAssumption == NumChildren \in Nat \ {0} /\ MaxStops \in Nat

Children == 1 .. NumChildren
NoPid == 0
NoStatus == "none"
Statuses == {"exited", "signaled"}  \* what wait reports here of a death

VARIABLES
    \* the kernel
    child,             \* life of each child
    death,             \* how each child died
    sa_flags,          \* flags SIGCHLD was installed with
    disposition,       \* what SIGCHLD does to the parent
    pending,           \* SIGCHLD is pending
    stops,             \* how often a child was stopped or continued
    \* the parent
    pc,                \* where main is
    forked,            \* i of main
    count,             \* local of main
    pid, status, child_terminated,  \* shared with the handler
    frames             \* activations of on_sigchld, the running one last

kernel == <<child, death, sa_flags, disposition, pending, stops>>
shared == <<pid, status, child_terminated>>
vars == <<kernel, pc, forked, count, shared, frames>>

Init ==
    /\ child = [c \in Children |-> "unborn"]
    /\ death = [c \in Children |-> NoStatus]
    /\ sa_flags \in SUBSET {"SA_NODEFER", "SA_RESETHAND", "SA_NOCLDWAIT",
                           "SA_NOCLDSTOP"}
    /\ disposition = "default"
    /\ pending = FALSE
    /\ stops = 0
    /\ pc = "fork"
    /\ forked = 0
    /\ count = 0
    /\ pid = NoPid
    /\ status = "exited"  \* a global that is zero reads as a normal exit
    /\ child_terminated = FALSE
    /\ frames = <<>>

----------------------------------------------------------------------------
(* The children: they sleep until their time is over or a signal ends them *)

Installed == pc \notin {"fork", "install"}

\* A child that is stopped dies only if it is killed.
Die(c) ==
    /\ child[c] \in {"alive", "stopped"}
    /\ \E how \in Statuses :
          /\ child[c] = "stopped" => how = "signaled"
          /\ death' = [death EXCEPT ![c] = how]
    /\ child' = [child EXCEPT ![c] =
                    IF Installed /\ "SA_NOCLDWAIT" \in sa_flags
                    THEN "gone" ELSE "zombie"]
    /\ pending' = (pending \/ disposition = "handler")
    /\ UNCHANGED <<sa_flags, disposition, stops, pc, forked, count, shared,
                   frames>>

StopOrContinue(c) ==
    /\ stops < MaxStops
    /\ \E from, to \in {"alive", "stopped"} :
          /\ child[c] = from /\ from # to
          /\ child' = [child EXCEPT ![c] = to]
    /\ stops' = stops + 1
    /\ pending' = (\/ pending
                   \/ disposition = "handler" /\ "SA_NOCLDSTOP" \notin sa_flags)
    /\ UNCHANGED <<death, sa_flags, disposition, pc, forked, count, shared,
                   frames>>

----------------------------------------------------------------------------
(* on_sigchld *)

Top == frames[Len(frames)]
Running(at) == frames # <<>> /\ Top.at = at
Zombies == {c \in Children : child[c] = "zombie"}

\* What a new activation does to those it interrupts: a call of wait that finds
\* no zombie fails, unless it has not begun yet or is made again (SA_RESTART,
\* the flag that is not in sa_flags here, may be on as well).
Interrupted ==
    IF Running("wait") /\ Zombies = {}
    THEN {frames, [frames EXCEPT ![Len(frames)].at = "interrupted"]}
    ELSE {frames}

\* The kernel interrupts the parent; SIGCHLD is blocked while its handler
\* runs, unless SA_NODEFER is on.
Deliver ==
    /\ pending
    /\ frames = <<>> \/ "SA_NODEFER" \in sa_flags
    /\ pending' = FALSE
    /\ IF disposition = "handler"
       THEN /\ \E below \in Interrupted :
                  frames' = Append(below,
                                [at |-> "wait", child_status |-> NoStatus])
            /\ disposition' = IF "SA_RESETHAND" \in sa_flags
                              THEN "default" ELSE "handler"
       ELSE UNCHANGED <<frames, disposition>>
    /\ UNCHANGED <<child, death, sa_flags, stops, pc, forked, count, shared>>

\* wait returns some zombie; with none it blocks while a child has not died,
\* and fails when there is no child at all or it was interrupted, which leaves
\* child_status unset.
WaitInHandler ==
    /\ \/ \E c \in Zombies :
            /\ Running("wait")
            /\ child' = [child EXCEPT ![c] = "gone"]
            /\ pid' = c
            /\ frames' = [frames EXCEPT ![Len(frames)] =
                             [at |-> "store", child_status |-> death[c]]]
       \/ /\ \/ Running("wait") /\ \A c \in Children : child[c] = "gone"
             \/ Running("interrupted")
          /\ pid' = -1
          /\ \E garbage \in Statuses :
                frames' = [frames EXCEPT ![Len(frames)] =
                              [at |-> "store", child_status |-> garbage]]
          /\ UNCHANGED child
    /\ UNCHANGED <<death, sa_flags, disposition, pending, stops, pc, forked,
                   count, status, child_terminated>>

\* Mutants of StoreInHandler: the handler waits again, for whatever other child
\* may have died; the status is not copied.
StoreAndWaitAgain ==
    /\ Running("store")
    /\ child_terminated' = TRUE
    /\ status' = Top.child_status
    /\ frames' = [frames EXCEPT ![Len(frames)].at = "wait"]
    /\ UNCHANGED <<kernel, pc, forked, count, pid>>

StoreFlagOnly ==
    /\ Running("store")
    /\ child_terminated' = TRUE
    /\ frames' = Front(frames)
    /\ UNCHANGED <<kernel, pc, forked, count, pid, status>>

StoreInHandler ==
    /\ Running("store")
    /\ child_terminated' = TRUE
    /\ status' = Top.child_status
    /\ frames' = Front(frames)
    /\ UNCHANGED <<kernel, pc, forked, count, pid>>

on_sigchld == WaitInHandler \/ StoreInHandler

----------------------------------------------------------------------------
(* main, which makes no step while the handler runs *)

Fork ==
    /\ pc = "fork" /\ frames = <<>>
    /\ forked' = forked + 1
    /\ child' = [child EXCEPT ![forked + 1] = "alive"]
    /\ pid' = forked + 1
    /\ pc' = IF forked + 1 = NumChildren THEN "install" ELSE "fork"
    /\ UNCHANGED <<death, sa_flags, disposition, pending, stops, count, status,
                   child_terminated, frames>>

\* sigaction; deaths up to here raised no signal.
InstallHandler ==
    /\ pc = "install" /\ frames = <<>>
    /\ disposition' = "handler"
    /\ pc' = "reset"
    /\ UNCHANGED <<child, death, sa_flags, pending, stops, forked, count,
                   shared, frames>>

\* child_terminated = 0 after the handler is in place.
ResetFlag ==
    /\ pc = "reset" /\ frames = <<>>
    /\ child_terminated' = FALSE
    /\ pc' = "loop"
    /\ UNCHANGED <<kernel, forked, count, pid, status, frames>>

\* One turn of the loop; the handler may change status between the tests.
TestFlag ==
    /\ pc = "loop" /\ frames = <<>>
    /\ pc' = IF child_terminated THEN "exited?" ELSE "loop"
    /\ UNCHANGED <<kernel, forked, count, shared, frames>>

TestStatus(at, how, next) ==
    /\ pc = at /\ frames = <<>>
    /\ pc' = IF status = how THEN "loop" ELSE next
    /\ UNCHANGED <<kernel, forked, count, shared, frames>>

\* Only a child that was seen to have neither exited nor been killed is
\* counted, and only then is the flag taken down.
LayToRest ==
    /\ pc = "rest" /\ frames = <<>>
    /\ child_terminated' = FALSE
    /\ count' = count + 1
    /\ pc' = IF count' < NumChildren THEN "loop" ELSE "returned"
    /\ UNCHANGED <<kernel, forked, pid, status, frames>>

Poll ==
    \/ TestFlag
    \/ TestStatus("exited?", "exited", "signaled?")
    \/ TestStatus("signaled?", "signaled", "rest")
    \/ LayToRest

main == Fork \/ InstallHandler \/ ResetFlag \/ Poll

Next ==
    \/ \E c \in Children : Die(c) \/ StopOrContinue(c)
    \/ Deliver
    \/ on_sigchld
    \/ main

Spec == Init /\ [][Next]_vars

\* The sleep of a child that is not stopped ends, a pending signal is
\* delivered, and the parent runs.
FairSpec ==
    /\ Spec
    /\ \A c \in Children : WF_vars(child[c] = "alive" /\ Die(c))
    /\ WF_vars(Deliver)
    /\ WF_vars(on_sigchld)
    /\ WF_vars(main)

----------------------------------------------------------------------------
(* Properties *)

TypeOK ==
    /\ child \in [Children -> {"unborn", "alive", "stopped", "zombie", "gone"}]
    /\ death \in [Children -> Statuses \union {NoStatus}]
    /\ disposition \in {"default", "handler"}
    /\ pending \in BOOLEAN
    /\ stops \in 0 .. MaxStops
    /\ pc \in {"fork", "install", "reset", "loop", "exited?", "signaled?",
               "rest", "returned"}
    /\ forked \in 0 .. NumChildren
    /\ count \in 0 .. NumChildren
    /\ pid \in Children \union {NoPid, -1}
    /\ status \in Statuses \union {NoStatus}
    /\ child_terminated \in BOOLEAN
    /\ Len(frames) <= NumChildren + MaxStops

\* The handler calls wait without a zombie of its own no more often than a
\* child was stopped or continued, which raises SIGCHLD as well: neither merged
\* deaths nor a handler that interrupts itself make it wait in vain, unless
\* dead children leave no zombie.  "It only calls wait() when it is guaranteed
\* to succeed" (rabbits2.c:5) would need SA_NOCLDSTOP.
WaitsAreAccountedFor ==
    "SA_NOCLDWAIT" \notin sa_flags =>
        LET waiting == {f \in DOMAIN frames : frames[f].at = "wait"}
        IN  Cardinality(waiting) + (IF pending THEN 1 ELSE 0)
                <= Cardinality(Zombies) + stops

\* Between two activations of a handler that does not interrupt itself, the
\* parent never sees the pid of one child with the status of another.
PidMatchesStatus ==
    /\ sa_flags \intersect {"SA_NODEFER", "SA_NOCLDWAIT"} = {}
    /\ frames = <<>>
    /\ child_terminated /\ pid # -1
    => pid \in Children /\ status = death[pid]

\* "All rabbits ahve terminated and been laid to rest" (rabbits2.c:111): that
\* line is behind a loop that counts to NUM_CHILDREN, so each death that main is
\* told of has to be counted.
DeathsAreCounted ==
    \A k \in 0 .. NumChildren - 1 :
        pc = "loop" /\ child_terminated /\ count = k ~> count > k
=============================================================================
