--------------------------- MODULE RecursiveMutex ---------------------------
(***************************************************************************)
(* threads/recursive_mutex.c: every thread counts twice, once in foo and   *)
(* once in bar, which foo calls while it holds the mutex that bar takes.   *)
(*                                                                         *)
(* attr is never initialised (l.47-50), so what pthread_mutex_init makes   *)
(* of it is arbitrary: the recursive mutex that is asked for, an error     *)
(* that nobody looks at and the normal mutex of a global that is all zero, *)
(* or a mutex that cannot be locked, which nobody looks at either.         *)
(***************************************************************************)
EXTENDS Integers, Sequences

CONSTANT NumThreads  \* NUM_THREADS

SizesAssumption == NumThreads \in Nat

Threads == 0 .. NumThreads - 1
Free == -1  \* no thread

VARIABLES
    kind,            \* of the mutex
    owner, depth,    \* the thread that has it, and how often
    counter,
    pc,              \* where each thread is
    level,           \* the calls it is in: foo is one, bar another
    value,           \* the counter as it has just read it
    printed,         \* what it has printed of the counter
    created, joined  \* how many threads main has created and joined

mutexVars == <<kind, owner, depth>>
vars == <<mutexVars, counter, pc, level, value, printed, created, joined>>

Init ==
    /\ kind \in {"recursive", "normal", "unusable"}
    /\ owner = Free /\ depth = 0
    /\ counter = 0
    /\ pc = [t \in Threads |-> "new"]
    /\ level = [t \in Threads |-> 0]
    /\ value = [t \in Threads |-> 0]
    /\ printed = [t \in Threads |-> <<>>]
    /\ created = 0 /\ joined = 0

Goto(t, to) == pc' = [pc EXCEPT ![t] = to]
Move(t, from, to) == pc[t] = from /\ Goto(t, to)

----------------------------------------------------------------------------
(* foo and bar *)

Lock(t) ==
    /\ Move(t, "lock", "read")
    /\ \/ kind = "unusable" /\ UNCHANGED <<owner, depth>>
       \/ /\ kind = "recursive" /\ owner = t
          /\ depth' = depth + 1
          /\ UNCHANGED owner
       \/ /\ kind # "unusable" /\ owner = Free
          /\ owner' = t /\ depth' = 1
    /\ level' = [level EXCEPT ![t] = @ + 1]
    /\ UNCHANGED <<kind, counter, value, printed, created, joined>>

\* A thread that has the normal mutex waits for itself.
WaitForOneself(t) ==
    /\ pc[t] = "lock" /\ kind = "normal" /\ owner = t
    /\ UNCHANGED vars

ReadCounter(t) ==
    /\ Move(t, "read", "write")
    /\ value' = [value EXCEPT ![t] = counter]
    /\ UNCHANGED <<mutexVars, counter, level, printed, created, joined>>

WriteCounter(t) ==
    /\ Move(t, "write", "print")
    /\ counter' = value[t] + 1
    /\ UNCHANGED <<mutexVars, level, value, printed, created, joined>>

\* foo goes on to bar, and bar to its end.
PrintCounter(t) ==
    /\ Move(t, "print", IF level[t] = 1 THEN "lock" ELSE "unlock")
    /\ printed' = [printed EXCEPT ![t] = Append(@, counter)]
    /\ UNCHANGED <<mutexVars, counter, level, value, created, joined>>

Unlock(t) ==
    /\ Move(t, "unlock", IF level[t] = 1 THEN "exited" ELSE "unlock")
    /\ IF kind = "unusable" THEN UNCHANGED <<owner, depth>>
       ELSE /\ depth' = depth - 1
            /\ owner' = IF depth = 1 THEN Free ELSE owner
    /\ level' = [level EXCEPT ![t] = @ - 1]
    /\ UNCHANGED <<kind, counter, value, printed, created, joined>>

thread_routine(t) ==
    \/ Lock(t)
    \/ WaitForOneself(t)
    \/ ReadCounter(t)
    \/ WriteCounter(t)
    \/ PrintCounter(t)
    \/ Unlock(t)

----------------------------------------------------------------------------
(* main *)

Create ==
    /\ created \in Threads
    /\ Move(created, "new", "lock")
    /\ created' = created + 1
    /\ UNCHANGED <<mutexVars, counter, level, value, printed, joined>>

Join ==
    /\ created = NumThreads
    /\ joined \in Threads
    /\ pc[joined] = "exited"
    /\ joined' = joined + 1
    /\ UNCHANGED <<mutexVars, counter, pc, level, value, printed, created>>

Returned == joined = NumThreads
Terminated == Returned /\ UNCHANGED vars

Next ==
    \/ \E t \in Threads : thread_routine(t)
    \/ Create \/ Join \/ Terminated

Spec == Init /\ [][Next]_vars

----------------------------------------------------------------------------
(* Properties *)

TypeOK ==
    /\ kind \in {"recursive", "normal", "unusable"}
    /\ owner \in Threads \union {Free}
    /\ depth \in 0 .. 2
    /\ counter \in Nat
    /\ pc \in [Threads -> {"new", "lock", "read", "write", "print", "unlock",
                           "exited"}]
    /\ level \in [Threads -> 0 .. 2]
    /\ value \in [Threads -> Nat]
    /\ printed \in [Threads -> Seq(Nat)]
    /\ created \in 0 .. NumThreads
    /\ joined \in 0 .. NumThreads

\* With the mutex that was asked for, bar's unlock does not let anybody in
\* before foo's: each thread prints an odd number and the next, nobody else
\* prints those, and all the numbers up to two for each thread are printed.
CountedInTurn ==
    kind = "recursive" =>
        /\ \A t \in Threads :
              Len(printed[t]) = 2 =>
                  printed[t][1] % 2 = 1 /\ printed[t][2] = printed[t][1] + 1
        /\ \A t, u \in Threads :
              t # u /\ printed[t] # <<>> /\ printed[u] # <<>> =>
                  printed[t][1] # printed[u][1]
        /\ Returned => counter = 2 * NumThreads
=============================================================================
