---------------------------- MODULE SquareRoots ----------------------------
(***************************************************************************)
(* threads/calc_sqrts.c: NumThreads threads draw NumsPerThread indices     *)
(* each from a shared counter and store the roots of what they drew.       *)
(* Nothing in the loop looks at the size of the array: that the indices    *)
(* stay inside it rests on the counts adding up.                           *)
(*                                                                         *)
(* A step is one access to shared data, as in GreedySquareRoots.           *)
(***************************************************************************)
EXTENDS Integers

CONSTANTS NumThreads,     \* NUM_THREADS
          NumsPerThread   \* NUMS_PER_THREAD

SizesAssumption ==
    /\ NumThreads \in Nat \ {0}
    /\ NumsPerThread \in Nat

size == NumThreads * NumsPerThread
Threads == 0 .. NumThreads - 1
Free == -1  \* no thread

nums_to_compute == size \div NumThreads

VARIABLES
    pc,            \* where each thread is
    update_mutex,  \* the thread that holds the mutex, or Free
    count,         \* t_data->count
    temp,          \* local of each thread: the index it drew
    i,             \* local of each thread: its iterations
    roots,         \* indices whose root is in the array
    created,       \* how many threads compute_roots has created
    joined         \* how many it has joined

vars == <<pc, update_mutex, count, temp, i, roots, created, joined>>
main == <<created, joined>>

Init ==
    /\ pc = [t \in Threads |-> "new"]
    /\ update_mutex = Free
    /\ count = 0
    /\ temp = [t \in Threads |-> 0]
    /\ i = [t \in Threads |-> 0]
    /\ roots = {}
    /\ created = 0
    /\ joined = 0

At(t, from) == pc[t] = from
Goto(t, to) == pc' = [pc EXCEPT ![t] = to]

----------------------------------------------------------------------------
(* calc_square_roots *)

\* Mutants of Lock: the mutex is not taken; one iteration too many.
LockNothing(t) ==
    /\ At(t, "loop")
    /\ i[t] < nums_to_compute
    /\ Goto(t, "read")
    /\ UNCHANGED <<update_mutex, count, temp, i, roots, main>>

LockOnceMore(t) ==
    /\ At(t, "loop")
    /\ i[t] <= nums_to_compute
    /\ update_mutex = Free
    /\ update_mutex' = t
    /\ Goto(t, "read")
    /\ UNCHANGED <<count, temp, i, roots, main>>

Lock(t) ==
    /\ At(t, "loop")
    /\ i[t] < nums_to_compute
    /\ update_mutex = Free
    /\ update_mutex' = t
    /\ Goto(t, "read")
    /\ UNCHANGED <<count, temp, i, roots, main>>

LoopEnds(t) ==
    /\ At(t, "loop")
    /\ i[t] >= nums_to_compute
    /\ Goto(t, "exited")
    /\ UNCHANGED <<update_mutex, count, temp, i, roots, main>>

ReadCount(t) ==
    /\ At(t, "read")
    /\ temp' = [temp EXCEPT ![t] = count]
    /\ Goto(t, "write")
    /\ UNCHANGED <<update_mutex, count, i, roots, main>>

WriteCount(t) ==
    /\ At(t, "write")
    /\ count' = temp[t] + 1
    /\ update_mutex' = Free
    /\ Goto(t, "store")
    /\ UNCHANGED <<temp, i, roots, main>>

StoreRoot(t) ==
    /\ At(t, "store")
    /\ roots' = roots \union {temp[t]}
    /\ i' = [i EXCEPT ![t] = @ + 1]
    /\ Goto(t, "loop")
    /\ UNCHANGED <<update_mutex, count, temp, main>>

calc_square_roots(t) ==
    \/ Lock(t)
    \/ LoopEnds(t)
    \/ ReadCount(t)
    \/ WriteCount(t)
    \/ StoreRoot(t)

----------------------------------------------------------------------------
(* compute_roots *)

Create ==
    /\ created < NumThreads
    /\ Goto(created, "loop")
    /\ created' = created + 1
    /\ UNCHANGED <<update_mutex, count, temp, i, roots, joined>>

Join ==
    /\ created = NumThreads
    /\ joined < NumThreads
    /\ At(joined, "exited")
    /\ joined' = joined + 1
    /\ UNCHANGED <<pc, update_mutex, count, temp, i, roots, created>>

compute_roots == Create \/ Join

Returned == joined = NumThreads
Terminated == Returned /\ UNCHANGED vars

Next ==
    \/ \E t \in Threads : calc_square_roots(t)
    \/ compute_roots
    \/ Terminated

Spec == Init /\ [][Next]_vars

----------------------------------------------------------------------------
(* Properties *)

TypeOK ==
    /\ pc \in [Threads -> {"new", "loop", "read", "write", "store", "exited"}]
    /\ update_mutex \in Threads \union {Free}
    /\ count \in 0 .. size
    /\ temp \in [Threads -> 0 .. size]
    /\ i \in [Threads -> 0 .. nums_to_compute]
    /\ roots \in SUBSET (0 .. size - 1)
    /\ created \in 0 .. NumThreads
    /\ joined \in 0 .. NumThreads

\* No store falls outside of the array, although no thread checks its index.
StoresInBounds == \A t \in Threads : At(t, "store") => temp[t] < size

\* When compute_roots returns, every root is in the array.
AllRootsStored == Returned => roots = 0 .. size - 1
=============================================================================
