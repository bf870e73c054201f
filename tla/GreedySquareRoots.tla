------------------------- MODULE GreedySquareRoots -------------------------
(***************************************************************************)
(* threads/greedy_calc_sqrts.c: every thread draws indices from a shared   *)
(* counter until the counter has passed the end of the array, so one       *)
(* thread may do much of the work and another none.                        *)
(*                                                                         *)
(* A step is one access to shared data: taking update_mutex, reading the   *)
(* counter, writing it back and letting the mutex go, storing the root.    *)
(* The idle loop is left out.  An entry of the array is its index: roots   *)
(* is the set of indices whose entry was written.                          *)
(***************************************************************************)
EXTENDS Integers

CONSTANTS NumThreads,     \* NUM_THREADS
          NumsPerThread   \* NUMS_PER_THREAD

SizesAssumption ==
    /\ NumThreads \in Nat \ {0}
    /\ NumsPerThread \in Nat

size == NumThreads * NumsPerThread
Threads == 0 .. NumThreads - 1
Free == -1  \* no thread

VARIABLES
    pc,            \* where each thread is
    update_mutex,  \* the thread that holds the mutex, or Free
    count,         \* t_data->count
    temp,          \* local of each thread: the index it drew
    i,             \* local of each thread: its iterations
    roots,         \* indices whose root is in the array
    created,       \* how many threads compute_roots has created
    joined         \* how many it has joined

vars == <<pc, update_mutex, count, temp, i, roots, created, joined>>

ThreadPc == {"new", "start", "take_id", "loop", "read", "write", "check",
             "store", "exited"}

Init ==
    /\ pc = [t \in Threads |-> "new"]
    /\ update_mutex = Free
    /\ count = 0
    /\ temp = [t \in Threads |-> 0]
    /\ i = [t \in Threads |-> 0]
    /\ roots = {}
    /\ created = 0
    /\ joined = 0

At(t, from) == pc[t] = from
Goto(t, to) == pc' = [pc EXCEPT ![t] = to]
main == <<created, joined>>

\* Mutant of Acquire: the mutex is not taken.
AcquireNothing(t) == UNCHANGED update_mutex

Acquire(t) == update_mutex = Free /\ update_mutex' = t

----------------------------------------------------------------------------
(* calc_square_roots *)

LockForId(t) ==
    /\ At(t, "start")
    /\ Acquire(t)
    /\ Goto(t, "take_id")
    /\ UNCHANGED <<count, temp, i, roots, main>>

\* The thread copies tid, a local that nothing has written, to my_id, which
\* nothing reads: both are left out.
TakeId(t) ==
    /\ At(t, "take_id")
    /\ update_mutex' = Free
    /\ Goto(t, "loop")
    /\ UNCHANGED <<count, temp, i, roots, main>>

LockForCount(t) ==
    /\ At(t, "loop")
    /\ i[t] < size
    /\ Acquire(t)
    /\ Goto(t, "read")
    /\ UNCHANGED <<count, temp, i, roots, main>>

LoopEnds(t) ==
    /\ At(t, "loop")
    /\ i[t] >= size
    /\ Goto(t, "exited")
    /\ UNCHANGED <<update_mutex, count, temp, i, roots, main>>

ReadCount(t) ==
    /\ At(t, "read")
    /\ temp' = [temp EXCEPT ![t] = count]
    /\ Goto(t, "write")
    /\ UNCHANGED <<update_mutex, count, i, roots, main>>

WriteCount(t) ==
    /\ At(t, "write")
    /\ count' = temp[t] + 1
    /\ update_mutex' = Free
    /\ Goto(t, "check")
    /\ UNCHANGED <<temp, i, roots, main>>

\* Mutant of CheckSize: it stops an index early.
CheckSizeEarly(t) ==
    /\ At(t, "check")
    /\ Goto(t, IF temp[t] >= size - 1 THEN "exited" ELSE "store")
    /\ UNCHANGED <<update_mutex, count, temp, i, roots, main>>

CheckSize(t) ==
    /\ At(t, "check")
    /\ Goto(t, IF temp[t] >= size THEN "exited" ELSE "store")
    /\ UNCHANGED <<update_mutex, count, temp, i, roots, main>>

StoreRoot(t) ==
    /\ At(t, "store")
    /\ roots' = roots \union {temp[t]}
    /\ i' = [i EXCEPT ![t] = @ + 1]
    /\ Goto(t, "loop")
    /\ UNCHANGED <<update_mutex, count, temp, main>>

calc_square_roots(t) ==
    \/ LockForId(t)
    \/ TakeId(t)
    \/ LockForCount(t)
    \/ LoopEnds(t)
    \/ ReadCount(t)
    \/ WriteCount(t)
    \/ CheckSize(t)
    \/ StoreRoot(t)

----------------------------------------------------------------------------
(* compute_roots: create the threads in order, then join them in order *)

Create ==
    /\ created < NumThreads
    /\ Goto(created, "start")
    /\ created' = created + 1
    /\ UNCHANGED <<update_mutex, count, temp, i, roots, joined>>

Join ==
    /\ created = NumThreads
    /\ joined < NumThreads
    /\ At(joined, "exited")
    /\ joined' = joined + 1
    /\ UNCHANGED <<pc, update_mutex, count, temp, i, roots, created>>

compute_roots == Create \/ Join

Returned == joined = NumThreads
Terminated == Returned /\ UNCHANGED vars

Next ==
    \/ \E t \in Threads : calc_square_roots(t)
    \/ compute_roots
    \/ Terminated

Spec == Init /\ [][Next]_vars

----------------------------------------------------------------------------
(* Properties *)

TypeOK ==
    /\ pc \in [Threads -> ThreadPc]
    /\ update_mutex \in Threads \union {Free}
    /\ count \in Nat
    /\ temp \in [Threads -> Nat]
    /\ i \in [Threads -> 0 .. size]
    /\ roots \in SUBSET (0 .. size - 1)
    /\ created \in 0 .. NumThreads
    /\ joined \in 0 .. NumThreads

\* The index t holds between letting the mutex go and storing the root; it is
\* past the end of the array when the thread is about to stop.
Holds(t, k) == pc[t] \in {"check", "store"} /\ temp[t] = k

\* An index below the counter was given to one thread: it is in the array
\* already or one thread has it in hand, never both and never two threads.
\* This is what makes the store outside of the critical section safe.
ClaimedOnce ==
    \A k \in 0 .. size - 1 :
        LET holders == {t \in Threads : Holds(t, k)}
        IN  /\ k < count <=> k \in roots \/ holders # {}
            /\ k \in roots => holders = {}
            /\ \A t, u \in holders : t = u

\* A thread that gives up leaves no work behind: when compute_roots returns
\* every root is in the array, also when some threads never got an index.
AllRootsStored == Returned => roots = 0 .. size - 1

\* The counter as the threads see it, with the claims past the end left out.
Counter == INSTANCE SharedCounter WITH
               Size <- size,
               next <- IF count < size THEN count ELSE size,
               pending <- {temp[t] : t \in
                              {u \in Threads : /\ pc[u] \in {"check", "store"}
                                               /\ temp[u] < size}},
               stored <- roots
ImplementsCounter == Counter!Spec
=============================================================================
