---------------------------- MODULE InnerProduct ----------------------------
(***************************************************************************)
(* threads/inner_product/inner_product.c: main reads two vectors from      *)
(* files, every thread multiplies its segment of them into a local sum and *)
(* adds that to a shared total under a mutex.                              *)
(*                                                                         *)
(* The vectors hold integers here.  Reading the total and writing it back  *)
(* are two steps, which is what the mutex is for.                          *)
(***************************************************************************)
EXTENDS Integers, Sequences, FiniteSetsExt, Segments

CONSTANTS NumThreads,  \* NUM_THREADS
          Length,      \* first command line argument
          Files        \* the number files that can be given, as sequences

SizesAssumption ==
    /\ NumThreads \in Nat \ {0}
    /\ Length \in Nat
    /\ \A f \in Files : f \in Seq(Nat)

Threads == 0 .. NumThreads - 1
Free == -1  \* no thread

VARIABLES
    file_a, file_b,      \* what the two files hold
    a_vector, b_vector,
    total,
    mutex_sum,           \* the thread that holds the mutex, or Free
    pc,                  \* where each thread is
    temp_sum,            \* local of each thread
    seen,                \* the total as a thread has just read it
    created,             \* how many threads main has created, -1 before
                         \* it has read the files
    joined               \* how many it has joined

vectors == <<file_a, file_b, a_vector, b_vector>>
vars == <<vectors, total, mutex_sum, pc, temp_sum, seen, created, joined>>

Zero == [j \in 0 .. Length - 1 |-> 0]

Init ==
    /\ file_a \in Files
    /\ file_b \in Files
    /\ a_vector = Zero
    /\ b_vector = Zero
    /\ total = 0
    /\ mutex_sum = Free
    /\ pc = [t \in Threads |-> "new"]
    /\ temp_sum = [t \in Threads |-> 0]
    /\ seen = [t \in Threads |-> 0]
    /\ created = -1
    /\ joined = 0

Move(t, from, to) == pc[t] = from /\ pc' = [pc EXCEPT ![t] = to]

\* The products of the elements lo .. hi of two vectors, added up.
SumOfProducts(a, b, lo, hi) == MapThenSumSet(LAMBDA j : a[j] * b[j], lo .. hi)

----------------------------------------------------------------------------
(* inner_product *)

MultiplySegment(t) ==
    /\ Move(t, "start", "lock")
    /\ temp_sum' = [temp_sum EXCEPT ![t] =
                       SumOfProducts(a_vector, b_vector,
                                     first(t, Length, NumThreads),
                                     last(t, Length, NumThreads))]
    /\ UNCHANGED <<vectors, total, mutex_sum, seen, created, joined>>

Lock(t) ==
    /\ mutex_sum = Free
    /\ mutex_sum' = t
    /\ Move(t, "lock", "read")
    /\ UNCHANGED <<vectors, total, temp_sum, seen, created, joined>>

ReadTotal(t) ==
    /\ Move(t, "read", "write")
    /\ seen' = [seen EXCEPT ![t] = total]
    /\ UNCHANGED <<vectors, total, mutex_sum, temp_sum, created, joined>>

WriteTotal(t) ==
    /\ Move(t, "write", "unlock")
    /\ total' = seen[t] + temp_sum[t]
    /\ UNCHANGED <<vectors, mutex_sum, temp_sum, seen, created, joined>>

Unlock(t) ==
    /\ Move(t, "unlock", "exited")
    /\ mutex_sum' = Free
    /\ UNCHANGED <<vectors, total, temp_sum, seen, created, joined>>

inner_product(t) ==
    \/ MultiplySegment(t)
    \/ Lock(t)
    \/ ReadTotal(t)
    \/ WriteTotal(t)
    \/ Unlock(t)

----------------------------------------------------------------------------
(* main *)

\* Numbers past Length are not stored, and elements the file has no number
\* for stay zero.
FromFile(file) ==
    [j \in 0 .. Length - 1 |-> IF j < Len(file) THEN file[j + 1] ELSE 0]

ReadFiles ==
    /\ created = -1
    /\ a_vector' = FromFile(file_a)
    /\ b_vector' = FromFile(file_b)
    /\ created' = 0
    /\ UNCHANGED <<file_a, file_b, total, mutex_sum, pc, temp_sum, seen,
                   joined>>

Create ==
    /\ created \in Threads
    /\ Move(created, "new", "start")
    /\ created' = created + 1
    /\ UNCHANGED <<vectors, total, mutex_sum, temp_sum, seen, joined>>

Join ==
    /\ created = NumThreads
    /\ joined \in Threads
    /\ pc[joined] = "exited"
    /\ joined' = joined + 1
    /\ UNCHANGED <<vectors, total, mutex_sum, pc, temp_sum, seen, created>>

main == ReadFiles \/ Create \/ Join

Returned == joined = NumThreads
Terminated == Returned /\ UNCHANGED vars

Next ==
    \/ \E t \in Threads : inner_product(t)
    \/ main
    \/ Terminated

Spec == Init /\ [][Next]_vars

----------------------------------------------------------------------------
(* Properties *)

TypeOK ==
    /\ a_vector \in [0 .. Length - 1 -> Nat]
    /\ b_vector \in [0 .. Length - 1 -> Nat]
    /\ total \in Nat
    /\ mutex_sum \in Threads \union {Free}
    /\ pc \in [Threads -> {"new", "start", "lock", "read", "write", "unlock",
                           "exited"}]
    /\ temp_sum \in [Threads -> Nat]
    /\ seen \in [Threads -> Nat]
    /\ created \in -1 .. NumThreads
    /\ joined \in 0 .. NumThreads

\* Main prints the inner product of the numbers the two files have in common
\* up to Length, whatever the segments and whichever thread adds last.
TotalIsInnerProduct ==
    LET common == {j \in 1 .. Length : j <= Len(file_a) /\ j <= Len(file_b)}
    IN  Returned
            => total = MapThenSumSet(LAMBDA j : file_a[j] * file_b[j], common)
=============================================================================
