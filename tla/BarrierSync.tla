---------------------------- MODULE BarrierSync ----------------------------
(***************************************************************************)
(* threads/barrier_sync.c: the threads add up an array.  Each adds an      *)
(* element of its segment to its own cell of sum, then all of them reduce  *)
(* the cells pairwise to sum[0], with a barrier before each halving; and   *)
(* this for every element, as the reduction is inside the loop over the    *)
(* segment.                                                                *)
(*                                                                         *)
(* A step of a thread is one access to a shared cell, or a barrier call.   *)
(* The barrier releases all the threads when the last of them arrives, and *)
(* is then ready for the next round.                                       *)
(***************************************************************************)
EXTENDS Integers, FiniteSets, Segments, FiniteSetsExt

CONSTANTS ArraySize,   \* first command line argument
          NumThreads   \* second command line argument

SizesAssumption ==
    /\ ArraySize \in Nat
    /\ NumThreads \in Nat \ {0}

Threads == 0 .. NumThreads - 1

\* main fills the array with its own indices.
array(k) == k
Total == MapThenSumSet(array, 0 .. ArraySize - 1)

VARIABLES
    pc,        \* where each thread is
    k,         \* local: index of the element in turn
    half,      \* local: cells that still take part in the reduction
    sum,       \* the shared cells
    arrived,   \* the threads waiting at the barrier
    created,   \* how many threads main has created
    joined     \* how many it has joined

vars == <<pc, k, half, sum, arrived, created, joined>>
main == <<created, joined>>

ThreadPc == {"new", "start", "element", "while", "barrier", "odd", "halve",
             "exited"}

Init ==
    /\ pc = [t \in Threads |-> "new"]
    /\ k = [t \in Threads |-> 0]
    /\ half = [t \in Threads |-> 0]
    /\ sum = [t \in Threads |-> 0]
    /\ arrived = {}
    /\ created = 0
    /\ joined = 0

Move(t, from, to) == pc[t] = from /\ pc' = [pc EXCEPT ![t] = to]

----------------------------------------------------------------------------
(* add_array *)

Start(tid) ==
    /\ Move(tid, "start", "element")
    /\ sum' = [sum EXCEPT ![tid] = 0]
    /\ k' = [k EXCEPT ![tid] = first(tid, ArraySize, NumThreads)]
    /\ UNCHANGED <<half, arrived, main>>

AddElement(tid) ==
    /\ k[tid] <= last(tid, ArraySize, NumThreads)
    /\ Move(tid, "element", "while")
    /\ sum' = [sum EXCEPT ![tid] = @ + array(k[tid])]
    /\ half' = [half EXCEPT ![tid] = NumThreads]
    /\ UNCHANGED <<k, arrived, main>>

Exit(tid) ==
    /\ k[tid] > last(tid, ArraySize, NumThreads)
    /\ Move(tid, "element", "exited")
    /\ UNCHANGED <<k, half, sum, arrived, main>>

NextElement(tid) ==
    /\ half[tid] <= 1
    /\ Move(tid, "while", "element")
    /\ k' = [k EXCEPT ![tid] = @ + 1]
    /\ UNCHANGED <<half, sum, arrived, main>>

\* Mutant of BarrierWait: the barrier lets everyone through.
BarrierPass(tid) ==
    /\ half[tid] > 1
    /\ Move(tid, "while", "odd")
    /\ UNCHANGED <<arrived, k, half, sum, main>>

BarrierWait(tid) ==
    /\ pc[tid] = "while"
    /\ half[tid] > 1
    /\ IF Cardinality(arrived) + 1 = NumThreads
       THEN /\ arrived' = {}
            /\ pc' = [t \in Threads |->
                         IF t \in arrived \union {tid} THEN "odd" ELSE pc[t]]
       ELSE /\ arrived' = arrived \union {tid}
            /\ pc' = [pc EXCEPT ![tid] = "barrier"]
    /\ UNCHANGED <<k, half, sum, main>>

\* Mutant of AddOdd: no thread adds the odd cell.
AddOddByNone(tid) ==
    /\ Move(tid, "odd", "halve")
    /\ UNCHANGED <<sum, k, half, arrived, main>>

\* Thread 0 takes the cell that has no partner.
AddOdd(tid) ==
    /\ Move(tid, "odd", "halve")
    /\ sum' = IF half[tid] % 2 = 1 /\ tid = 0
              THEN [sum EXCEPT ![0] = @ + sum[half[tid] - 1]]
              ELSE sum
    /\ UNCHANGED <<k, half, arrived, main>>

AddPartner(tid) ==
    /\ Move(tid, "halve", "while")
    /\ LET h == half[tid] \div 2
       IN  /\ half' = [half EXCEPT ![tid] = h]
           /\ sum' = IF tid < h THEN [sum EXCEPT ![tid] = @ + sum[tid + h]]
                                ELSE sum
    /\ UNCHANGED <<k, arrived, main>>

add_array(tid) ==
    \/ Start(tid)
    \/ AddElement(tid)
    \/ Exit(tid)
    \/ NextElement(tid)
    \/ BarrierWait(tid)
    \/ AddOdd(tid)
    \/ AddPartner(tid)

----------------------------------------------------------------------------
(* main *)

Create ==
    /\ created < NumThreads
    /\ Move(created, "new", "start")
    /\ created' = created + 1
    /\ UNCHANGED <<k, half, sum, arrived, joined>>

Join ==
    /\ created = NumThreads
    /\ joined < NumThreads
    /\ pc[joined] = "exited"
    /\ joined' = joined + 1
    /\ UNCHANGED <<pc, k, half, sum, arrived, created>>

Returned == joined = NumThreads
Terminated == Returned /\ UNCHANGED vars

Next ==
    \/ \E t \in Threads : add_array(t)
    \/ Create
    \/ Join
    \/ Terminated

Spec == Init /\ [][Next]_vars

FairSpec ==
    /\ Spec
    /\ \A t \in Threads : WF_vars(add_array(t))
    /\ WF_vars(Create)
    /\ WF_vars(Join)

----------------------------------------------------------------------------
(* Properties *)

TypeOK ==
    /\ pc \in [Threads -> ThreadPc]
    /\ k \in [Threads -> 0 .. ArraySize + NumThreads]
    /\ half \in [Threads -> 0 .. NumThreads]
    /\ sum \in [Threads -> 0 .. Total]
    /\ arrived \in SUBSET Threads
    /\ created \in 0 .. NumThreads
    /\ joined \in 0 .. NumThreads

\* The cells a thread's next step reads and writes.
Reads(t) ==
    CASE pc[t] = "odd" /\ t = 0 /\ half[t] % 2 = 1 -> {half[t] - 1}
      [] pc[t] = "halve" /\ t < half[t] \div 2     -> {t + half[t] \div 2}
      [] OTHER                                     -> {}
Writes(t) ==
    IF \/ pc[t] = "start"
       \/ pc[t] = "element" /\ k[t] <= last(t, ArraySize, NumThreads)
       \/ pc[t] = "odd" /\ t = 0 /\ half[t] % 2 = 1
       \/ pc[t] = "halve" /\ t < half[t] \div 2
    THEN {t} ELSE {}

\* With one element per thread no thread reads a cell of another thread that
\* the other may be writing at the same time: one barrier before each halving
\* is enough.
ReductionRaceFree ==
    \A t, u \in Threads : t # u => Reads(t) \intersect Writes(u) = {}

\* "The array total is" (barrier_sync.c:148) what main prints from sum[0]
\* once it has joined the threads.
TotalIsPrinted == Returned => sum[0] = Total

\* "join all threads so that we can add up their partial sums"
\* (barrier_sync.c:141): main gets to the print.
AllJoined == <>Returned
=============================================================================
