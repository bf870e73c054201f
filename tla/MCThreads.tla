----------------------------- MODULE MCThreads -----------------------------
(***************************************************************************)
(* The small programs of threads/ that share no code: a behaviour is a run *)
(* of one of them.  Their modules name what they have in common alike: pc, *)
(* how many threads main has created, how many it has joined.  What a      *)
(* program does not have stays Unused.                                     *)
(***************************************************************************)
EXTENDS Integers, Sequences, FiniteSets

CONSTANTS NumThreads, NumsPerThread,       \* both square roots
          NumReaders, NumWriters,          \* reader_writer_locks
          SumThreads, SumSize,             \* barrier_sync
          ProductThreads, ProductLength,   \* inner_product
          FooThreads                       \* recursive_mutex

\* Number files shorter than, as long as and longer than vectors of 5.
Files == {<<3, 4>>, <<1, 2, 3, 4, 5>>, <<9, 8, 7, 6, 5, 4, 3>>}

VARIABLES
    program,                       \* the one that runs
    pc, created, joined,           \* of all
    update_mutex, count, temp, i, roots,                  \* both square roots
    rw_lock, done,                                        \* reader_writer_locks
    arrived,                       \* reader_writer_locks and barrier_sync
    k, half, sum,                                         \* barrier_sync
    file_a, file_b, a_vector, b_vector, total, mutex_sum, temp_sum, seen,
                                                          \* inner_product
    kind, owner, depth, counter, level, value, printed    \* recursive_mutex

common == <<program, pc, created, joined>>
rootVars == <<update_mutex, count, temp, i, roots>>
lockVars == <<rw_lock, done>>
barrierVars == <<k, half, sum>>
productVars == <<file_a, file_b, a_vector, b_vector, total, mutex_sum,
                 temp_sum, seen>>
fooVars == <<kind, owner, depth, counter, level, value, printed>>
vars == <<common, rootVars, lockVars, arrived, barrierVars, productVars,
          fooVars>>

greedy == INSTANCE GreedySquareRoots
calc == INSTANCE SquareRoots
locks == INSTANCE ReaderWriterLocks
barrier == INSTANCE BarrierSync WITH
            NumThreads <- SumThreads, ArraySize <- SumSize
product == INSTANCE InnerProduct WITH
            NumThreads <- ProductThreads, Length <- ProductLength
mutex == INSTANCE RecursiveMutex WITH NumThreads <- FooThreads

ASSUME AllSizes ==
    /\ greedy!SizesAssumption
    /\ calc!SizesAssumption
    /\ locks!SizesAssumption
    /\ barrier!SizesAssumption
    /\ product!SizesAssumption
    /\ mutex!SizesAssumption

Unused == <<>>
NoRoots ==
    /\ update_mutex = Unused /\ count = Unused /\ temp = Unused
    /\ i = Unused /\ roots = Unused
NoLocks == rw_lock = Unused /\ done = Unused
NoBarrier == k = Unused /\ half = Unused /\ sum = Unused
NoProduct ==
    /\ file_a = Unused /\ file_b = Unused
    /\ a_vector = Unused /\ b_vector = Unused
    /\ total = Unused /\ mutex_sum = Unused
    /\ temp_sum = Unused /\ seen = Unused
NoFoo ==
    /\ kind = Unused /\ owner = Unused /\ depth = Unused
    /\ counter = Unused /\ level = Unused /\ value = Unused
    /\ printed = Unused

Init ==
    \/ /\ program = "greedy_calc_sqrts" /\ greedy!Init
       /\ NoLocks /\ arrived = Unused /\ NoBarrier /\ NoProduct /\ NoFoo
    \/ /\ program = "calc_sqrts" /\ calc!Init
       /\ NoLocks /\ arrived = Unused /\ NoBarrier /\ NoProduct /\ NoFoo
    \/ /\ program = "reader_writer_locks" /\ locks!Init
       /\ NoRoots /\ NoBarrier /\ NoProduct /\ NoFoo
    \/ /\ program = "barrier_sync" /\ barrier!Init
       /\ NoRoots /\ NoLocks /\ NoProduct /\ NoFoo
    \/ /\ program = "inner_product" /\ product!Init
       /\ NoRoots /\ NoLocks /\ arrived = Unused /\ NoBarrier /\ NoFoo
    \/ /\ program = "recursive_mutex" /\ mutex!Init
       /\ NoRoots /\ NoLocks /\ arrived = Unused /\ NoBarrier /\ NoProduct

Next ==
    \/ /\ program = "greedy_calc_sqrts" /\ greedy!Next
       /\ UNCHANGED <<program, lockVars, arrived, barrierVars, productVars,
                      fooVars>>
    \/ /\ program = "calc_sqrts" /\ calc!Next
       /\ UNCHANGED <<program, lockVars, arrived, barrierVars, productVars,
                      fooVars>>
    \/ /\ program = "reader_writer_locks" /\ locks!Next
       /\ UNCHANGED <<program, rootVars, barrierVars, productVars, fooVars>>
    \/ /\ program = "barrier_sync" /\ barrier!Next
       /\ UNCHANGED <<program, rootVars, lockVars, productVars, fooVars>>
    \/ /\ program = "inner_product" /\ product!Next
       /\ UNCHANGED <<program, rootVars, lockVars, arrived, barrierVars,
                      fooVars>>
    \/ /\ program = "recursive_mutex" /\ mutex!Next
       /\ UNCHANGED <<program, rootVars, lockVars, arrived, barrierVars,
                      productVars>>

UserQuits == program = "reader_writer_locks" /\ done' # done

Spec == Init /\ [][Next]_vars

\* Some thread of the program runs as long as one can; the user need not ever
\* type anything.
FairSpec == Spec /\ WF_vars(Next /\ ~UserQuits)

----------------------------------------------------------------------------
(* Properties *)

TypeOK ==
    /\ program = "greedy_calc_sqrts" => greedy!TypeOK
    /\ program = "calc_sqrts" => calc!TypeOK
    /\ program = "reader_writer_locks" => locks!TypeOK
    /\ program = "barrier_sync" => barrier!TypeOK
    /\ program = "inner_product" => product!TypeOK
    /\ program = "recursive_mutex" => mutex!TypeOK

\* No root is missing when compute_roots of either program returns.  On the way
\* there, an index drawn from the counter of greedy_calc_sqrts is stored or in
\* the hands of one thread, never both, since the stores are outside of the
\* critical section (greedy_calc_sqrts.c:90); and no thread of calc_sqrts
\* stores outside of the array, although none compares its index with the size
\* (calc_sqrts.c:76).
AllRootsStored ==
    /\ program = "greedy_calc_sqrts" =>
          greedy!ClaimedOnce /\ greedy!AllRootsStored
    /\ program = "calc_sqrts" => calc!StoresInBounds /\ calc!AllRootsStored

\* Drawing from the counter of either program is claiming each index once, in
\* order, so the stores outside of the critical section never meet.  Indices
\* past the end, which the greedy threads draw to find out, are no claims.
Counter == INSTANCE SharedCounter WITH
    Size <- greedy!size,
    next <- CASE program = "greedy_calc_sqrts" ->
                     IF count < greedy!size THEN count ELSE greedy!size
              [] program = "calc_sqrts" -> count
              [] OTHER -> 0,
    pending <- CASE program = "greedy_calc_sqrts" ->
                        {temp[t] : t \in {u \in greedy!Threads :
                            /\ pc[u] \in {"check", "store"}
                            /\ temp[u] < greedy!size}}
                 [] program = "calc_sqrts" ->
                        {temp[t] : t \in {u \in calc!Threads : pc[u] = "store"}}
                 [] OTHER -> {},
    stored <- IF program \in {"greedy_calc_sqrts", "calc_sqrts"}
              THEN roots ELSE {}
ImplementsCounter == Counter!Spec

\* Barriers hold: no reader or writer gets past theirs before main has created
\* the last of them (reader_writer_locks.c:5), and the one before each halving
\* keeps the threads of barrier_sync from reading a cell that its owner may be
\* writing.
BarriersHold ==
    /\ program = "reader_writer_locks" => locks!NoHeadStart
    /\ program = "barrier_sync" => barrier!ReductionRaceFree

\* "The array total is" (barrier_sync.c:148) what main prints, with one element
\* for each thread, and main of inner_product prints the inner product of what
\* the files hold, whatever the segments and whichever thread adds last.  Each
\* thread of recursive_mutex counts twice with nobody in between, if the mutex
\* is the one that was asked for (recursive_mutex.c:49).
TotalsAreRight ==
    /\ program = "barrier_sync" => barrier!TotalIsPrinted
    /\ program = "inner_product" => product!TotalIsInnerProduct
    /\ program = "recursive_mutex" => mutex!CountedInTurn

\* Main joins all the threads of each program; those that read and write only
\* after the user has typed a character, and those that count only if the mutex
\* is not a normal one, on which the first of them waits for itself.
Returned ==
    CASE program = "greedy_calc_sqrts" -> greedy!Returned
      [] program = "calc_sqrts" -> calc!Returned
      [] program = "reader_writer_locks" -> locks!Returned
      [] program = "barrier_sync" -> barrier!Returned
      [] program = "inner_product" -> product!Returned
      [] program = "recursive_mutex" -> mutex!Returned
Terminates ==
    (/\ program = "reader_writer_locks" => done
     /\ program = "recursive_mutex" => kind # "normal") ~> Returned
=============================================================================
