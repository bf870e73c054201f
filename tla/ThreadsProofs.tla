---------------------------- MODULE ThreadsProofs ----------------------------
(***************************************************************************)
(* What the run of MCThreads checks on small instances, for every number   *)
(* of threads and every size of the arrays: each of five programs keeps an *)
(* invariant of its own, and a behaviour of MCThreads is one of a program. *)
(***************************************************************************)
EXTENDS MCThreads, FiniteSetTheorems, TLAPS

-----------------------------------------------------------------------------
(* greedy_calc_sqrts *)

\* The mutex is held by the thread that is inside a critical section.
GreedyMutex ==
    \A t \in greedy!Threads :
        update_mutex = t <=> pc[t] \in {"take_id", "read", "write"}

\* What a thread has drawn: the counter while it holds the mutex, an index
\* below the counter from then on.
GreedyTemp ==
    \A t \in greedy!Threads :
        /\ pc[t] = "write" => temp[t] = count
        /\ pc[t] \in {"check", "store"} => temp[t] < count
        /\ pc[t] = "store" => temp[t] < greedy!size

\* Every iteration of a thread has moved the counter, so a thread that ran
\* out of iterations has seen the counter pass the end, like one that gave up.
GreedyIteration ==
    \A t \in greedy!Threads :
        /\ i[t] <= count
        /\ pc[t] \in {"check", "store"} => i[t] < count
        /\ pc[t] \in {"read", "write", "check", "store"} => i[t] < greedy!size
        /\ pc[t] = "exited" => greedy!size <= count

\* compute_roots has joined only threads that exited, and threads it has not
\* created have not begun.
GreedyMain ==
    /\ \A t \in greedy!Threads : t < joined => pc[t] = "exited"
    /\ \A t \in greedy!Threads : created <= t => pc[t] = "new"

\* The invariant of greedy_calc_sqrts.
GreedyInv ==
    /\ greedy!TypeOK
    /\ GreedyMutex
    /\ GreedyTemp
    /\ GreedyIteration
    /\ GreedyMain
    /\ greedy!ClaimedOnce

\* What both square-root programs assume of their macros.
LEMMA RootSizes == NumThreads \in Nat \ {0} /\ NumsPerThread \in Nat
  BY AllSizes DEF greedy!SizesAssumption

\* There is a number of indices to draw.
LEMMA GreedySize == greedy!size \in Nat
  BY RootSizes DEF greedy!size

\* No thread is the owner of a free mutex.
LEMMA GreedyFree == greedy!Free \notin greedy!Threads
  BY DEF greedy!Free, greedy!Threads

USE DEF greedy!At, greedy!Goto, greedy!Acquire, greedy!main

\* The invariant holds before main has created a thread.
LEMMA GreedyInit == greedy!Init => GreedyInv
  <1> SUFFICES ASSUME greedy!Init PROVE GreedyInv
    OBVIOUS
  <1> USE RootSizes, GreedySize, GreedyFree DEF greedy!Init
  <1>1. greedy!TypeOK
    <2>1. 0 \in greedy!Threads BY DEF greedy!Threads
    <2> QED BY <2>1 DEF greedy!TypeOK, greedy!ThreadPc
  <1>2. GreedyMutex /\ GreedyTemp /\ GreedyIteration /\ GreedyMain
    BY DEF GreedyMutex, GreedyTemp, GreedyIteration, GreedyMain, greedy!Threads
  <1>3. greedy!ClaimedOnce
    BY DEF greedy!ClaimedOnce, greedy!Holds
  <1> QED
    BY <1>1, <1>2, <1>3 DEF GreedyInv

\* The claims do not change with a step that moves the threads without
\* letting one take up or put down an index of the array.
LEMMA GreedyClaimFrame ==
    ASSUME greedy!ClaimedOnce, count' = count, roots' = roots,
           \A t \in greedy!Threads, n \in 0 .. greedy!size - 1 :
              greedy!Holds(t, n)' <=> greedy!Holds(t, n)
    PROVE  greedy!ClaimedOnce'
  <1> SUFFICES ASSUME NEW n \in 0 .. greedy!size - 1
               PROVE  {t \in greedy!Threads : greedy!Holds(t, n)'}
                            = {t \in greedy!Threads : greedy!Holds(t, n)}
    BY GreedySize DEF greedy!ClaimedOnce
  <1> QED OBVIOUS

\* The parts of the invariant that are about single threads.
GreedyControl ==
    /\ greedy!TypeOK
    /\ GreedyMutex
    /\ GreedyTemp
    /\ GreedyIteration
    /\ GreedyMain

\* A step keeps what is about single threads.
LEMMA GreedyControlStep ==
    ASSUME GreedyInv,
           \/ \E t \in greedy!Threads : greedy!calc_square_roots(t)
           \/ greedy!compute_roots
    PROVE  GreedyControl'
  <1> USE GreedySize, GreedyFree DEF GreedyInv, GreedyControl, greedy!ThreadPc
  <1>1. ASSUME NEW t \in greedy!Threads, greedy!LockForId(t)
        PROVE  GreedyControl'
    <2>1. greedy!TypeOK'
      BY <1>1 DEF greedy!LockForId, greedy!TypeOK, GreedyIteration
    <2>2. GreedyMutex' BY <1>1 DEF greedy!LockForId, greedy!TypeOK, GreedyMutex
    <2>3. GreedyTemp'
      BY <1>1 DEF greedy!LockForId, greedy!TypeOK, GreedyMutex, GreedyTemp
    <2>4. GreedyIteration'
      BY <1>1
         DEF greedy!LockForId, greedy!TypeOK, GreedyMutex, GreedyTemp,
             GreedyIteration
    <2>5. GreedyMain' BY <1>1 DEF greedy!LockForId, greedy!TypeOK, GreedyMain
    <2> QED BY <2>1, <2>2, <2>3, <2>4, <2>5
  <1>2. ASSUME NEW t \in greedy!Threads, greedy!TakeId(t) PROVE GreedyControl'
    <2>1. greedy!TypeOK'
      BY <1>2 DEF greedy!TakeId, greedy!TypeOK, GreedyIteration
    <2>2. GreedyMutex' BY <1>2 DEF greedy!TakeId, greedy!TypeOK, GreedyMutex
    <2>3. GreedyTemp'
      BY <1>2 DEF greedy!TakeId, greedy!TypeOK, GreedyMutex, GreedyTemp
    <2>4. GreedyIteration'
      BY <1>2
         DEF greedy!TakeId, greedy!TypeOK, GreedyMutex, GreedyTemp,
             GreedyIteration
    <2>5. GreedyMain' BY <1>2 DEF greedy!TakeId, greedy!TypeOK, GreedyMain
    <2> QED BY <2>1, <2>2, <2>3, <2>4, <2>5
  <1>3. ASSUME NEW t \in greedy!Threads, greedy!LockForCount(t)
        PROVE  GreedyControl'
    <2>1. greedy!TypeOK'
      BY <1>3 DEF greedy!LockForCount, greedy!TypeOK, GreedyIteration
    <2>2. GreedyMutex'
      BY <1>3 DEF greedy!LockForCount, greedy!TypeOK, GreedyMutex
    <2>3. GreedyTemp'
      BY <1>3 DEF greedy!LockForCount, greedy!TypeOK, GreedyMutex, GreedyTemp
    <2>4. GreedyIteration'
      BY <1>3
         DEF greedy!LockForCount, greedy!TypeOK, GreedyMutex, GreedyTemp,
             GreedyIteration
    <2>5. GreedyMain'
      BY <1>3 DEF greedy!LockForCount, greedy!TypeOK, GreedyMain
    <2> QED BY <2>1, <2>2, <2>3, <2>4, <2>5
  <1>4. ASSUME NEW t \in greedy!Threads, greedy!LoopEnds(t)
        PROVE  GreedyControl'
    <2>1. greedy!TypeOK'
      BY <1>4 DEF greedy!LoopEnds, greedy!TypeOK, GreedyIteration
    <2>2. GreedyMutex' BY <1>4 DEF greedy!LoopEnds, greedy!TypeOK, GreedyMutex
    <2>3. GreedyTemp'
      BY <1>4 DEF greedy!LoopEnds, greedy!TypeOK, GreedyMutex, GreedyTemp
    <2>4. GreedyIteration'
      BY <1>4
         DEF greedy!LoopEnds, greedy!TypeOK, GreedyMutex, GreedyTemp,
             GreedyIteration
    <2>5. GreedyMain' BY <1>4 DEF greedy!LoopEnds, greedy!TypeOK, GreedyMain
    <2> QED BY <2>1, <2>2, <2>3, <2>4, <2>5
  <1>5. ASSUME NEW t \in greedy!Threads, greedy!ReadCount(t)
        PROVE  GreedyControl'
    <2>1. greedy!TypeOK'
      BY <1>5 DEF greedy!ReadCount, greedy!TypeOK, GreedyIteration
    <2>2. GreedyMutex' BY <1>5 DEF greedy!ReadCount, greedy!TypeOK, GreedyMutex
    <2>3. GreedyTemp'
      BY <1>5 DEF greedy!ReadCount, greedy!TypeOK, GreedyMutex, GreedyTemp
    <2>4. GreedyIteration'
      BY <1>5
         DEF greedy!ReadCount, greedy!TypeOK, GreedyMutex, GreedyTemp,
             GreedyIteration
    <2>5. GreedyMain' BY <1>5 DEF greedy!ReadCount, greedy!TypeOK, GreedyMain
    <2> QED BY <2>1, <2>2, <2>3, <2>4, <2>5
  <1>6. ASSUME NEW t \in greedy!Threads, greedy!WriteCount(t)
        PROVE  GreedyControl'
    <2>1. greedy!TypeOK'
      BY <1>6 DEF greedy!WriteCount, greedy!TypeOK, GreedyIteration
    <2>2. GreedyMutex'
      BY <1>6 DEF greedy!WriteCount, greedy!TypeOK, GreedyMutex
    <2>3. GreedyTemp'
      BY <1>6 DEF greedy!WriteCount, greedy!TypeOK, GreedyMutex, GreedyTemp
    <2>4. GreedyIteration'
      BY <1>6
         DEF greedy!WriteCount, greedy!TypeOK, GreedyMutex, GreedyTemp,
             GreedyIteration
    <2>5. GreedyMain' BY <1>6 DEF greedy!WriteCount, greedy!TypeOK, GreedyMain
    <2> QED BY <2>1, <2>2, <2>3, <2>4, <2>5
  <1>7. ASSUME NEW t \in greedy!Threads, greedy!CheckSize(t)
        PROVE  GreedyControl'
    <2>1. greedy!TypeOK'
      BY <1>7 DEF greedy!CheckSize, greedy!TypeOK, GreedyIteration
    <2>2. GreedyMutex' BY <1>7 DEF greedy!CheckSize, greedy!TypeOK, GreedyMutex
    <2>3. GreedyTemp'
      BY <1>7 DEF greedy!CheckSize, greedy!TypeOK, GreedyMutex, GreedyTemp
    <2>4. GreedyIteration'
      BY <1>7
         DEF greedy!CheckSize, greedy!TypeOK, GreedyMutex, GreedyTemp,
             GreedyIteration
    <2>5. GreedyMain' BY <1>7 DEF greedy!CheckSize, greedy!TypeOK, GreedyMain
    <2> QED BY <2>1, <2>2, <2>3, <2>4, <2>5
  <1>8. ASSUME NEW t \in greedy!Threads, greedy!StoreRoot(t)
        PROVE  GreedyControl'
    <2>1. greedy!TypeOK'
      <3>1. i[t] + 1 \in 0 .. greedy!size
        BY <1>8 DEF greedy!StoreRoot, greedy!TypeOK, GreedyIteration
      <3>2. temp[t] \in 0 .. greedy!size - 1
        BY <1>8 DEF greedy!StoreRoot, greedy!TypeOK, GreedyTemp
      <3> QED BY <1>8, <3>1, <3>2 DEF greedy!StoreRoot, greedy!TypeOK
    <2>2. GreedyMutex' BY <1>8 DEF greedy!StoreRoot, greedy!TypeOK, GreedyMutex
    <2>3. GreedyTemp'
      BY <1>8 DEF greedy!StoreRoot, greedy!TypeOK, GreedyMutex, GreedyTemp
    <2>4. GreedyIteration'
      BY <1>8
         DEF greedy!StoreRoot, greedy!TypeOK, GreedyMutex, GreedyTemp,
             GreedyIteration
    <2>5. GreedyMain' BY <1>8 DEF greedy!StoreRoot, greedy!TypeOK, GreedyMain
    <2> QED BY <2>1, <2>2, <2>3, <2>4, <2>5
  <1>9. CASE greedy!Create
    <2>1. greedy!TypeOK'
      <3>1. created \in greedy!Threads /\ created' \in 0 .. NumThreads
        BY <1>9, RootSizes
           DEF greedy!Create, greedy!TypeOK, greedy!Threads
      <3> QED BY <1>9, <3>1 DEF greedy!Create, greedy!TypeOK
    <2>2. GreedyMutex'
      BY <1>9 DEF greedy!Create, greedy!TypeOK, GreedyMutex, GreedyMain
    <2>3. GreedyTemp' BY <1>9 DEF greedy!Create, greedy!TypeOK, GreedyTemp
    <2>4. GreedyIteration'
      BY <1>9 DEF greedy!Create, greedy!TypeOK, GreedyIteration
    <2>5. GreedyMain'
      BY <1>9 DEF greedy!Create, greedy!TypeOK, GreedyMain, greedy!Threads
    <2> QED BY <2>1, <2>2, <2>3, <2>4, <2>5
  <1>10. CASE greedy!Join
    <2>1. greedy!TypeOK'
      <3>1. joined \in greedy!Threads /\ joined' \in 0 .. NumThreads
        BY <1>10, RootSizes
           DEF greedy!Join, greedy!TypeOK, greedy!Threads
      <3> QED BY <1>10, <3>1 DEF greedy!Join, greedy!TypeOK
    <2>2. GreedyMutex'
      BY <1>10 DEF greedy!Join, greedy!TypeOK, GreedyMutex, GreedyMain
    <2>3. GreedyTemp' BY <1>10 DEF greedy!Join, greedy!TypeOK, GreedyTemp
    <2>4. GreedyIteration'
      BY <1>10 DEF greedy!Join, greedy!TypeOK, GreedyIteration
    <2>5. GreedyMain'
      BY <1>10 DEF greedy!Join, greedy!TypeOK, GreedyMain, greedy!Threads
    <2> QED BY <2>1, <2>2, <2>3, <2>4, <2>5
  <1> QED
    BY <1>1, <1>2, <1>3, <1>4, <1>5, <1>6, <1>7, <1>8, <1>9, <1>10
       DEF greedy!calc_square_roots, greedy!compute_roots

\* Writing the counter back claims the index that was read, which nobody
\* has: all claims so far are below the counter.
LEMMA GreedyWrite ==
    ASSUME GreedyInv, NEW t \in greedy!Threads, greedy!WriteCount(t)
    PROVE  greedy!ClaimedOnce'
  <1> USE GreedySize DEF GreedyInv, greedy!WriteCount
  <1>1. temp[t] = count /\ count' = count + 1 /\ temp' = temp /\ count \in Nat
    BY DEF GreedyTemp, greedy!TypeOK
  <1>2. ASSUME NEW u \in greedy!Threads, NEW n \in 0 .. greedy!size - 1
       
       PROVE  greedy!Holds(u, n)'
                 <=> (greedy!Holds(u, n) \/ (u = t /\ n = count))
    BY <1>1 DEF greedy!Holds, greedy!TypeOK
  <1>3. \A u \in greedy!Threads : ~greedy!Holds(u, count)
    BY <1>1 DEF greedy!Holds, GreedyTemp
  <1>4. count \notin roots
    BY <1>1 DEF greedy!ClaimedOnce, greedy!TypeOK
  <1>5. ASSUME NEW n \in 0 .. greedy!size - 1
        PROVE  LET holders == {u \in greedy!Threads : greedy!Holds(u, n)'}
               IN  /\ n < count' <=> n \in roots' \/ holders # {}
                   /\ n \in roots' => holders = {}
                   /\ \A v, w \in holders : v = w
    <2>1. CASE n = count
      BY <2>1, <1>1, <1>2, <1>3, <1>4
    <2>2. CASE n # count
      <3>1. {u \in greedy!Threads : greedy!Holds(u, n)'}
               = {u \in greedy!Threads : greedy!Holds(u, n)}
        BY <2>2, <1>2
      <3> QED BY <2>2, <3>1, <1>1 DEF greedy!ClaimedOnce
    <2> QED BY <2>1, <2>2
  <1> QED BY <1>5 DEF greedy!ClaimedOnce

\* Storing a root moves its index from the thread to the array.
LEMMA GreedyStore ==
    ASSUME GreedyInv, NEW t \in greedy!Threads, greedy!StoreRoot(t)
    PROVE  greedy!ClaimedOnce'
  <1> USE GreedySize DEF GreedyInv, greedy!StoreRoot
  <1>1. /\ greedy!Holds(t, temp[t]) /\ temp[t] \in 0 .. greedy!size - 1
        /\ temp' = temp /\ count' = count
    BY DEF greedy!Holds, GreedyTemp, greedy!TypeOK
  <1>2. \A u \in greedy!Threads : greedy!Holds(u, temp[t]) => u = t
    BY <1>1 DEF greedy!ClaimedOnce
  <1>3. ASSUME NEW u \in greedy!Threads, NEW n \in 0 .. greedy!size - 1
        PROVE  greedy!Holds(u, n)' <=> greedy!Holds(u, n) /\ n # temp[t]
    BY <1>1, <1>2 DEF greedy!Holds, greedy!TypeOK
  <1>4. ASSUME NEW n \in 0 .. greedy!size - 1
        PROVE  LET holders == {u \in greedy!Threads : greedy!Holds(u, n)'}
               IN  /\ n < count' <=> n \in roots' \/ holders # {}
                   /\ n \in roots' => holders = {}
                   /\ \A v, w \in holders : v = w
    <2>1. CASE n = temp[t]
      BY <2>1, <1>1, <1>3 DEF greedy!ClaimedOnce
    <2>2. CASE n # temp[t]
      <3>1. {u \in greedy!Threads : greedy!Holds(u, n)'}
               = {u \in greedy!Threads : greedy!Holds(u, n)}
        BY <2>2, <1>3
      <3> QED BY <2>2, <3>1, <1>1 DEF greedy!ClaimedOnce
    <2> QED BY <2>1, <2>2
  <1> QED BY <1>4 DEF greedy!ClaimedOnce

\* A step keeps the invariant.
LEMMA GreedyStep ==
    ASSUME GreedyInv, [greedy!Next]_(greedy!vars)
    PROVE  GreedyInv'
  <1>1. ASSUME NEW t \in greedy!Threads, greedy!WriteCount(t) PROVE GreedyInv'
    BY <1>1, GreedyControlStep, GreedyWrite
       DEF GreedyInv, GreedyControl, greedy!calc_square_roots
  <1>2. ASSUME NEW t \in greedy!Threads, greedy!StoreRoot(t) PROVE GreedyInv'
    BY <1>2, GreedyControlStep, GreedyStore
       DEF GreedyInv, GreedyControl, greedy!calc_square_roots
  <1>3. ASSUME NEW t \in greedy!Threads,
               \/ greedy!LockForId(t) \/ greedy!TakeId(t)
               \/ greedy!LockForCount(t)
               \/ greedy!LoopEnds(t) \/ greedy!ReadCount(t)
        PROVE  GreedyInv'
    <2>1. \A u \in greedy!Threads, n \in 0 .. greedy!size - 1 :
              greedy!Holds(u, n)' <=> greedy!Holds(u, n)
      BY <1>3
         DEF GreedyInv, greedy!TypeOK, greedy!Holds, greedy!LockForId,
             greedy!TakeId, greedy!LockForCount,
                  greedy!LoopEnds, greedy!ReadCount
    <2>2. count' = count /\ roots' = roots
      BY <1>3
         DEF greedy!LockForId, greedy!TakeId, greedy!LockForCount,
             greedy!LoopEnds, greedy!ReadCount
    <2> QED
      BY <1>3, <2>1, <2>2, GreedyClaimFrame, GreedyControlStep
         DEF GreedyInv, GreedyControl, greedy!calc_square_roots
  <1>4. ASSUME NEW t \in greedy!Threads, greedy!CheckSize(t) PROVE GreedyInv'
    <2>1. \A u \in greedy!Threads, n \in 0 .. greedy!size - 1 :
              greedy!Holds(u, n)' <=> greedy!Holds(u, n)
      BY <1>4, GreedySize
         DEF GreedyInv, greedy!TypeOK, greedy!Holds, greedy!CheckSize
    <2>2. count' = count /\ roots' = roots
      BY <1>4 DEF greedy!CheckSize
    <2> QED
      BY <1>4, <2>1, <2>2, GreedyClaimFrame, GreedyControlStep
         DEF GreedyInv, GreedyControl, greedy!calc_square_roots
  <1>5. CASE greedy!compute_roots
    <2>1. \A u \in greedy!Threads, n \in 0 .. greedy!size - 1 :
              greedy!Holds(u, n)' <=> greedy!Holds(u, n)
      BY <1>5
         DEF GreedyInv, greedy!TypeOK, GreedyMain, greedy!Holds,
             greedy!compute_roots, greedy!Create, greedy!Join
    <2>2. count' = count /\ roots' = roots
      BY <1>5 DEF greedy!compute_roots, greedy!Create, greedy!Join
    <2> QED
      BY <1>5, <2>1, <2>2, GreedyClaimFrame, GreedyControlStep
         DEF GreedyInv, GreedyControl
  <1>6. CASE UNCHANGED greedy!vars
    BY <1>6
       DEF greedy!vars, GreedyInv, greedy!TypeOK, GreedyMutex, GreedyTemp,
           GreedyIteration, GreedyMain,
                greedy!ClaimedOnce, greedy!Holds
  <1> QED
    BY <1>1, <1>2, <1>3, <1>4, <1>5, <1>6
       DEF greedy!Next, greedy!calc_square_roots, greedy!Terminated

\* When main has joined the threads, nothing is left in their hands, and
\* every index has been drawn.
LEMMA GreedySafe ==
    ASSUME GreedyInv
    PROVE  greedy!ClaimedOnce /\ greedy!AllRootsStored
  <1> SUFFICES ASSUME joined = NumThreads
               PROVE  roots = 0 .. greedy!size - 1
    BY DEF greedy!AllRootsStored, greedy!Returned, GreedyInv
  <1>1. \A t \in greedy!Threads : pc[t] = "exited"
    BY RootSizes DEF GreedyInv, GreedyMain, greedy!Threads
  <1>2. greedy!size <= count
    <2>1. 0 \in greedy!Threads BY RootSizes DEF greedy!Threads
    <2> QED BY <1>1, <2>1 DEF GreedyInv, GreedyIteration
  <1>3. ASSUME NEW n \in 0 .. greedy!size - 1 PROVE n \in roots
    <2>1. {t \in greedy!Threads : greedy!Holds(t, n)} = {}
      BY <1>1 DEF greedy!Holds
    <2>2. n < count BY <1>2, GreedySize DEF GreedyInv, greedy!TypeOK
    <2> QED BY <2>1, <2>2 DEF GreedyInv, greedy!ClaimedOnce
  <1> QED BY <1>3 DEF GreedyInv, greedy!TypeOK

-----------------------------------------------------------------------------
(* calc_sqrts *)

USE DEF calc!At, calc!Goto, calc!main

\* The variables of calc_sqrts.
CalcTypes ==
    /\ pc \in [calc!Threads ->
                  {"new", "loop", "read", "write", "store", "exited"}]
    /\ update_mutex \in calc!Threads \union {calc!Free}
    /\ count \in Nat
    /\ temp \in [calc!Threads -> Nat]
    /\ i \in [calc!Threads -> 0 .. calc!nums_to_compute]
    /\ roots \in SUBSET Nat
    /\ created \in 0 .. NumThreads
    /\ joined \in 0 .. NumThreads

\* The mutex is held by the thread that is inside the critical section.
CalcMutex ==
    \A t \in calc!Threads : update_mutex = t <=> pc[t] \in {"read", "write"}

\* A thread in its loop body has an iteration left, and one that ended none.
CalcControl ==
    /\ \A t \in calc!Threads :
          /\ temp[t] <= count
          /\ pc[t] = "write" => temp[t] = count
          /\ pc[t] \in {"read", "write", "store"}
                => i[t] < calc!nums_to_compute
          /\ pc[t] = "exited" => i[t] = calc!nums_to_compute
          /\ t < joined => pc[t] = "exited"
          /\ created <= t => pc[t] = "new"

\* The index that t has drawn and not stored yet.
CalcHolds(t, n) == pc[t] = "store" /\ temp[t] = n

\* Every index below the counter is in the array or in the hands of one
\* thread, and none at or above it is.
CalcClaimed ==
    \A n \in Nat :
        /\ n < count <=> n \in roots \/ \E t \in calc!Threads : CalcHolds(t, n)
        /\ n \in roots => \A t \in calc!Threads : ~CalcHolds(t, n)
        /\ \A t, u \in calc!Threads :
              CalcHolds(t, n) /\ CalcHolds(u, n) => t = u

\* The iterations in which a thread has drawn an index, all threads together:
\* as many as the counter says.
Drawn ==
    {d \in calc!Threads \X (0 .. calc!nums_to_compute - 1) :
        \/ d[2] < i[d[1]]
        \/ d[2] = i[d[1]] /\ pc[d[1]] = "store"}
CalcCount == Cardinality(Drawn) = count

\* The invariant of calc_sqrts.
CalcInv == CalcTypes /\ CalcMutex /\ CalcControl /\ CalcClaimed /\ CalcCount

\* Every thread has a number of roots to compute.
LEMMA CalcNums ==
    /\ calc!nums_to_compute \in Nat
    /\ NumThreads * calc!nums_to_compute = calc!size
    /\ calc!size \in Nat
  <1>1. calc!size \in Nat BY RootSizes DEF calc!size
  <1>2. calc!nums_to_compute = NumsPerThread
    <2> DEFINE q == (NumThreads * NumsPerThread) \div NumThreads
    <2>1. /\ NumThreads * NumsPerThread \in Nat
          /\ NumThreads \in Nat /\ NumThreads > 0
      BY RootSizes, <1>1 DEF calc!size
    <2>2. q \in Int /\ q >= 0 BY <2>1, SMT
    <2>3. NumThreads * q <= NumThreads * NumsPerThread BY <2>1, SMT
    <2>4. NumThreads * NumsPerThread < NumThreads * q + NumThreads BY <2>1, SMT
    <2> HIDE DEF q
    <2>5. NumThreads * (NumsPerThread - q) >= 0
          /\ NumThreads * (NumsPerThread - q) < NumThreads
      BY <2>1, <2>2, <2>3, <2>4, RootSizes, Z3
    <2>6. ~(NumsPerThread - q >= 1)
      BY <2>1, <2>2, <2>5, RootSizes, Z3
    <2>7. ~(NumsPerThread - q <= -1)
      BY <2>1, <2>2, <2>5, RootSizes, Z3
    <2>8. NumsPerThread = q BY <2>2, <2>6, <2>7, RootSizes
    <2> QED BY <2>8 DEF q, calc!nums_to_compute, calc!size
  <1> QED BY <1>1, <1>2, RootSizes DEF calc!size

\* No thread is the owner of a free mutex.
LEMMA CalcFree == calc!Free \notin calc!Threads
  BY DEF calc!Free, calc!Threads

\* All the iterations there are.
LEMMA AllDraws ==
    LET all == calc!Threads \X (0 .. calc!nums_to_compute - 1)
    IN  IsFiniteSet(all) /\ Cardinality(all) = calc!size
  <1> DEFINE turns == 0 .. calc!nums_to_compute - 1
  <1>1. IsFiniteSet(calc!Threads) /\ Cardinality(calc!Threads) = NumThreads
    <2>1. 0 \in Int /\ NumThreads - 1 \in Int /\ ~(0 > NumThreads - 1)
      BY RootSizes
    <2>2. (NumThreads - 1) - 0 + 1 = NumThreads BY RootSizes
    <2> QED BY <2>1, <2>2, FS_Interval DEF calc!Threads
  <1>2. IsFiniteSet(turns) /\ Cardinality(turns) = calc!nums_to_compute
    <2> DEFINE n == calc!nums_to_compute
    <2>1. 0 \in Int /\ n - 1 \in Int /\ n \in Nat BY CalcNums
    <2> HIDE DEF n
    <2>2. /\ IsFiniteSet(0 .. n - 1)
          /\ Cardinality(0 .. n - 1) = IF 0 > n - 1 THEN 0 ELSE (n - 1) - 0 + 1
      BY <2>1, FS_Interval
    <2>3. (IF 0 > n - 1 THEN 0 ELSE (n - 1) - 0 + 1) = n BY <2>1
    <2>4. IsFiniteSet(0 .. n - 1) /\ Cardinality(0 .. n - 1) = n BY <2>2, <2>3
    <2> QED BY <2>4 DEF n
  <1> HIDE DEF turns
  <1>3. /\ IsFiniteSet(calc!Threads \X turns)
        /\ Cardinality(calc!Threads \X turns)
              = NumThreads * calc!nums_to_compute
    BY <1>1, <1>2, FS_Product
  <1> QED BY <1>3, CalcNums DEF turns

\* Threads draw no more indices than the array has; while one of them is
\* about to draw, fewer; and when all have ended, all of them.
LEMMA CountInBounds ==
    ASSUME CalcInv
    PROVE  /\ count \in 0 .. calc!size
           /\ (\E t \in calc!Threads : pc[t] \in {"read", "write"})
                 => count < calc!size
           /\ (\A t \in calc!Threads : pc[t] = "exited") => count = calc!size
  <1> DEFINE all == calc!Threads \X (0 .. calc!nums_to_compute - 1)
  <1> USE CalcNums DEF CalcInv
  <1>1. IsFiniteSet(all) /\ Cardinality(all) = calc!size BY AllDraws
  <1>2. Drawn \in SUBSET all BY DEF Drawn
  <1>3. /\ count <= calc!size
        /\ count = calc!size => Drawn = all
    <2> HIDE DEF all
    <2> QED BY <1>1, <1>2, FS_Subset DEF CalcCount
  <1>4. ASSUME NEW t \in calc!Threads, pc[t] \in {"read", "write"}
        PROVE  Drawn # all
    <2>1. <<t, i[t]>> \in all
      BY <1>4 DEF CalcControl, CalcTypes
    <2>2. <<t, i[t]>> \notin Drawn
      BY <1>4 DEF Drawn, CalcTypes
    <2> QED BY <2>1, <2>2
  <1>5. ASSUME \A t \in calc!Threads : pc[t] = "exited"
        PROVE  Drawn = all
    <2>1. ASSUME NEW d \in all PROVE d[1] \in calc!Threads /\ d[2] < i[d[1]]
      <3>1. /\ d[1] \in calc!Threads /\ d[2] \in Int
            /\ d[2] <= calc!nums_to_compute - 1
        OBVIOUS
      <3>2. i[d[1]] = calc!nums_to_compute BY <1>5, <3>1 DEF CalcControl
      <3> QED BY <3>1, <3>2
    <2>2. \A d \in all : d \in Drawn BY <2>1 DEF Drawn
    <2> HIDE DEF all
    <2> QED BY <1>2, <2>2
  <1> HIDE DEF all
  <1>6. count \in 0 .. calc!size BY <1>3 DEF CalcTypes
  <1> QED BY <1>1, <1>3, <1>4, <1>5, <1>6 DEF CalcCount

\* When main has joined the threads, as many indices have been drawn as there
\* are, and all of them are in the array.
LEMMA CalcSafe ==
    ASSUME CalcInv
    PROVE  calc!TypeOK /\ calc!StoresInBounds /\ calc!AllRootsStored
  <1> USE CalcNums, CountInBounds DEF CalcInv
  <1>1. \A n \in roots : n \in 0 .. calc!size - 1
    BY DEF CalcClaimed, CalcTypes
  <1>2. \A t \in calc!Threads : pc[t] = "store" => temp[t] < calc!size
    <2> SUFFICES ASSUME NEW t \in calc!Threads, pc[t] = "store"
                 PROVE  temp[t] < count
      BY DEF CalcTypes
    <2>1. CalcHolds(t, temp[t]) /\ temp[t] \in Nat
      BY DEF CalcHolds, CalcTypes
    <2> QED BY <2>1 DEF CalcClaimed
  <1>4. calc!TypeOK
    <2>1. temp \in [calc!Threads -> 0 .. calc!size]
      BY DEF CalcTypes, CalcControl
    <2>2. roots \in SUBSET (0 .. calc!size - 1) BY <1>1
    <2> QED BY <2>1, <2>2 DEF calc!TypeOK, CalcTypes
  <1>3. calc!StoresInBounds BY <1>2 DEF calc!StoresInBounds
  <1>5. calc!AllRootsStored
    <2> SUFFICES ASSUME joined = NumThreads PROVE roots = 0 .. calc!size - 1
      BY DEF calc!AllRootsStored, calc!Returned
    <2>1. \A t \in calc!Threads : pc[t] = "exited"
      BY RootSizes DEF CalcControl, calc!Threads
    <2>2. count = calc!size BY <2>1
    <2>3. \A n \in 0 .. calc!size - 1 : n \in roots
      BY <2>1, <2>2 DEF CalcClaimed, CalcHolds
    <2> QED BY <1>1, <2>3
  <1> QED BY <1>3, <1>4, <1>5

\* The invariant holds before main has created a thread.
LEMMA CalcInit == calc!Init => CalcInv
  <1> SUFFICES ASSUME calc!Init PROVE CalcInv
    OBVIOUS
  <1> USE RootSizes, CalcNums, CalcFree DEF calc!Init
  <1>1. CalcTypes /\ CalcMutex /\ CalcControl /\ CalcClaimed
    <2>1. 0 .. NumThreads - 1 = calc!Threads BY DEF calc!Threads
    <2>2. 0 \in 0 .. calc!nums_to_compute /\ 0 \in 0 .. NumThreads OBVIOUS
    <2>3. CalcTypes BY <2>1, <2>2 DEF CalcTypes
    <2>4. CalcMutex /\ CalcControl BY <2>1 DEF CalcMutex, CalcControl
    <2> QED BY <2>3, <2>4 DEF CalcClaimed, CalcHolds
  <1>2. CalcCount
    <2>1. Drawn = {} BY DEF Drawn
    <2> QED BY <2>1, FS_EmptySet DEF CalcCount
  <1> QED BY <1>1, <1>2 DEF CalcInv

\* Steps that neither draw an index nor store one.
LEMMA CalcFrame ==
    ASSUME CalcClaimed, CalcCount, count' = count, roots' = roots, i' = i,
           \A t \in calc!Threads :
              /\ pc'[t] = "store" <=> pc[t] = "store"
              /\ pc[t] = "store" => temp'[t] = temp[t]
    PROVE  CalcClaimed' /\ CalcCount'
  <1>1. \A t \in calc!Threads, n \in Nat : CalcHolds(t, n)' <=> CalcHolds(t, n)
    BY DEF CalcHolds
  <1>2. CalcClaimed' BY <1>1 DEF CalcClaimed
  <1>3. Drawn' = Drawn
    <2>1. ASSUME NEW d \in calc!Threads \X (0 .. calc!nums_to_compute - 1)
          PROVE  d[1] \in calc!Threads
      OBVIOUS
    <2> QED BY <2>1 DEF Drawn
  <1> QED BY <1>2, <1>3 DEF CalcCount

\* Writing the counter back draws the index that was read, which nobody has,
\* and is one more iteration in which an index was drawn.
LEMMA CalcWrite ==
    ASSUME CalcInv, NEW t \in calc!Threads, calc!WriteCount(t)
    PROVE  CalcClaimed' /\ CalcCount'
  <1> USE DEF CalcInv, calc!WriteCount
  <1>1. /\ temp[t] = count /\ count' = count + 1 /\ temp' = temp
        /\ count \in Nat /\ i' = i /\ roots' = roots
        /\ \A u \in calc!Threads : pc'[u] = IF u = t THEN "store" ELSE pc[u]
        /\ pc[t] = "write"
    BY DEF CalcControl, CalcTypes
  <1>2. ASSUME NEW u \in calc!Threads, NEW n \in Nat
        PROVE  CalcHolds(u, n)' <=> CalcHolds(u, n) \/ (u = t /\ n = count)
    BY <1>1 DEF CalcHolds
  <1>3. \A u \in calc!Threads : ~CalcHolds(u, count)
    BY <1>1 DEF CalcClaimed
  <1>4. CalcClaimed'
    <2> SUFFICES ASSUME NEW n \in Nat
          PROVE /\ n < count' <=> n \in roots'
                                     \/ \E u \in calc!Threads :
                                           CalcHolds(u, n)'
                /\ n \in roots' => \A u \in calc!Threads : ~CalcHolds(u, n)'
                /\ \A u, v \in calc!Threads :
                      CalcHolds(u, n)' /\ CalcHolds(v, n)' => u = v
      BY DEF CalcClaimed
    <2> HIDE DEF CalcInv, calc!WriteCount
    <2>1. CalcClaimed BY DEF CalcInv
    <2>2. CASE n = count BY <1>1, <1>2, <1>3, <2>1, <2>2 DEF CalcClaimed
    <2>3. CASE n # count BY <1>1, <1>2, <2>1, <2>3 DEF CalcClaimed
    <2> QED BY <2>2, <2>3
  <1>5. CalcCount'
    <2> DEFINE new == <<t, i[t]>>
    <2>1. /\ new \in calc!Threads \X (0 .. calc!nums_to_compute - 1)
          /\ new \notin Drawn
      BY <1>1, CalcNums DEF Drawn, CalcControl, CalcTypes
    <2>2. Drawn' = Drawn \union {new}
      <3>1. ASSUME NEW d \in calc!Threads \X (0 .. calc!nums_to_compute - 1)
            PROVE  d \in Drawn' <=> d \in Drawn \/ d = new
        <4>1. /\ d[1] \in calc!Threads /\ d = <<d[1], d[2]>> /\ d[2] \in Int
              /\ i[d[1]] \in Int
          BY CalcNums DEF CalcTypes
        <4>2. d \in Drawn <=> \/ d[2] < i[d[1]]
                              \/ d[2] = i[d[1]] /\ pc[d[1]] = "store"
          BY DEF Drawn
        <4>3. d \in Drawn' <=> \/ d[2] < i[d[1]]
                               \/ d[2] = i[d[1]] /\ pc'[d[1]] = "store"
          BY <1>1 DEF Drawn
        <4>4. d = new <=> d[1] = t /\ d[2] = i[t] BY <4>1
        <4> HIDE DEF new, CalcInv, calc!WriteCount
        <4>5. CASE d[1] = t BY <1>1, <4>1, <4>2, <4>3, <4>4, <4>5
        <4>6. CASE d[1] # t BY <1>1, <4>1, <4>2, <4>3, <4>4, <4>6
        <4> QED BY <4>5, <4>6
      <3>2. /\ Drawn \in SUBSET
                  (calc!Threads \X (0 .. calc!nums_to_compute - 1))
            /\ Drawn' \in SUBSET
                  (calc!Threads \X (0 .. calc!nums_to_compute - 1))
        BY DEF Drawn
      <3> HIDE DEF new
      <3> QED BY <2>1, <3>1, <3>2
    <2>3. IsFiniteSet(Drawn)
      <3>1. Drawn \in SUBSET (calc!Threads \X (0 .. calc!nums_to_compute - 1))
        BY DEF Drawn
      <3> QED BY <3>1, AllDraws, FS_Subset
    <2>4. Cardinality(Drawn') = Cardinality(Drawn) + 1
      BY <2>1, <2>2, <2>3, FS_AddElement
    <2> QED BY <1>1, <2>4 DEF CalcCount
  <1> QED BY <1>4, <1>5

\* Storing a root moves its index from the thread to the array, and the
\* iteration from the one at hand to those that are over.
LEMMA CalcStore ==
    ASSUME CalcInv, NEW t \in calc!Threads, calc!StoreRoot(t)
    PROVE  CalcClaimed' /\ CalcCount'
  <1> USE DEF CalcInv, calc!StoreRoot
  <1>1. /\ CalcHolds(t, temp[t]) /\ temp[t] \in Nat /\ pc[t] = "store"
        /\ temp' = temp /\ count' = count
        /\ roots' = roots \union {temp[t]}
        /\ i[t] \in Nat
        /\ \A u \in calc!Threads :
              /\ i'[u] = IF u = t THEN i[t] + 1 ELSE i[u]
              /\ pc'[u] = IF u = t THEN "loop" ELSE pc[u]
    <2>1. CalcHolds(t, temp[t]) /\ temp[t] \in Nat /\ pc[t] = "store"
      BY DEF CalcHolds, CalcTypes
    <2>2. /\ temp' = temp /\ count' = count
          /\ roots' = roots \union {temp[t]}
          /\ i[t] \in Nat
      BY CalcNums DEF CalcTypes
    <2>3. \A u \in calc!Threads : i'[u] = IF u = t THEN i[t] + 1 ELSE i[u]
      BY DEF CalcTypes
    <2>4. \A u \in calc!Threads : pc'[u] = IF u = t THEN "loop" ELSE pc[u]
      BY DEF CalcTypes
    <2> QED BY <2>1, <2>2, <2>3, <2>4
  <1>2. \A u \in calc!Threads : CalcHolds(u, temp[t]) => u = t
    BY <1>1 DEF CalcClaimed
  <1>3. ASSUME NEW u \in calc!Threads, NEW n \in Nat
        PROVE  CalcHolds(u, n)' <=> CalcHolds(u, n) /\ n # temp[t]
    <2>1. pc'[u] = (IF u = t THEN "loop" ELSE pc[u]) /\ temp'[u] = temp[u]
      BY <1>1
    <2>2. CalcHolds(u, n) /\ n = temp[t] => u = t BY <1>2
    <2> HIDE DEF CalcInv, calc!StoreRoot
    <2> QED BY <2>1, <2>2 DEF CalcHolds
  <1>4. CalcClaimed'
    <2> SUFFICES ASSUME NEW n \in Nat
          PROVE /\ n < count' <=> n \in roots'
                                     \/ \E u \in calc!Threads :
                                           CalcHolds(u, n)'
                /\ n \in roots' => \A u \in calc!Threads : ~CalcHolds(u, n)'
                /\ \A u, v \in calc!Threads :
                      CalcHolds(u, n)' /\ CalcHolds(v, n)' => u = v
      BY DEF CalcClaimed
    <2> HIDE DEF CalcInv, calc!StoreRoot
    <2>1. CalcClaimed BY DEF CalcInv
    <2>2. CASE n = temp[t] BY <1>1, <1>3, <2>1, <2>2 DEF CalcClaimed
    <2>3. CASE n # temp[t] BY <1>1, <1>3, <2>1, <2>3 DEF CalcClaimed
    <2> QED BY <2>2, <2>3
  <1>5. CalcCount'
    <2>1. ASSUME NEW d \in calc!Threads \X (0 .. calc!nums_to_compute - 1)
          PROVE  d[1] \in calc!Threads /\ d[2] \in Nat
      BY CalcNums
    <2>2. \A u \in calc!Threads : i[u] \in Nat BY CalcNums DEF CalcTypes
    <2>3. ASSUME NEW d \in calc!Threads \X (0 .. calc!nums_to_compute - 1)
          PROVE  (d[2] < i'[d[1]] \/ (d[2] = i'[d[1]] /\ pc'[d[1]] = "store"))
                   <=> (\/ d[2] < i[d[1]]
                        \/ d[2] = i[d[1]] /\ pc[d[1]] = "store")
      <3> HIDE DEF CalcInv, calc!StoreRoot
      <3> DEFINE e == d[1]
                 n == d[2]
      <3>1. /\ e \in calc!Threads /\ n \in Nat /\ i[e] \in Nat
            /\ i'[e] = IF e = t THEN i[t] + 1 ELSE i[e]
            /\ pc'[e] = IF e = t THEN "loop" ELSE pc[e]
        BY <1>1, <2>1, <2>2
      <3> HIDE DEF e, n
      <3>2. (n < i'[e] \/ (n = i'[e] /\ pc'[e] = "store"))
              <=> (n < i[e] \/ (n = i[e] /\ pc[e] = "store"))
        <4>1. CASE e = t BY <1>1, <3>1, <4>1
        <4>2. CASE e # t BY <3>1, <4>2
        <4> QED BY <4>1, <4>2
      <3> QED BY <3>2 DEF e, n
    <2>4. Drawn' = Drawn BY <2>3 DEF Drawn
    <2> QED BY <1>1, <2>4 DEF CalcCount
  <1> QED BY <1>4, <1>5

\* A step keeps the invariant.
LEMMA CalcStep ==
    ASSUME CalcInv, [calc!Next]_(calc!vars)
    PROVE  CalcInv'
  <1> USE CalcNums, CalcFree DEF CalcInv
  <1>1. ASSUME NEW t \in calc!Threads, calc!Lock(t) PROVE CalcInv'
    <2>1. CalcTypes' BY <1>1 DEF calc!Lock, CalcTypes
    <2>2. CalcMutex' BY <1>1 DEF calc!Lock, CalcTypes, CalcMutex
    <2>3. CalcControl' BY <1>1 DEF calc!Lock, CalcTypes, CalcMutex, CalcControl
    <2>4. CalcClaimed' /\ CalcCount'
      BY <1>1, CalcFrame DEF calc!Lock, CalcTypes
    <2> QED BY <2>1, <2>2, <2>3, <2>4
  <1>2. ASSUME NEW t \in calc!Threads, calc!LoopEnds(t) PROVE CalcInv'
    <2>1. CalcTypes' BY <1>2 DEF calc!LoopEnds, CalcTypes
    <2>2. CalcMutex' BY <1>2 DEF calc!LoopEnds, CalcTypes, CalcMutex
    <2>3. CalcControl' BY <1>2 DEF calc!LoopEnds, CalcTypes, CalcControl
    <2>4. CalcClaimed' /\ CalcCount'
      BY <1>2, CalcFrame DEF calc!LoopEnds, CalcTypes
    <2> QED BY <2>1, <2>2, <2>3, <2>4
  <1>3. ASSUME NEW t \in calc!Threads, calc!ReadCount(t) PROVE CalcInv'
    <2>1. CalcTypes' BY <1>3 DEF calc!ReadCount, CalcTypes
    <2>2. CalcMutex' BY <1>3 DEF calc!ReadCount, CalcTypes, CalcMutex
    <2>3. CalcControl'
      BY <1>3 DEF calc!ReadCount, CalcTypes, CalcMutex, CalcControl
    <2>4. CalcClaimed' /\ CalcCount'
      BY <1>3, CalcFrame DEF calc!ReadCount, CalcTypes
    <2> QED BY <2>1, <2>2, <2>3, <2>4
  <1>4. ASSUME NEW t \in calc!Threads, calc!WriteCount(t) PROVE CalcInv'
    <2>1. CalcTypes' BY <1>4 DEF calc!WriteCount, CalcTypes, CalcControl
    <2>2. CalcMutex' BY <1>4 DEF calc!WriteCount, CalcTypes, CalcMutex
    <2>3. CalcControl'
      BY <1>4 DEF calc!WriteCount, CalcTypes, CalcMutex, CalcControl
    <2> QED BY <1>4, <2>1, <2>2, <2>3, CalcWrite
  <1>5. ASSUME NEW t \in calc!Threads, calc!StoreRoot(t) PROVE CalcInv'
    <2>1. CalcTypes'
      <3>1. i[t] + 1 \in 0 .. calc!nums_to_compute
        BY <1>5 DEF calc!StoreRoot, CalcTypes, CalcControl
      <3> QED BY <1>5, <3>1 DEF calc!StoreRoot, CalcTypes
    <2>2. CalcMutex' BY <1>5 DEF calc!StoreRoot, CalcTypes, CalcMutex
    <2>3. CalcControl'
      BY <1>5 DEF calc!StoreRoot, CalcTypes, CalcMutex, CalcControl
    <2> QED BY <1>5, <2>1, <2>2, <2>3, CalcStore
  <1>6. CASE calc!Create
    <2>1. created \in calc!Threads /\ created' \in 0 .. NumThreads
      BY <1>6, RootSizes DEF calc!Create, CalcTypes, calc!Threads
    <2>2. CalcTypes' BY <1>6, <2>1 DEF calc!Create, CalcTypes
    <2>3. CalcMutex'
      BY <1>6, <2>1 DEF calc!Create, CalcTypes, CalcMutex, CalcControl
    <2>4. CalcControl'
      BY <1>6, <2>1 DEF calc!Create, CalcTypes, CalcControl, calc!Threads
    <2>5. CalcClaimed' /\ CalcCount'
      BY <1>6, <2>1, CalcFrame DEF calc!Create, CalcTypes, CalcControl
    <2> QED BY <2>2, <2>3, <2>4, <2>5
  <1>7. CASE calc!Join
    <2>1. joined \in calc!Threads /\ joined' \in 0 .. NumThreads
      BY <1>7, RootSizes DEF calc!Join, CalcTypes, calc!Threads
    <2>2. CalcTypes' BY <1>7, <2>1 DEF calc!Join, CalcTypes
    <2>3. CalcMutex' BY <1>7 DEF calc!Join, CalcMutex
    <2>4. CalcControl'
      BY <1>7, <2>1 DEF calc!Join, CalcTypes, CalcControl, calc!Threads
    <2>5. CalcClaimed' /\ CalcCount'
      BY <1>7, CalcFrame DEF calc!Join
    <2> QED BY <2>2, <2>3, <2>4, <2>5
  <1>8. CASE UNCHANGED calc!vars
    <2>1. CalcClaimed' /\ CalcCount'
      BY <1>8, CalcFrame DEF calc!vars
    <2> QED BY <1>8, <2>1 DEF calc!vars, CalcTypes, CalcMutex, CalcControl
  <1> QED
    BY <1>1, <1>2, <1>3, <1>4, <1>5, <1>6, <1>7, <1>8
       DEF calc!Next, calc!calc_square_roots, calc!compute_roots,
           calc!Terminated

-----------------------------------------------------------------------------
(* Both are counters *)

\* What the mapping of ImplementsCounter is while one program runs.
GreedyPending ==
    {temp[t] : t \in {u \in greedy!Threads :
        pc[u] \in {"check", "store"} /\ temp[u] < greedy!size}}
CalcPending == {temp[t] : t \in {u \in calc!Threads : pc[u] = "store"}}

\* The actions of the counter, in the terms of greedy_calc_sqrts.
LEMMA GreedyCounter ==
    ASSUME program = "greedy_calc_sqrts", program' = program
    PROVE  LET n == IF count < greedy!size THEN count ELSE greedy!size
           IN  /\ Counter!Claim
                     <=> /\ n < greedy!size
                         /\ n' = n + 1
                         /\ GreedyPending' = GreedyPending \union {n}
                         /\ roots' = roots
               /\ \A m : Counter!Store(m)
                     <=> /\ m \in GreedyPending
                         /\ GreedyPending' = GreedyPending \ {m}
                         /\ roots' = roots \union {m}
                         /\ n' = n
               /\ n' = n /\ GreedyPending' = GreedyPending /\ roots' = roots
                  => UNCHANGED Counter!counterVars
  BY DEF Counter!Claim, Counter!Store, Counter!counterVars, GreedyPending,
         greedy!size, greedy!Threads

\* The actions of the counter, in the terms of calc_sqrts.
LEMMA CalcCounter ==
    ASSUME program = "calc_sqrts", program' = program
    PROVE  /\ Counter!Claim <=> /\ count < calc!size
                                /\ count' = count + 1
                                /\ CalcPending' = CalcPending \union {count}
                                /\ roots' = roots
           /\ \A m : Counter!Store(m) <=> /\ m \in CalcPending
                                          /\ CalcPending' = CalcPending \ {m}
                                          /\ roots' = roots \union {m}
                                          /\ count' = count
           /\ count' = count /\ CalcPending' = CalcPending /\ roots' = roots
                  => UNCHANGED Counter!counterVars
  BY DEF Counter!Claim, Counter!Store, Counter!counterVars, CalcPending,
         greedy!size, calc!size, calc!Threads

\* To store any index is a step of the counter.
LEMMA CounterStores == \A m : Counter!Store(m) => Counter!Next
  BY DEF Counter!Next, Counter!Store

\* No other program has a counter.
LEMMA OtherCounter ==
    ASSUME program \notin {"greedy_calc_sqrts", "calc_sqrts"},
           program' = program
    PROVE  UNCHANGED Counter!counterVars
  BY DEF Counter!counterVars

\* The actions of the counter, in the terms of greedy_calc_sqrts.
LEMMA GreedyCounterStep ==
    ASSUME program = "greedy_calc_sqrts", program' = program,
           GreedyInv, GreedyInv', [greedy!Next]_(greedy!vars)
    PROVE  [Counter!Next]_(Counter!counterVars)
  <1> USE GreedySize
  <1>a. /\ GreedyPending =
              {n \in 0 .. greedy!size - 1 :
                  \E t \in greedy!Threads : greedy!Holds(t, n)}
        /\ GreedyPending' =
              {n \in 0 .. greedy!size - 1 :
                  \E t \in greedy!Threads : greedy!Holds(t, n)'}
    BY DEF GreedyInv, greedy!TypeOK, GreedyPending, greedy!Holds
  <1>1. ASSUME NEW t \in greedy!Threads, greedy!WriteCount(t)
        PROVE  [Counter!Next]_(Counter!counterVars)
    <2>1. /\ temp[t] = count /\ count' = count + 1 /\ temp' = temp
          /\ count \in Nat /\ roots' = roots
      BY <1>1 DEF GreedyInv, greedy!WriteCount, GreedyTemp, greedy!TypeOK
    <2>2. ASSUME NEW u \in greedy!Threads, NEW n \in 0 .. greedy!size - 1
         
         PROVE  greedy!Holds(u, n)'
                   <=> (greedy!Holds(u, n) \/ (u = t /\ n = count))
      BY <1>1, <2>1
         DEF GreedyInv, greedy!WriteCount, greedy!Holds, greedy!TypeOK
    <2>3. CASE count < greedy!size
      <3>1. GreedyPending' = GreedyPending \union {count}
        BY <1>a, <2>1, <2>2, <2>3
      <3> QED BY <2>1, <2>3, <3>1, GreedyCounter DEF Counter!Next
    <2>4. CASE count >= greedy!size
      <3>1. GreedyPending' = GreedyPending BY <1>a, <2>1, <2>2, <2>4
      <3> QED BY <2>1, <2>4, <3>1, GreedyCounter
    <2> QED BY <2>1, <2>3, <2>4
  <1>2. ASSUME NEW t \in greedy!Threads, greedy!StoreRoot(t)
        PROVE  [Counter!Next]_(Counter!counterVars)
    <2>1. /\ greedy!Holds(t, temp[t]) /\ temp[t] \in 0 .. greedy!size - 1
          /\ temp' = temp /\ count' = count
          /\ roots' = roots \union {temp[t]}
      BY <1>2
         DEF GreedyInv, greedy!StoreRoot, greedy!Holds, GreedyTemp,
             greedy!TypeOK
    <2>2. \A u \in greedy!Threads : greedy!Holds(u, temp[t]) => u = t
      BY <2>1 DEF GreedyInv, greedy!ClaimedOnce
    <2>3. ASSUME NEW u \in greedy!Threads, NEW n \in 0 .. greedy!size - 1
          PROVE  greedy!Holds(u, n)' <=> greedy!Holds(u, n) /\ n # temp[t]
      BY <1>2, <2>1, <2>2
         DEF GreedyInv, greedy!StoreRoot, greedy!Holds, greedy!TypeOK
    <2>4. /\ temp[t] \in GreedyPending
          /\ GreedyPending' = GreedyPending \ {temp[t]}
      BY <1>a, <2>1, <2>3
    <2>5. \E m : /\ m \in GreedyPending /\ GreedyPending' = GreedyPending \ {m}
                  /\ roots' = roots \union {m} /\ count' = count
      BY <2>1, <2>4
    <2>6. \E m : Counter!Store(m) BY <2>5, GreedyCounter
    <2> QED BY <2>6, CounterStores
  <1>3. ASSUME count' = count, roots' = roots,
               \A t \in greedy!Threads, n \in 0 .. greedy!size - 1 :
                    greedy!Holds(t, n)' <=> greedy!Holds(t, n)
        PROVE  UNCHANGED Counter!counterVars
    <2>1. GreedyPending' = GreedyPending BY <1>a, <1>3
    <2> QED BY <1>3, <2>1, GreedyCounter
  <1>4. ASSUME NEW t \in greedy!Threads,
               \/ greedy!LockForId(t) \/ greedy!TakeId(t)
               \/ greedy!LockForCount(t)
               \/ greedy!LoopEnds(t) \/ greedy!ReadCount(t)
               \/ greedy!CheckSize(t)
        PROVE  UNCHANGED Counter!counterVars
    <2>1. \A u \in greedy!Threads, n \in 0 .. greedy!size - 1 :
              greedy!Holds(u, n)' <=> greedy!Holds(u, n)
      BY <1>4
         DEF GreedyInv, greedy!TypeOK, greedy!Holds, greedy!LockForId,
             greedy!TakeId, greedy!LockForCount,
                  greedy!LoopEnds, greedy!ReadCount, greedy!CheckSize
    <2>2. count' = count /\ roots' = roots
      BY <1>4
         DEF greedy!LockForId, greedy!TakeId, greedy!LockForCount,
             greedy!LoopEnds, greedy!ReadCount,
                  greedy!CheckSize
    <2> QED BY <1>3, <2>1, <2>2
  <1>5. CASE greedy!compute_roots \/ UNCHANGED greedy!vars
    <2>1. \A u \in greedy!Threads, n \in 0 .. greedy!size - 1 :
              greedy!Holds(u, n)' <=> greedy!Holds(u, n)
      BY <1>5
         DEF GreedyInv, greedy!TypeOK, GreedyMain, greedy!Holds,
             greedy!compute_roots, greedy!Create, greedy!Join,
                  greedy!vars
    <2>2. count' = count /\ roots' = roots
      BY <1>5 DEF greedy!compute_roots, greedy!Create, greedy!Join, greedy!vars
    <2> QED BY <1>3, <2>1, <2>2
  <1> QED
    BY <1>1, <1>2, <1>4, <1>5
       DEF greedy!Next, greedy!calc_square_roots, greedy!Terminated

\* The actions of the counter, in the terms of calc_sqrts.
LEMMA CalcCounterStep ==
    ASSUME program = "calc_sqrts", program' = program,
           CalcInv, CalcInv', [calc!Next]_(calc!vars)
    PROVE  [Counter!Next]_(Counter!counterVars)
  <1>a. /\ CalcPending =
              {n \in Nat : \E t \in calc!Threads : CalcHolds(t, n)}
        /\ CalcPending' =
              {n \in Nat : \E t \in calc!Threads : CalcHolds(t, n)'}
    BY DEF CalcInv, CalcTypes, CalcPending, CalcHolds
  <1>1. ASSUME NEW t \in calc!Threads, calc!WriteCount(t)
        PROVE  [Counter!Next]_(Counter!counterVars)
    <2>1. /\ temp[t] = count /\ count' = count + 1 /\ temp' = temp
          /\ count \in Nat /\ roots' = roots
      BY <1>1 DEF CalcInv, calc!WriteCount, CalcControl, CalcTypes
    <2>2. ASSUME NEW u \in calc!Threads, NEW n \in Nat
          PROVE  CalcHolds(u, n)' <=> CalcHolds(u, n) \/ (u = t /\ n = count)
      BY <1>1, <2>1 DEF CalcInv, calc!WriteCount, CalcHolds, CalcTypes
    <2>3. count < calc!size
      BY <1>1, CountInBounds DEF calc!WriteCount
    <2>4. CalcPending' = CalcPending \union {count}
      BY <1>a, <2>1, <2>2
    <2> QED BY <2>1, <2>3, <2>4, CalcCounter DEF Counter!Next
  <1>2. ASSUME NEW t \in calc!Threads, calc!StoreRoot(t)
        PROVE  [Counter!Next]_(Counter!counterVars)
    <2>1. /\ CalcHolds(t, temp[t]) /\ temp[t] \in Nat
          /\ temp' = temp /\ count' = count
          /\ roots' = roots \union {temp[t]}
      BY <1>2 DEF CalcInv, calc!StoreRoot, CalcHolds, CalcTypes
    <2>2. \A u \in calc!Threads : CalcHolds(u, temp[t]) => u = t
      BY <2>1 DEF CalcInv, CalcClaimed
    <2>3. ASSUME NEW u \in calc!Threads, NEW n \in Nat
          PROVE  CalcHolds(u, n)' <=> CalcHolds(u, n) /\ n # temp[t]
      <3>1. pc'[u] = (IF u = t THEN "loop" ELSE pc[u]) /\ temp'[u] = temp[u]
        BY <1>2 DEF CalcInv, calc!StoreRoot, CalcTypes
      <3> QED BY <2>2, <3>1 DEF CalcHolds
    <2>4. temp[t] \in CalcPending /\ CalcPending' = CalcPending \ {temp[t]}
      BY <1>a, <2>1, <2>3
    <2>5. \E m : /\ m \in CalcPending /\ CalcPending' = CalcPending \ {m}
                  /\ roots' = roots \union {m} /\ count' = count
      BY <2>1, <2>4
    <2>6. \E m : Counter!Store(m) BY <2>5, CalcCounter
    <2> QED BY <2>6, CounterStores
  <1>3. ASSUME count' = count, roots' = roots,
               \A t \in calc!Threads, n \in Nat :
                    CalcHolds(t, n)' <=> CalcHolds(t, n)
        PROVE  UNCHANGED Counter!counterVars
    <2>1. CalcPending' = CalcPending BY <1>a, <1>3
    <2> QED BY <1>3, <2>1, CalcCounter
  <1>4. ASSUME NEW t \in calc!Threads,
               calc!Lock(t) \/ calc!LoopEnds(t) \/ calc!ReadCount(t)
        PROVE  UNCHANGED Counter!counterVars
    <2>1. \A u \in calc!Threads, n \in Nat :
              CalcHolds(u, n)' <=> CalcHolds(u, n)
      BY <1>4 DEF CalcInv, CalcTypes, CalcHolds, calc!Lock, calc!LoopEnds,
                  calc!ReadCount
    <2>2. count' = count /\ roots' = roots
      BY <1>4 DEF calc!Lock, calc!LoopEnds, calc!ReadCount
    <2> QED BY <1>3, <2>1, <2>2
  <1>5. CASE calc!compute_roots \/ UNCHANGED calc!vars
    <2>1. \A u \in calc!Threads, n \in Nat :
              CalcHolds(u, n)' <=> CalcHolds(u, n)
      BY <1>5 DEF CalcInv, CalcTypes, CalcControl, CalcHolds, calc!vars,
                  calc!compute_roots, calc!Create, calc!Join
    <2>2. count' = count /\ roots' = roots
      BY <1>5 DEF calc!compute_roots, calc!Create, calc!Join, calc!vars
    <2> QED BY <1>3, <2>1, <2>2
  <1> QED
    BY <1>1, <1>2, <1>4, <1>5
       DEF calc!Next, calc!calc_square_roots, calc!Terminated

-----------------------------------------------------------------------------
(* reader_writer_locks *)

\* The variables of reader_writer_locks.
LocksTypes ==
    /\ pc \in [locks!Threads -> locks!ThreadPc]
    /\ arrived \in SUBSET locks!Threads
    /\ rw_lock \in SUBSET locks!Threads
    /\ done \in BOOLEAN
    /\ created \in 0 .. locks!num_threads
    /\ joined \in 0 .. locks!num_threads

\* The threads that main has not created have not started, and those that
\* have come to the barrier are those that are past their start.
LocksArrived ==
    \A t \in locks!Threads :
        /\ created <= t => pc[t] = "new"
        /\ t \in arrived <=> pc[t] \notin {"new", "start"}

\* The invariant of reader_writer_locks.
LocksInv == LocksTypes /\ LocksArrived /\ locks!NoHeadStart

\* There are threads, readers or writers.
LEMMA LocksNum == locks!num_threads \in Nat \ {0}
  BY AllSizes DEF locks!SizesAssumption, locks!num_threads

\* The cardinality of the instance is the one of the library's theorems.
LEMMA LocksCardinality == \A S : locks!Cardinality(S) = Cardinality(S)
  BY DEF locks!Cardinality, Cardinality

\* The barrier opens when everybody is there, and then everybody is created.
LEMMA LocksOpen ==
    ASSUME LocksInv, Cardinality(arrived) = locks!num_threads
    PROVE  arrived = locks!Threads /\ created = locks!num_threads
  <1> DEFINE n == locks!num_threads
  <1>1. n \in Nat \ {0} BY LocksNum
  <1>2. locks!Threads = 0 .. n - 1 BY DEF locks!Threads
  <1>3. arrived \in SUBSET (0 .. n - 1) /\ Cardinality(arrived) = n
    BY <1>2 DEF LocksInv, LocksTypes
  <1> HIDE DEF n
  <1>4. IsFiniteSet(0 .. n - 1) /\ Cardinality(0 .. n - 1) = n
    <2>1. 0 \in Int /\ n - 1 \in Int /\ ~(0 > n - 1) /\ (n - 1) - 0 + 1 = n
      BY <1>1
    <2> QED BY <2>1, FS_Interval
  <1>5. arrived = 0 .. n - 1 BY <1>3, <1>4, FS_Subset
  <1>6. n - 1 \in arrived BY <1>1, <1>5
  <1>7. ~(created <= n - 1)
    BY <1>2, <1>5, <1>6 DEF LocksInv, LocksArrived
  <1>8. created \in 0 .. n BY DEF n, LocksInv, LocksTypes
  <1>9. created = n BY <1>1, <1>7, <1>8
  <1> QED BY <1>2, <1>5, <1>9 DEF n

\* The invariant holds before main has created a thread.
LEMMA LocksInit == locks!Init => LocksInv
  <1> SUFFICES ASSUME locks!Init PROVE LocksInv
    OBVIOUS
  <1>1. LocksTypes
    <2>1. 0 \in 0 .. locks!num_threads BY LocksNum
    <2>2. pc \in [locks!Threads -> locks!ThreadPc]
      BY DEF locks!Init, locks!ThreadPc
    <2> QED BY <2>1, <2>2 DEF locks!Init, LocksTypes
  <1> QED
    BY <1>1 DEF locks!Init, LocksInv, LocksArrived, locks!NoHeadStart

\* A step keeps the invariant: nobody is past the barrier unless everybody has
\* come to it.
LEMMA LocksStep ==
    ASSUME LocksInv, [locks!Next]_(locks!vars)
    PROVE  LocksInv'
  <1> USE LocksNum DEF LocksInv, locks!Move, locks!main
  <1>1. ASSUME NEW t \in locks!Threads, locks!Arrive(t) PROVE LocksInv'
    BY <1>1 DEF locks!Arrive, LocksTypes, LocksArrived, locks!NoHeadStart,
                locks!ThreadPc
  <1>2. ASSUME NEW t \in locks!Threads, locks!PassBarrier(t) PROVE LocksInv'
    <2>1. /\ Cardinality(arrived) = locks!num_threads
          /\ pc[t] = "barrier" /\ pc' = [pc EXCEPT ![t] = "loop"]
          /\ UNCHANGED <<arrived, rw_lock, done, created, joined>>
      BY <1>2, LocksCardinality DEF locks!PassBarrier
    <2>2. arrived = locks!Threads /\ created = locks!num_threads
      BY <2>1, LocksOpen
    <2> QED
      BY <2>1, <2>2
         DEF LocksTypes, LocksArrived, locks!NoHeadStart, locks!ThreadPc
  <1>3. ASSUME NEW t \in locks!Threads,
               \/ locks!TestDone(t) \/ locks!RdLock(t) \/ locks!Unlock(t)
               \/ locks!Wake(t)
        PROVE  LocksInv'
    BY <1>3 DEF locks!TestDone, locks!RdLock, locks!Unlock, locks!Wake,
                LocksTypes, LocksArrived, locks!NoHeadStart, locks!ThreadPc
  <1>4. CASE locks!Create
    BY <1>4 DEF locks!Create, LocksTypes, LocksArrived, locks!NoHeadStart,
                locks!ThreadPc, locks!Threads
  <1>5. CASE locks!UserQuits
    BY <1>5 DEF locks!UserQuits, LocksTypes, LocksArrived, locks!NoHeadStart
  <1>6. CASE locks!Join
    BY <1>6 DEF locks!Join, LocksTypes, LocksArrived, locks!NoHeadStart
  <1>7. CASE UNCHANGED locks!vars
    BY <1>7 DEF locks!vars, LocksTypes, LocksArrived,
                locks!NoHeadStart
  <1> QED
    BY <1>1, <1>2, <1>3, <1>4, <1>5, <1>6, <1>7
       DEF locks!Next, locks!Thread, locks!Terminated

-----------------------------------------------------------------------------
(* barrier_sync, with one element for each thread *)

\* Each segment is one element long.
OneEach == SumSize = SumThreads

\* t has not come to the reduction of its element.
Early(t) == pc[t] \in {"new", "start"} \/ (pc[t] = "element" /\ k[t] = t)
\* t is between two barriers.
InRound(t) == pc[t] \in {"odd", "halve"}

\* How many cells take part when t next comes to the barrier.
Cells(t) ==
    IF Early(t) THEN SumThreads
    ELSE IF InRound(t) THEN half[t] \div 2 ELSE half[t]

\* The variables of barrier_sync.
BarrierTypes ==
    /\ pc \in [barrier!Threads -> barrier!ThreadPc]
    /\ k \in [barrier!Threads -> Nat]
    /\ half \in [barrier!Threads -> 0 .. SumThreads]
    /\ created \in 0 .. SumThreads
    /\ joined \in 0 .. SumThreads

\* Who waits at the barrier, and which element each thread is at.
BarrierControl ==
    /\ arrived = {t \in barrier!Threads : pc[t] = "barrier"}
    /\ \A t \in barrier!Threads :
          /\ created <= t => pc[t] = "new"
          /\ pc[t] \in {"while", "barrier", "odd", "halve"} => k[t] = t
          /\ pc[t] \in {"barrier", "odd", "halve"} => half[t] > 1
          /\ pc[t] = "element" => k[t] \in {t, t + 1}
          /\ pc[t] = "exited" => k[t] = t + 1

\* No thread is a round ahead of another.
SameRound ==
    \A t, u \in barrier!Threads :
        /\ Cells(t) = Cells(u)
        /\ InRound(t) /\ InRound(u) => half[t] = half[u]

\* The invariant of barrier_sync.
BarrierInv == BarrierTypes /\ BarrierControl /\ SameRound

\* The operator of the instance is that of the library.
LEMMA BarrierCardinality == \A S : barrier!Cardinality(S) = Cardinality(S)
  BY DEF barrier!Cardinality, Cardinality

\* There are threads.
LEMMA BarrierNum == SumThreads \in Nat \ {0}
  BY AllSizes DEF barrier!SizesAssumption

\* The segment of a thread is the element with its number.
LEMMA OneElement ==
    ASSUME OneEach
    PROVE  \A t \in barrier!Threads :
               /\ barrier!first(t, SumSize, SumThreads) = t
               /\ barrier!last(t, SumSize, SumThreads) = t
  <1> DEFINE n == SumThreads
             q == (n + n - 1) \div n
  <1>1. n \in Nat \ {0} BY BarrierNum
  <1>2. barrier!segment_size(SumSize, SumThreads) = q
    BY DEF OneEach, barrier!segment_size
  <1>3. q = 1
    <2>1. q \in Int BY <1>1
    <2>2. n * q <= n + n - 1 BY <1>1, SMT
    <2>3. n + n - 1 < n * q + n BY <1>1, SMT
    <2> HIDE DEF q, n
    <2>4. n * (q - 1) >= 0 /\ n * (q - 1) < n
      BY <1>1, <2>1, <2>2, <2>3, Z3
    <2>5. ~(q - 1 >= 1) BY <1>1, <2>1, <2>4, Z3
    <2>6. ~(q - 1 <= -1) BY <1>1, <2>1, <2>4, Z3
    <2> QED BY <2>1, <2>5, <2>6
  <1>4. ASSUME NEW t \in barrier!Threads PROVE t \in 0 .. n - 1
    BY DEF barrier!Threads
  <1>5. SumSize = n BY DEF OneEach
  <1> HIDE DEF n, q
  <1>6. ASSUME NEW t \in 0 .. n - 1
        PROVE  /\ t * 1 = t
               /\ t = IF (t + 1) * 1 - 1 > n - 1 THEN n - 1
                                                 ELSE (t + 1) * 1 - 1
    BY <1>1
  <1> QED
    BY <1>2, <1>3, <1>4, <1>5, <1>6 DEF barrier!first, barrier!last, n

\* When everybody but t waits at the barrier, everybody is at the same round.
LEMMA BarrierOpens ==
    ASSUME BarrierInv, NEW t \in barrier!Threads, pc[t] = "while", half[t] > 1,
           barrier!Cardinality(arrived) + 1 = SumThreads
    PROVE  /\ arrived \union {t} = barrier!Threads
           /\ \A u \in barrier!Threads : half[u] = half[t]
  <1> DEFINE n == SumThreads
  <1>1. n \in Nat \ {0} BY BarrierNum
  <1>2. barrier!Threads = 0 .. n - 1 BY DEF barrier!Threads
  <1>3. /\ arrived \in SUBSET (0 .. n - 1)
        /\ arrived = {u \in barrier!Threads : pc[u] = "barrier"}
        /\ Cardinality(arrived) + 1 = n
    BY <1>2, BarrierCardinality DEF BarrierInv, BarrierControl
  <1>4. t \notin arrived /\ t \in 0 .. n - 1 BY <1>2, <1>3
  <1> HIDE DEF n
  <1>5. IsFiniteSet(0 .. n - 1) /\ Cardinality(0 .. n - 1) = n
    <2>1. 0 \in Int /\ n - 1 \in Int /\ ~(0 > n - 1) /\ (n - 1) - 0 + 1 = n
      BY <1>1
    <2> QED BY <2>1, FS_Interval
  <1>6. IsFiniteSet(arrived) BY <1>3, <1>5, FS_Subset
  <1>7. Cardinality(arrived \union {t}) = n
    BY <1>3, <1>4, <1>6, FS_AddElement
  <1>8. arrived \union {t} = 0 .. n - 1
    BY <1>3, <1>4, <1>5, <1>7, FS_Subset
  <1>9. ASSUME NEW u \in barrier!Threads PROVE half[u] = half[t]
    <2>1. u = t \/ pc[u] = "barrier" BY <1>2, <1>3, <1>8
    <2>2. Cells(u) = half[u] /\ Cells(t) = half[t]
      BY <2>1 DEF Cells, Early, InRound
    <2> QED BY <2>2 DEF BarrierInv, SameRound
  <1> QED BY <1>2, <1>8, <1>9

\* The invariant holds before main has created a thread.
LEMMA BarrierInit == barrier!Init => BarrierInv
  <1> SUFFICES ASSUME barrier!Init PROVE BarrierInv
    OBVIOUS
  <1> USE BarrierNum DEF barrier!Init
  <1>1. BarrierTypes
    <2>1. 0 \in 0 .. SumThreads OBVIOUS
    <2>2. pc \in [barrier!Threads -> barrier!ThreadPc] BY DEF barrier!ThreadPc
    <2> QED BY <2>1, <2>2 DEF BarrierTypes
  <1>2. BarrierControl BY DEF BarrierControl
  <1>3. SameRound BY DEF SameRound, Cells, Early, InRound
  <1> QED BY <1>1, <1>2, <1>3 DEF BarrierInv

\* A step of one thread that keeps it in its round.
LEMMA RoundFrame ==
    ASSUME SameRound, NEW t \in barrier!Threads,
           Cells(t)' = Cells(t),
           InRound(t)' => InRound(t) /\ half'[t] = half[t],
           \A u \in barrier!Threads \ {t} :
               pc'[u] = pc[u] /\ k'[u] = k[u] /\ half'[u] = half[u]
    PROVE  SameRound'
  <1>1. \A u \in barrier!Threads : Cells(u)' = Cells(u)
    BY DEF Cells, Early, InRound
  <1>2. \A u \in barrier!Threads :
            InRound(u)' => InRound(u) /\ half'[u] = half[u]
    BY DEF InRound
  <1> QED BY <1>1, <1>2 DEF SameRound

\* A step keeps the invariant: the barrier opens only when all threads have
\* come to it, and then they all take part in the same round.
LEMMA BarrierStep ==
    ASSUME OneEach, BarrierInv, [barrier!Next]_(barrier!vars)
    PROVE  BarrierInv'
  <1> USE BarrierNum DEF BarrierInv, barrier!Move, barrier!main
  <1>t. \A t \in barrier!Threads : t \in Nat /\ t < SumThreads
    BY DEF barrier!Threads
  <1>1. ASSUME NEW t \in barrier!Threads, barrier!Start(t) PROVE BarrierInv'
    <2>0. k' = [k EXCEPT ![t] = t]
      BY <1>1, OneElement DEF barrier!Start
    <2>1. BarrierTypes' /\ BarrierControl'
      BY <1>1, <1>t, <2>0 DEF barrier!Start, BarrierTypes, BarrierControl,
                         barrier!ThreadPc
    <2>2. Cells(t)' = Cells(t) /\ ~InRound(t)'
      BY <1>1, <2>0 DEF barrier!Start, Cells, Early, InRound, BarrierTypes
    <2>3. SameRound'
      BY <1>1, <2>0, <2>2, RoundFrame DEF barrier!Start, BarrierTypes
    <2> QED BY <2>1, <2>3
  <1>2. ASSUME NEW t \in barrier!Threads, barrier!AddElement(t)
        PROVE  BarrierInv'
    <2>0. k[t] = t
      BY <1>2, <1>t, OneElement DEF barrier!AddElement, BarrierControl
    <2>1. BarrierTypes' /\ BarrierControl'
      BY <1>2, <1>t, <2>0 DEF barrier!AddElement, BarrierTypes, BarrierControl,
                         barrier!ThreadPc
    <2>2. Cells(t)' = Cells(t) /\ ~InRound(t)'
      BY <1>2, <2>0 DEF barrier!AddElement, Cells, Early, InRound, BarrierTypes
    <2>3. SameRound'
      BY <1>2, <2>2, RoundFrame DEF barrier!AddElement, BarrierTypes
    <2> QED BY <2>1, <2>3
  <1>3. ASSUME NEW t \in barrier!Threads, barrier!Exit(t) PROVE BarrierInv'
    <2>0. k[t] = t + 1 /\ k[t] # t
      BY <1>3, <1>t, OneElement DEF barrier!Exit, BarrierControl
    <2>1. BarrierTypes' /\ BarrierControl'
      BY <1>3, <1>t, <2>0 DEF barrier!Exit, BarrierTypes, BarrierControl,
                         barrier!ThreadPc
    <2>2. Cells(t)' = Cells(t) /\ ~InRound(t)'
      BY <1>3, <2>0 DEF barrier!Exit, Cells, Early, InRound, BarrierTypes
    <2>3. SameRound'
      BY <1>3, <2>2, RoundFrame DEF barrier!Exit, BarrierTypes
    <2> QED BY <2>1, <2>3
  <1>4. ASSUME NEW t \in barrier!Threads, barrier!NextElement(t)
        PROVE  BarrierInv'
    <2>0. k[t] = t /\ k'[t] = t + 1 /\ k'[t] # t
      BY <1>4, <1>t DEF barrier!NextElement, BarrierControl, BarrierTypes
    <2>1. BarrierTypes' /\ BarrierControl'
      BY <1>4, <1>t, <2>0 DEF barrier!NextElement, BarrierTypes,
                              BarrierControl, barrier!ThreadPc
    <2>2. Cells(t)' = Cells(t) /\ ~InRound(t)'
      BY <1>4, <2>0
         DEF barrier!NextElement, Cells, Early, InRound, BarrierTypes
    <2>3. SameRound'
      BY <1>4, <2>2, RoundFrame DEF barrier!NextElement, BarrierTypes
    <2> QED BY <2>1, <2>3
  <1>5. ASSUME NEW t \in barrier!Threads, barrier!BarrierWait(t)
        PROVE  BarrierInv'
    <2>1. CASE barrier!Cardinality(arrived) + 1 = SumThreads
      <3>1. /\ arrived \union {t} = barrier!Threads
            /\ \A u \in barrier!Threads : half[u] = half[t]
        BY <1>5, <2>1, BarrierOpens DEF barrier!BarrierWait
      <3>2. /\ pc' = [u \in barrier!Threads |-> "odd"]
            /\ arrived' = {}
            /\ UNCHANGED <<k, half, created, joined>>
        BY <1>5, <2>1, <3>1 DEF barrier!BarrierWait
      <3>3. \A u \in barrier!Threads : pc[u] \in {"while", "barrier"}
        BY <1>5, <3>1 DEF barrier!BarrierWait, BarrierControl
      <3>4. half[t] > 1 BY <1>5 DEF barrier!BarrierWait
      <3>5. BarrierTypes' BY <3>2 DEF BarrierTypes, barrier!ThreadPc
      <3>6. created' = created /\ \A u \in barrier!Threads : ~(created <= u)
        BY <3>2, <3>3 DEF BarrierControl
      <3>7. BarrierControl'
        BY <3>1, <3>2, <3>3, <3>4, <3>6 DEF BarrierControl
      <3>8. SameRound'
        BY <3>1, <3>2 DEF SameRound, Cells, Early, InRound
      <3> QED BY <3>5, <3>7, <3>8
    <2>2. CASE barrier!Cardinality(arrived) + 1 # SumThreads
      <3>1. /\ arrived' = arrived \union {t}
            /\ pc[t] = "while" /\ half[t] > 1
            /\ pc' = [pc EXCEPT ![t] = "barrier"]
            /\ UNCHANGED <<k, half, created, joined>>
        BY <1>5, <2>2 DEF barrier!BarrierWait
      <3>2. BarrierTypes' /\ BarrierControl'
        BY <3>1 DEF BarrierTypes, BarrierControl, barrier!ThreadPc
      <3>3. Cells(t)' = Cells(t) /\ ~InRound(t)'
        BY <3>1 DEF Cells, Early, InRound, BarrierTypes
      <3>4. SameRound' BY <3>1, <3>3, RoundFrame DEF BarrierTypes
      <3> QED BY <3>2, <3>4
    <2> QED BY <2>1, <2>2
  <1>6. ASSUME NEW t \in barrier!Threads, barrier!AddOdd(t) PROVE BarrierInv'
    <2>1. BarrierTypes' /\ BarrierControl'
      BY <1>6 DEF barrier!AddOdd, BarrierTypes, BarrierControl,
                         barrier!ThreadPc
    <2>2. /\ Cells(t)' = Cells(t) /\ InRound(t)
          /\ half' = half /\ k' = k
      BY <1>6 DEF barrier!AddOdd, Cells, Early, InRound, BarrierTypes
    <2>3. SameRound'
      BY <1>6, <2>2, RoundFrame DEF barrier!AddOdd, BarrierTypes
    <2> QED BY <2>1, <2>3
  <1>7. ASSUME NEW t \in barrier!Threads, barrier!AddPartner(t)
        PROVE  BarrierInv'
    <2>0. half[t] \div 2 \in 0 .. SumThreads
      BY DEF BarrierTypes
    <2>1. BarrierTypes' /\ BarrierControl'
      BY <1>7, <2>0 DEF barrier!AddPartner, BarrierTypes, BarrierControl,
                         barrier!ThreadPc
    <2>2. Cells(t)' = Cells(t) /\ ~InRound(t)'
      BY <1>7 DEF barrier!AddPartner, Cells, Early, InRound, BarrierTypes
    <2>3. SameRound'
      BY <1>7, <2>2, RoundFrame DEF barrier!AddPartner, BarrierTypes
    <2> QED BY <2>1, <2>3
  <1>8. CASE barrier!Create
    <2>0. created \in barrier!Threads /\ created' \in 0 .. SumThreads
      BY <1>8 DEF barrier!Create, BarrierTypes, barrier!Threads
    <2>1. BarrierTypes' /\ BarrierControl'
      BY <1>8, <1>t, <2>0 DEF barrier!Create, BarrierTypes, BarrierControl,
                         barrier!ThreadPc
    <2>3. SameRound'
      <3> DEFINE c == created
      <3>1. /\ pc' = [pc EXCEPT ![c] = "start"] /\ pc[c] = "new"
            /\ c \in barrier!Threads /\ UNCHANGED <<k, half>>
        BY <1>8, <2>0 DEF barrier!Create
      <3> HIDE DEF c
      <3>2. ASSUME NEW u \in barrier!Threads
            PROVE  Cells(u)' = Cells(u) /\ (InRound(u)' <=> InRound(u))
        BY <3>1 DEF Cells, Early, InRound, BarrierTypes
      <3> QED BY <3>1, <3>2 DEF SameRound
    <2> QED BY <2>1, <2>3
  <1>9. CASE barrier!Join
    <2>1. BarrierTypes' /\ BarrierControl'
      BY <1>9 DEF barrier!Join, BarrierTypes, BarrierControl
    <2>2. SameRound'
      BY <1>9 DEF barrier!Join, SameRound, Cells, Early, InRound
    <2> QED BY <2>1, <2>2
  <1>10. CASE UNCHANGED barrier!vars
    BY <1>10 DEF barrier!vars, BarrierTypes,
                 BarrierControl, SameRound, Cells, Early, InRound
  <1> QED
    BY <1>1, <1>2, <1>3, <1>4, <1>5, <1>6, <1>7, <1>8, <1>9, <1>10
       DEF barrier!Next, barrier!add_array, barrier!Terminated

\* In one and the same round, the cells that are read are above those that are
\* written.
LEMMA BarrierSafe ==
    ASSUME OneEach, BarrierInv
    PROVE  barrier!ReductionRaceFree
  <1> SUFFICES ASSUME NEW t \in barrier!Threads, NEW u \in barrier!Threads,
                      t # u, NEW c \in barrier!Reads(t),
                      c \in barrier!Writes(u)
               PROVE  FALSE
    BY DEF barrier!ReductionRaceFree
  <1>t. \A v \in barrier!Threads : v \in Nat /\ v < SumThreads
    BY BarrierNum DEF barrier!Threads
  <1>1. c = u BY DEF barrier!Writes
  <1>2. \/ pc[t] = "odd" /\ t = 0 /\ half[t] % 2 = 1 /\ u = half[t] - 1
        \/ pc[t] = "halve" /\ t < half[t] \div 2 /\ u = t + half[t] \div 2
    BY <1>1 DEF barrier!Reads
  <1>3. /\ InRound(t) /\ half[t] > 1 /\ half[t] \in Nat
        /\ half[t] <= SumThreads /\ Cells(t) = half[t] \div 2
    BY <1>2 DEF InRound, BarrierInv, BarrierControl, BarrierTypes, Cells, Early
  <1>4. ~Early(u)
    <2>1. Cells(u) = half[t] \div 2 BY <1>3 DEF BarrierInv, SameRound
    <2>2. half[t] \div 2 < SumThreads BY <1>3, BarrierNum
    <2> QED BY <2>1, <2>2, BarrierNum DEF Cells
  <1>5. \/ pc[u] = "odd" /\ u = 0 /\ half[u] % 2 = 1
        \/ pc[u] = "halve" /\ u < half[u] \div 2
    <2>1. ~(pc[u] = "element" /\ k[u] <= barrier!last(u, SumSize, SumThreads))
      BY <1>4, <1>t, OneElement DEF Early, BarrierInv, BarrierControl
    <2> QED BY <1>4, <2>1 DEF barrier!Writes, Early
  <1>6. half[u] = half[t]
    BY <1>3, <1>5 DEF InRound, BarrierInv, SameRound
  <1> QED BY <1>2, <1>3, <1>5, <1>6, <1>t

-----------------------------------------------------------------------------
(* recursive_mutex *)

\* The variables of recursive_mutex.
MutexTypes ==
    /\ owner \in mutex!Threads \union {mutex!Free}
    /\ depth \in Nat
    /\ counter \in Nat
    /\ pc \in [mutex!Threads -> {"new", "lock", "read", "write", "print",
                                 "unlock", "exited"}]
    /\ level \in [mutex!Threads -> 0 .. 2]
    /\ value \in [mutex!Threads -> Nat]
    /\ printed \in [mutex!Threads -> Seq(Nat)]
    /\ created \in 0 .. FooThreads
    /\ joined \in 0 .. FooThreads

\* What a thread has added to the counter, and how often it has printed it.
Once(t) ==
    \/ level[t] = 1 /\ pc[t] \in {"print", "lock"}
    \/ level[t] = 2 /\ pc[t] \in {"read", "write"}
Twice(t) ==
    \/ level[t] = 2 /\ pc[t] = "print"
    \/ pc[t] \in {"unlock", "exited"}
\* How often t has printed the counter.
Prints(t) ==
    IF pc[t] \in {"unlock", "exited"} THEN 2
    ELSE IF pc[t] # "new" /\ (level[t] = 2 \/ (level[t] = 1 /\ pc[t] = "lock"))
         THEN 1 ELSE 0

\* The threads that have added two to the counter, and those that have added
\* one.
Done2 == {t \in mutex!Threads : Twice(t)}
Done1 == {t \in mutex!Threads : Once(t)}

\* The thread in foo has the mutex, as often as it has called foo and bar.
MutexOwner ==
    /\ \A t \in mutex!Threads :
          /\ owner = t <=> level[t] > 0
          /\ pc[t] \in {"new", "exited"} => level[t] = 0
          /\ pc[t] = "lock" => level[t] < 2
          /\ pc[t] \in {"read", "write", "print", "unlock"} => level[t] > 0
          /\ owner = t => depth = level[t]
          /\ pc[t] = "write" => value[t] = counter
          /\ t < joined => pc[t] = "exited"
          /\ created <= t => pc[t] = "new"
    /\ owner = mutex!Free => depth = 0

\* The counter is what the threads have added, which is odd only when one of
\* them is between its two steps.
MutexCounter ==
    counter = 2 * Cardinality(Done2) + IF Done1 = {} THEN 0 ELSE 1

\* What t has printed are values that the counter had when t had added to it.
MutexPrinted ==
    \A t \in mutex!Threads :
        /\ Len(printed[t]) = Prints(t)
        /\ printed[t] # <<>> =>
              /\ printed[t][1] % 2 = 1
              /\ Once(t) => printed[t][1] = counter
              /\ Twice(t) => printed[t][1] < 2 * Cardinality(Done2)
              /\ level[t] = 2 /\ pc[t] = "print" => printed[t][1] + 1 = counter
        /\ Len(printed[t]) = 2 => printed[t][2] = printed[t][1] + 1

\* No two threads have printed the same value.
MutexDistinct ==
    \A t, u \in mutex!Threads :
        t # u /\ printed[t] # <<>> /\ printed[u] # <<>> =>
            printed[t][1] # printed[u][1]

\* The invariant of recursive_mutex, if the mutex is recursive.
MutexInv ==
    kind = "recursive" =>
        /\ MutexTypes
        /\ MutexOwner
        /\ MutexCounter
        /\ MutexPrinted
        /\ MutexDistinct

\* The number of threads may be zero.
LEMMA MutexNum == FooThreads \in Nat
  BY AllSizes DEF mutex!SizesAssumption

\* No thread is the owner of a free mutex.
LEMMA MutexFree == mutex!Free \notin mutex!Threads
  BY DEF mutex!Free, mutex!Threads

\* There are finitely many threads, and so of every kind of them.
LEMMA FooThreadsFinite ==
    /\ IsFiniteSet(mutex!Threads)
    /\ Cardinality(mutex!Threads) = FooThreads
    /\ \A S \in SUBSET mutex!Threads : IsFiniteSet(S) /\ Cardinality(S) \in Nat
  <1> DEFINE n == FooThreads
  <1>1. n \in Nat BY MutexNum
  <1>2. mutex!Threads = 0 .. n - 1 BY DEF mutex!Threads
  <1> HIDE DEF n
  <1>3. IsFiniteSet(0 .. n - 1) /\ Cardinality(0 .. n - 1) = n
    <2>1. 0 \in Int /\ n - 1 \in Int BY <1>1
    <2>2. (IF 0 > n - 1 THEN 0 ELSE (n - 1) - 0 + 1) = n BY <1>1
    <2> QED BY <2>1, <2>2, FS_Interval
  <1>4. \A S \in SUBSET (0 .. n - 1) : IsFiniteSet(S) /\ Cardinality(S) \in Nat
    BY <1>3, FS_Subset, FS_CardinalityType
  <1> QED BY <1>2, <1>3, <1>4 DEF n

\* The invariant holds before main has created a thread.
LEMMA MutexInit == mutex!Init => MutexInv
  <1> SUFFICES ASSUME mutex!Init PROVE MutexInv
    OBVIOUS
  <1> USE MutexNum, MutexFree DEF mutex!Init
  <1>1. MutexTypes
    <2>1. 0 \in 0 .. FooThreads /\ 0 \in 0 .. 2 OBVIOUS
    <2>2. printed \in [mutex!Threads -> Seq(Nat)] OBVIOUS
    <2>3. pc \in [mutex!Threads -> {"new", "lock", "read", "write", "print",
                                 "unlock", "exited"}]
      OBVIOUS
    <2> QED BY <2>1, <2>2, <2>3 DEF MutexTypes
  <1>2. MutexOwner
    <2>1. \A t \in mutex!Threads : ~(t < 0) BY DEF mutex!Threads
    <2> QED BY <2>1 DEF MutexOwner
  <1>3. Done1 = {} /\ Done2 = {} BY DEF Done1, Done2, Once, Twice
  <1>4. MutexCounter BY <1>3, FS_EmptySet DEF MutexCounter
  <1>5. MutexPrinted /\ MutexDistinct
    BY DEF MutexPrinted, MutexDistinct, Prints
  <1> QED BY <1>1, <1>2, <1>4, <1>5 DEF MutexInv

\* Steps at which a thread neither adds nor prints.
LEMMA MutexFrame ==
    ASSUME MutexCounter, MutexPrinted, MutexDistinct,
           counter' = counter, printed' = printed,
           \A t \in mutex!Threads :
              /\ Once(t)' <=> Once(t)
              /\ Twice(t)' <=> Twice(t)
              /\ Prints(t)' = Prints(t)
              /\ level'[t] = 2 /\ pc'[t] = "print"
                    => level[t] = 2 /\ pc[t] = "print"
    PROVE  MutexCounter' /\ MutexPrinted' /\ MutexDistinct'
  <1>1. Done1' = Done1 /\ Done2' = Done2 BY DEF Done1, Done2
  <1>2. MutexCounter' BY <1>1 DEF MutexCounter
  <1>3. MutexPrinted' BY <1>1 DEF MutexPrinted
  <1> QED BY <1>2, <1>3 DEF MutexDistinct

\* Whoever is inside has the mutex; nobody else is.
LEMMA MutexAlone ==
    ASSUME MutexTypes, MutexOwner, NEW t \in mutex!Threads, level[t] > 0
    PROVE  /\ owner = t /\ depth = level[t]
           /\ \A u \in mutex!Threads \ {t} :
                 /\ level[u] = 0 /\ ~Once(u)
                 /\ pc[u] \in {"new", "lock", "exited"}
  BY MutexFree DEF MutexTypes, MutexOwner, Once

\* Locking keeps the invariant: in foo the mutex is free, and in bar the
\* thread has it.
LEMMA MutexLock ==
    ASSUME MutexInv, kind = "recursive",
           NEW t \in mutex!Threads, mutex!Lock(t)
    PROVE  MutexInv'
  <1> USE MutexNum, MutexFree DEF mutex!Lock, mutex!Move, mutex!Goto
  <1>0. /\ MutexTypes /\ MutexOwner /\ MutexCounter
        /\ MutexPrinted /\ MutexDistinct
    BY DEF MutexInv
  <1>1. /\ pc[t] = "lock" /\ pc' = [pc EXCEPT ![t] = "read"]
        /\ owner' = t /\ level[t] \in 0 .. 1
        /\ level' = [level EXCEPT ![t] = level[t] + 1]
        /\ UNCHANGED <<kind, counter, value, printed, created, joined>>
        /\ \/ owner = t /\ depth' = depth + 1
           \/ owner = mutex!Free /\ depth' = 1
    BY <1>0 DEF MutexTypes, MutexOwner
  <1> HIDE DEF mutex!Lock, mutex!Move, mutex!Goto
  <1>2. \A u \in mutex!Threads \ {t} : level[u] = 0
    <2> SUFFICES ASSUME NEW u \in mutex!Threads, u # t PROVE level[u] = 0
      OBVIOUS
    <2>1. owner # u BY <1>1
    <2>2. ~(level[u] > 0) /\ level[u] \in 0 .. 2
      BY <1>0, <2>1 DEF MutexTypes, MutexOwner
    <2> QED BY <2>2
  <1>3. depth' = level[t] + 1 /\ depth' \in Nat
    <2>1. CASE owner = t
      BY <1>0, <1>1, <2>1 DEF MutexTypes, MutexOwner
    <2>2. CASE owner = mutex!Free
      <3>1. level[t] = 0 BY <1>0, <1>1, <2>2 DEF MutexOwner
      <3> QED BY <1>1, <2>2, <3>1
    <2> QED BY <1>1, <2>1, <2>2
  <1>4. MutexTypes'
    <2>1. level[t] + 1 \in 0 .. 2 BY <1>1
    <2> QED BY <1>0, <1>1, <1>3, <2>1 DEF MutexTypes
  <1>5. MutexOwner'
    BY <1>0, <1>1, <1>2, <1>3 DEF MutexTypes, MutexOwner
  <1>6. MutexCounter' /\ MutexPrinted' /\ MutexDistinct'
    <2>1. \A u \in mutex!Threads :
              /\ Once(u)' <=> Once(u)
              /\ Twice(u)' <=> Twice(u)
              /\ Prints(u)' = Prints(u)
              /\ level'[u] = 2 /\ pc'[u] = "print"
                    => level[u] = 2 /\ pc[u] = "print"
      BY <1>0, <1>1 DEF MutexTypes, Once, Twice, Prints
    <2> QED BY <1>0, <1>1, <2>1, MutexFrame
  <1> QED BY <1>4, <1>5, <1>6 DEF MutexInv

\* So do the steps under the mutex.
LEMMA MutexRead ==
    ASSUME MutexInv, kind = "recursive",
           NEW t \in mutex!Threads, mutex!ReadCounter(t)
    PROVE  MutexInv'
  <1> USE MutexNum, MutexFree DEF mutex!ReadCounter, mutex!Move, mutex!Goto,
                                  mutex!mutexVars
  <1>0. /\ MutexTypes /\ MutexOwner /\ MutexCounter
        /\ MutexPrinted /\ MutexDistinct
    BY DEF MutexInv
  <1>1. MutexTypes' /\ MutexOwner'
    BY <1>0 DEF MutexTypes, MutexOwner
  <1>2. MutexCounter' /\ MutexPrinted' /\ MutexDistinct'
    <2>1. \A u \in mutex!Threads :
              /\ Once(u)' <=> Once(u)
              /\ Twice(u)' <=> Twice(u)
              /\ Prints(u)' = Prints(u)
              /\ level'[u] = 2 /\ pc'[u] = "print"
                    => level[u] = 2 /\ pc[u] = "print"
      BY <1>0 DEF MutexTypes, Once, Twice, Prints
    <2> QED BY <1>0, <2>1, MutexFrame
  <1> QED BY <1>1, <1>2 DEF MutexInv

\* The first of a thread's two steps makes the counter odd, and the second
\* makes the thread one more that is through.
LEMMA MutexWrite ==
    ASSUME MutexInv, kind = "recursive",
           NEW t \in mutex!Threads, mutex!WriteCounter(t)
    PROVE  MutexInv'
  <1> USE MutexNum, MutexFree
  <1>0. /\ MutexTypes /\ MutexOwner /\ MutexCounter
        /\ MutexPrinted /\ MutexDistinct
    BY DEF MutexInv
  <1>1. /\ pc[t] = "write" /\ pc' = [pc EXCEPT ![t] = "print"]
        /\ counter' = counter + 1 /\ counter \in Nat
        /\ level[t] \in 1 .. 2
        /\ UNCHANGED <<kind, owner, depth, level, value, printed, created,
                       joined>>
    BY <1>0 DEF mutex!WriteCounter, mutex!Move, mutex!Goto, mutex!mutexVars,
                MutexTypes, MutexOwner
  <1>2. \A u \in mutex!Threads \ {t} :
            level[u] = 0 /\ ~Once(u) /\ pc[u] \in {"new", "lock", "exited"}
    BY <1>0, <1>1, MutexAlone
  <1>3. MutexTypes' /\ MutexOwner'
    BY <1>0, <1>1, <1>2 DEF MutexTypes, MutexOwner
  <1>4. \A u \in mutex!Threads \ {t} :
            /\ ~Once(u)' /\ (Twice(u)' <=> Twice(u)) /\ Prints(u)' = Prints(u)
            /\ level'[u] = 0
    BY <1>0, <1>1, <1>2 DEF MutexTypes, Once, Twice, Prints
  <1>5. Prints(t)' = Prints(t) /\ ~Twice(t)
    BY <1>0, <1>1 DEF MutexTypes, Prints, Twice
  <1>6. IsFiniteSet(Done2) /\ Cardinality(Done2) \in Nat
    BY FooThreadsFinite DEF Done2
  <1>7. CASE level[t] = 1
    <2>1. ~Once(t) /\ Once(t)' /\ ~Twice(t)' /\ Prints(t) = 0
      BY <1>0, <1>1, <1>7 DEF MutexTypes, Once, Twice, Prints
    <2>2. Done2' = Done2 /\ Done1 = {} /\ t \in Done1'
      BY <1>2, <1>4, <1>5, <2>1 DEF Done1, Done2
    <2>3. counter = 2 * Cardinality(Done2) /\ MutexCounter'
      BY <1>0, <1>1, <1>6, <2>2 DEF MutexCounter
    <2>4. Len(printed[t]) = 0 BY <1>0, <2>1 DEF MutexPrinted
    <2>5. printed[t] = <<>> BY <1>0, <2>4 DEF MutexTypes
    <2>6. MutexPrinted'
      BY <1>0, <1>1, <1>2, <1>4, <1>5, <2>2, <2>4, <2>5 DEF MutexPrinted
    <2>7. MutexDistinct' BY <1>0, <1>1 DEF MutexDistinct
    <2> QED BY <1>3, <2>3, <2>6, <2>7 DEF MutexInv
  <1>8. CASE level[t] = 2
    <2>1. Once(t) /\ ~Once(t)' /\ Twice(t)' /\ Prints(t) = 1
      BY <1>0, <1>1, <1>8 DEF MutexTypes, Once, Twice, Prints
    <2>2. Done2' = Done2 \union {t} /\ t \notin Done2
      BY <1>2, <1>4, <1>5, <2>1 DEF Done2
    <2>3. Done1' = {} /\ t \in Done1
      BY <1>4, <2>1 DEF Done1
    <2>4. Cardinality(Done2') = Cardinality(Done2) + 1
      BY <1>6, <2>2, FS_AddElement
    <2>5. counter = 2 * Cardinality(Done2) + 1
      BY <1>0, <2>3 DEF MutexCounter
    <2>6. MutexCounter'
      BY <1>1, <1>6, <2>3, <2>4, <2>5 DEF MutexCounter
    <2>7. Len(printed[t]) = 1 BY <1>0, <2>1 DEF MutexPrinted
    <2>8. printed[t] # <<>> BY <2>7
    <2>9. printed[t][1] = counter /\ counter % 2 = 1
      BY <1>0, <2>1, <2>8 DEF MutexPrinted
    <2>10. ASSUME NEW u \in mutex!Threads \ {t}, printed[u] # <<>>, Twice(u)
           PROVE  printed[u][1] < 2 * Cardinality(Done2')
      <3>1. printed[u][1] < 2 * Cardinality(Done2)
        BY <1>0, <2>10 DEF MutexPrinted
      <3>2. printed[u][1] \in Nat
        <4>1. printed[u] \in Seq(Nat) /\ Len(printed[u]) # 0
          BY <1>0, <2>10 DEF MutexTypes
        <4> QED BY <4>1
      <3> QED BY <1>6, <2>4, <3>1, <3>2
    <2>11. MutexPrinted'
      <3> SUFFICES ASSUME NEW u \in mutex!Threads
          PROVE (/\ Len(printed[u]) = Prints(u)
                 /\ printed[u] # <<>> =>
                       /\ printed[u][1] % 2 = 1
                       /\ Once(u) => printed[u][1] = counter
                       /\ Twice(u) => printed[u][1] < 2 * Cardinality(Done2)
                       /\ level[u] = 2 /\ pc[u] = "print"
                             => printed[u][1] + 1 = counter
                 /\ Len(printed[u]) = 2 => printed[u][2] = printed[u][1] + 1)'
        BY DEF MutexPrinted
      <3>1. CASE u = t
        BY <1>1, <1>5, <1>6, <2>1, <2>4, <2>5, <2>7, <2>9, <3>1
      <3>2. CASE u # t
        BY <1>0, <1>1, <1>4, <2>10, <3>2 DEF MutexPrinted
      <3> QED BY <3>1, <3>2
    <2>12. MutexDistinct' BY <1>0, <1>1 DEF MutexDistinct
    <2> QED BY <1>3, <2>6, <2>11, <2>12 DEF MutexInv
  <1> QED BY <1>1, <1>7, <1>8

\* What the thread prints in foo is odd and above all that was printed by
\* those that are through, and what it prints in bar is the next number.
LEMMA MutexPrint ==
    ASSUME MutexInv, kind = "recursive",
           NEW t \in mutex!Threads, mutex!PrintCounter(t)
    PROVE  MutexInv'
  <1> USE MutexNum, MutexFree
  <1>0. /\ MutexTypes /\ MutexOwner /\ MutexCounter
        /\ MutexPrinted /\ MutexDistinct
    BY DEF MutexInv
  <1>1. /\ pc[t] = "print"
        /\ pc' = [pc EXCEPT ![t] = IF level[t] = 1 THEN "lock" ELSE "unlock"]
        /\ counter' = counter /\ counter \in Nat
        /\ level[t] \in 1 .. 2
        /\ printed' = [printed EXCEPT ![t] = Append(printed[t], counter)]
        /\ UNCHANGED <<kind, owner, depth, level, value, created, joined>>
    BY <1>0 DEF mutex!PrintCounter, mutex!Move, mutex!Goto, mutex!mutexVars,
                MutexTypes, MutexOwner
  <1>2. \A u \in mutex!Threads \ {t} :
            level[u] = 0 /\ ~Once(u) /\ pc[u] \in {"new", "lock", "exited"}
    BY <1>0, <1>1, MutexAlone
  <1>s. printed[t] \in Seq(Nat) /\ printed'[t] = Append(printed[t], counter)
    BY <1>0, <1>1 DEF MutexTypes
  <1>3. MutexTypes' /\ MutexOwner'
    <2>1. Append(printed[t], counter) \in Seq(Nat) BY <1>1, <1>s
    <2> QED BY <1>0, <1>1, <1>2, <2>1 DEF MutexTypes, MutexOwner
  <1>4. \A u \in mutex!Threads \ {t} :
            /\ ~Once(u)' /\ (Twice(u)' <=> Twice(u)) /\ Prints(u)' = Prints(u)
            /\ level'[u] = 0 /\ printed'[u] = printed[u]
    BY <1>0, <1>1, <1>2 DEF MutexTypes, Once, Twice, Prints
  <1>5. (Once(t)' <=> Once(t)) /\ (Twice(t)' <=> Twice(t))
    BY <1>0, <1>1 DEF MutexTypes, Once, Twice
  <1>6. Done2' = Done2 /\ Done1' = Done1
    BY <1>2, <1>4, <1>5 DEF Done1, Done2
  <1>7. MutexCounter' BY <1>0, <1>1, <1>6 DEF MutexCounter
  <1>8. IsFiniteSet(Done2) /\ Cardinality(Done2) \in Nat
    BY FooThreadsFinite DEF Done2
  <1>9. CASE level[t] = 1
    <2>1. Once(t) /\ ~Twice(t) /\ Prints(t) = 0 /\ Prints(t)' = 1
      BY <1>0, <1>1, <1>9 DEF MutexTypes, Once, Twice, Prints
    <2>2. counter = 2 * Cardinality(Done2) + 1
      BY <1>0, <2>1 DEF MutexCounter, Done1
    <2>3. printed[t] = <<>> /\ Len(printed[t]) = 0
      <3>1. Len(printed[t]) = 0 BY <1>0, <2>1 DEF MutexPrinted
      <3> QED BY <1>s, <3>1
    <2>4. /\ Len(printed'[t]) = 1 /\ printed'[t][1] = counter
          /\ printed'[t] # <<>>
      BY <1>1, <1>s, <2>3
    <2>5. counter % 2 = 1 BY <1>8, <2>2
    <2>6. MutexPrinted'
      BY <1>0, <1>1, <1>4, <1>5, <1>6, <1>9, <2>1, <2>4, <2>5 DEF MutexPrinted
    <2>7. ASSUME NEW u \in mutex!Threads \ {t}, printed[u] # <<>>
          PROVE  printed[u][1] # counter
      <3>1. Twice(u)
        <4>1. Len(printed[u]) # 0 BY <1>0, <2>7 DEF MutexTypes
        <4>2. Prints(u) # 0 BY <1>0, <4>1 DEF MutexPrinted
        <4> QED BY <1>2, <4>2 DEF Prints, Twice
      <3>2. printed[u][1] < 2 * Cardinality(Done2)
        BY <1>0, <2>7, <3>1 DEF MutexPrinted
      <3>3. printed[u][1] \in Nat
        <4>1. printed[u] \in Seq(Nat) /\ Len(printed[u]) # 0
          BY <1>0, <2>7 DEF MutexTypes
        <4> QED BY <4>1
      <3> QED BY <1>8, <2>2, <3>2, <3>3
    <2>8. MutexDistinct'
      BY <1>0, <1>4, <2>4, <2>7 DEF MutexDistinct
    <2> QED BY <1>3, <1>7, <2>6, <2>8 DEF MutexInv
  <1>10. CASE level[t] = 2
    <2>1. ~Once(t) /\ Twice(t) /\ Prints(t) = 1 /\ Prints(t)' = 2
      BY <1>0, <1>1, <1>10 DEF MutexTypes, Once, Twice, Prints
    <2>2. Len(printed[t]) = 1 /\ printed[t] # <<>>
      <3>1. Len(printed[t]) = 1 BY <1>0, <2>1 DEF MutexPrinted
      <3> QED BY <1>s, <3>1
    <2>3. /\ Len(printed'[t]) = 2 /\ printed'[t][1] = printed[t][1]
          /\ printed'[t][2] = counter /\ printed'[t] # <<>>
      BY <1>1, <1>s, <2>2
    <2>4. printed[t][1] + 1 = counter
      BY <1>0, <1>1, <1>10, <2>2 DEF MutexPrinted
    <2>5. MutexPrinted'
      BY <1>0, <1>1, <1>4, <1>5, <1>6, <1>10, <2>1, <2>2, <2>3, <2>4
         DEF MutexPrinted
    <2>6. MutexDistinct'
      BY <1>0, <1>4, <2>2, <2>3 DEF MutexDistinct
    <2> QED BY <1>3, <1>7, <2>5, <2>6 DEF MutexInv
  <1> QED BY <1>1, <1>9, <1>10

\* So does unlocking.
LEMMA MutexUnlock ==
    ASSUME MutexInv, kind = "recursive",
           NEW t \in mutex!Threads, mutex!Unlock(t)
    PROVE  MutexInv'
  <1> USE MutexNum, MutexFree
  <1>0. /\ MutexTypes /\ MutexOwner /\ MutexCounter
        /\ MutexPrinted /\ MutexDistinct
    BY DEF MutexInv
  <1>1. /\ pc[t] = "unlock" /\ level[t] \in 1 .. 2
        /\ pc' = [pc EXCEPT ![t] = IF level[t] = 1 THEN "exited" ELSE "unlock"]
        /\ owner = t /\ depth = level[t]
        /\ depth' = level[t] - 1
        /\ owner' = IF level[t] = 1 THEN mutex!Free ELSE t
        /\ level' = [level EXCEPT ![t] = level[t] - 1]
        /\ UNCHANGED <<kind, counter, value, printed, created, joined>>
    BY <1>0 DEF mutex!Unlock, mutex!Move, mutex!Goto, MutexTypes, MutexOwner
  <1>2. \A u \in mutex!Threads \ {t} : level[u] = 0
    BY <1>0, <1>1, MutexAlone
  <1>3. MutexTypes' /\ MutexOwner'
    BY <1>0, <1>1, <1>2 DEF MutexTypes, MutexOwner
  <1>4. MutexCounter' /\ MutexPrinted' /\ MutexDistinct'
    <2>1. \A u \in mutex!Threads :
              /\ Once(u)' <=> Once(u)
              /\ Twice(u)' <=> Twice(u)
              /\ Prints(u)' = Prints(u)
              /\ level'[u] = 2 /\ pc'[u] = "print"
                    => level[u] = 2 /\ pc[u] = "print"
      BY <1>0, <1>1 DEF MutexTypes, Once, Twice, Prints
    <2> QED BY <1>0, <1>1, <2>1, MutexFrame
  <1> QED BY <1>3, <1>4 DEF MutexInv

\* So do the steps of main.
LEMMA MutexMain ==
    ASSUME MutexInv, kind = "recursive", mutex!Create \/ mutex!Join
    PROVE  MutexInv'
  <1> USE MutexNum, MutexFree DEF mutex!Move, mutex!Goto, mutex!mutexVars
  <1>0. /\ MutexTypes /\ MutexOwner /\ MutexCounter
        /\ MutexPrinted /\ MutexDistinct
    BY DEF MutexInv
  <1>t. created' = created \/ created \in 0 .. FooThreads - 1
    BY DEF mutex!Create, mutex!Join, mutex!Threads
  <1>1. CASE mutex!Create
    <2>1. /\ created \in mutex!Threads /\ pc[created] = "new"
          /\ pc' = [pc EXCEPT ![created] = "lock"] /\ created' = created + 1
          /\ UNCHANGED <<kind, owner, depth, counter, level, value, printed,
                         joined>>
      BY <1>1 DEF mutex!Create
    <2>2. created + 1 \in 0 .. FooThreads BY <2>1 DEF mutex!Threads
    <2>3. MutexTypes' BY <1>0, <2>1, <2>2 DEF MutexTypes
    <2>4. MutexOwner'
      BY <1>0, <2>1 DEF MutexTypes, MutexOwner, mutex!Threads
    <2>5. MutexCounter' /\ MutexPrinted' /\ MutexDistinct'
      <3>1. level[created] = 0 BY <1>0, <2>1 DEF MutexOwner
      <3>2. \A u \in mutex!Threads :
                /\ Once(u)' <=> Once(u)
                /\ Twice(u)' <=> Twice(u)
                /\ Prints(u)' = Prints(u)
                /\ level'[u] = 2 /\ pc'[u] = "print"
                      => level[u] = 2 /\ pc[u] = "print"
        BY <1>0, <2>1, <3>1 DEF MutexTypes, Once, Twice, Prints
      <3> QED BY <1>0, <2>1, <3>2, MutexFrame
    <2> QED BY <2>3, <2>4, <2>5 DEF MutexInv
  <1>2. CASE mutex!Join
    <2>1. /\ joined \in mutex!Threads /\ pc[joined] = "exited"
          /\ joined' = joined + 1
          /\ UNCHANGED <<kind, owner, depth, counter, pc, level, value,
                         printed, created>>
      BY <1>2 DEF mutex!Join
    <2>2. joined + 1 \in 0 .. FooThreads BY <2>1 DEF mutex!Threads
    <2>3. MutexTypes' BY <1>0, <2>1, <2>2 DEF MutexTypes
    <2>4. MutexOwner'
      BY <1>0, <2>1 DEF MutexTypes, MutexOwner, mutex!Threads
    <2>5. MutexCounter' /\ MutexPrinted' /\ MutexDistinct'
      BY <1>0, <2>1, MutexFrame DEF Once, Twice, Prints
    <2> QED BY <2>3, <2>4, <2>5 DEF MutexInv
  <1> QED BY <1>1, <1>2

\* A step keeps the invariant.
LEMMA MutexStep ==
    ASSUME MutexInv, [mutex!Next]_(mutex!vars)
    PROVE  MutexInv'
  <1>1. kind' = kind
    BY DEF mutex!Next, mutex!thread_routine, mutex!Lock, mutex!WaitForOneself,
           mutex!ReadCounter, mutex!WriteCounter, mutex!PrintCounter,
           mutex!Unlock, mutex!Create, mutex!Join, mutex!Terminated,
           mutex!vars, mutex!mutexVars
  <1>2. CASE kind # "recursive" BY <1>1, <1>2 DEF MutexInv
  <1>3. CASE kind = "recursive"
    <2>1. ASSUME UNCHANGED mutex!vars PROVE MutexInv'
      <3>1. /\ MutexTypes /\ MutexOwner /\ MutexCounter /\ MutexPrinted
            /\ MutexDistinct
        BY <1>3 DEF MutexInv
      <3>2. UNCHANGED <<kind, owner, depth, counter, pc, level, value, printed,
                        created, joined>>
        BY <2>1 DEF mutex!vars, mutex!mutexVars
      <3>3. MutexTypes' /\ MutexOwner' BY <3>1, <3>2 DEF MutexTypes, MutexOwner
      <3>4. MutexCounter' /\ MutexPrinted' /\ MutexDistinct'
        BY <3>1, <3>2, MutexFrame DEF Once, Twice, Prints
      <3> QED BY <3>3, <3>4 DEF MutexInv
    <2> QED
      BY <1>3, <2>1, MutexLock, MutexRead, MutexWrite, MutexPrint, MutexUnlock,
         MutexMain
         DEF mutex!Next, mutex!thread_routine, mutex!WaitForOneself,
             mutex!Terminated
  <1> QED BY <1>2, <1>3

\* Each thread prints an odd value and the next one, and no two the same.
LEMMA MutexSafe == MutexInv => mutex!CountedInTurn
  <1> SUFFICES ASSUME MutexInv, kind = "recursive"
               PROVE  /\ \A t \in mutex!Threads :
                            Len(printed[t]) = 2 =>
                                /\ printed[t][1] % 2 = 1
                                /\ printed[t][2] = printed[t][1] + 1
                      /\ MutexDistinct
                      /\ joined = FooThreads => counter = 2 * FooThreads
    BY DEF mutex!CountedInTurn, MutexDistinct, mutex!Returned
  <1>0. /\ MutexTypes /\ MutexOwner /\ MutexCounter
        /\ MutexPrinted /\ MutexDistinct
    BY DEF MutexInv
  <1>1. \A t \in mutex!Threads :
            Len(printed[t]) = 2 => /\ printed[t][1] % 2 = 1
                                   /\ printed[t][2] = printed[t][1] + 1
    BY <1>0 DEF MutexPrinted, MutexTypes
  <1>2. ASSUME joined = FooThreads PROVE counter = 2 * FooThreads
    <2>1. \A t \in mutex!Threads : pc[t] = "exited"
      BY <1>0, <1>2, MutexNum DEF MutexOwner, mutex!Threads
    <2>2. Done2 = mutex!Threads /\ Done1 = {}
      BY <2>1 DEF Done1, Done2, Once, Twice
    <2> QED BY <1>0, <2>2, FooThreadsFinite, MutexNum DEF MutexCounter
  <1> QED BY <1>0, <1>1, <1>2

-----------------------------------------------------------------------------
(* All of them *)

\* The program that runs keeps its own invariant.
ThreadsInv ==
    /\ program = "greedy_calc_sqrts" => GreedyInv
    /\ program = "calc_sqrts" => CalcInv
    /\ program = "reader_writer_locks" => LocksInv
    /\ program = "barrier_sync" /\ OneEach => BarrierInv
    /\ program = "recursive_mutex" => MutexInv

\* A step is one of the program that runs, which stays the same.
LEMMA OneProgram ==
    ASSUME [Next]_vars
    PROVE  /\ program' = program
           /\ program = "greedy_calc_sqrts" => [greedy!Next]_(greedy!vars)
           /\ program = "calc_sqrts" => [calc!Next]_(calc!vars)
           /\ program = "reader_writer_locks" => [locks!Next]_(locks!vars)
           /\ program = "barrier_sync" => [barrier!Next]_(barrier!vars)
           /\ program = "recursive_mutex" => [mutex!Next]_(mutex!vars)
  <1>1. CASE Next BY <1>1 DEF Next
  <1>2. CASE UNCHANGED vars
    BY <1>2 DEF vars, common, rootVars, lockVars, barrierVars, fooVars,
                greedy!vars, greedy!main, calc!vars, locks!vars,
                barrier!vars, mutex!vars, mutex!mutexVars
  <1> QED BY <1>1, <1>2

\* Every program starts in its invariant.
LEMMA ThreadsInit == Init => ThreadsInv
  BY GreedyInit, CalcInit, LocksInit, BarrierInit, MutexInit
     DEF Init, ThreadsInv

\* Every program keeps its invariant.
LEMMA ThreadsStep == ThreadsInv /\ [Next]_vars => ThreadsInv'
  <1> SUFFICES ASSUME ThreadsInv, [Next]_vars PROVE ThreadsInv'
    OBVIOUS
  <1>1. program' = program BY OneProgram
  <1>2. CASE program = "greedy_calc_sqrts"
    BY <1>1, <1>2, OneProgram, GreedyStep DEF ThreadsInv
  <1>3. CASE program = "calc_sqrts"
    BY <1>1, <1>3, OneProgram, CalcStep DEF ThreadsInv
  <1>4. CASE program = "reader_writer_locks"
    BY <1>1, <1>4, OneProgram, LocksStep DEF ThreadsInv
  <1>5. CASE program = "barrier_sync"
    BY <1>1, <1>5, OneProgram, BarrierStep DEF ThreadsInv, OneEach
  <1>6. CASE program = "recursive_mutex"
    BY <1>1, <1>6, OneProgram, MutexStep DEF ThreadsInv
  <1> QED BY <1>1, <1>2, <1>3, <1>4, <1>5, <1>6 DEF ThreadsInv

\* Each of the five programs is always in its invariant.
THEOREM ThreadsInvariance == Spec => []ThreadsInv
  <1> QED BY ThreadsInit, ThreadsStep, PTL DEF Spec

\* No index is drawn by two threads and no root is missing.
THEOREM RootsAreStored == Spec => []AllRootsStored
  <1>1. ThreadsInv => AllRootsStored
    BY GreedySafe, CalcSafe DEF ThreadsInv, AllRootsStored
  <1> QED BY <1>1, ThreadsInvariance, PTL

\* Drawing an index under the mutex, in greedy_calc_sqrts and in calc_sqrts,
\* implements a counter from which each index is claimed in one step.
THEOREM DrawingIsClaiming == Spec => ImplementsCounter
  <1>1. Init => Counter!Init
    <2> SUFFICES ASSUME Init PROVE Counter!Init
      OBVIOUS
    <2>1. CASE program = "greedy_calc_sqrts"
      BY <2>1, GreedySize
         DEF Init, greedy!Init, Counter!Init, greedy!size,
             greedy!Threads
    <2>2. CASE program = "calc_sqrts"
      BY <2>2 DEF Init, calc!Init, Counter!Init, calc!Threads
    <2>3. CASE program \notin {"greedy_calc_sqrts", "calc_sqrts"}
      BY <2>3 DEF Counter!Init
    <2> QED BY <2>1, <2>2, <2>3
  <1>2. ThreadsInv /\ ThreadsInv' /\ [Next]_vars
           => [Counter!Next]_(Counter!counterVars)
    <2> SUFFICES ASSUME ThreadsInv, ThreadsInv', [Next]_vars
                 PROVE  [Counter!Next]_(Counter!counterVars)
      OBVIOUS
    <2>1. program' = program BY OneProgram
    <2>2. CASE program = "greedy_calc_sqrts"
      BY <2>1, <2>2, OneProgram, GreedyCounterStep DEF ThreadsInv
    <2>3. CASE program = "calc_sqrts"
      BY <2>1, <2>3, OneProgram, CalcCounterStep DEF ThreadsInv
    <2>4. CASE program \notin {"greedy_calc_sqrts", "calc_sqrts"}
      BY <2>1, <2>4, OtherCounter
    <2> QED BY <2>2, <2>3, <2>4
  <1> QED
    BY <1>1, <1>2, ThreadsInvariance, PTL
       DEF Spec, ImplementsCounter, Counter!Spec

\* With an element for each thread no thread of barrier_sync reads a cell that
\* another one may be writing, and no thread of reader_writer_locks is past the
\* barrier before all have come to it.
THEOREM BarriersAreRespected ==
    ASSUME SumSize = SumThreads
    PROVE  Spec => []BarriersHold
  <1>1. ThreadsInv => BarriersHold
    BY BarrierSafe DEF ThreadsInv, BarriersHold, LocksInv, OneEach
  <1> QED BY <1>1, ThreadsInvariance, PTL

\* A recursive mutex gives each thread of recursive_mutex two values of the
\* counter in a row that nobody else gets.
THEOREM CountsInTurn ==
    Spec => [](program = "recursive_mutex" => mutex!CountedInTurn)
  <1>1. ThreadsInv => (program = "recursive_mutex" => mutex!CountedInTurn)
    BY MutexSafe DEF ThreadsInv
  <1> QED BY <1>1, ThreadsInvariance, PTL
=============================================================================
