------------------------- MODULE ReaderWriterLocks -------------------------
(***************************************************************************)
(* threads/reader_writer_locks.c: readers and writers meet at a barrier    *)
(* and then take and release one reader/writer lock until main tells them  *)
(* to stop.                                                                *)
(*                                                                         *)
(* Both kinds of thread call pthread_rwlock_rdlock, so the lock is only    *)
(* ever held for reading and its writer preference never comes into play.  *)
(***************************************************************************)
EXTENDS Integers, FiniteSets

CONSTANTS NumReaders,  \* NUM_READERS
          NumWriters   \* NUM_WRITERS

SizesAssumption ==
    /\ NumReaders \in Nat
    /\ NumWriters \in Nat
    /\ NumReaders + NumWriters > 0

num_threads == NumReaders + NumWriters
Threads == 0 .. num_threads - 1
Readers == 0 .. NumReaders - 1
Writers == Threads \ Readers

VARIABLES
    pc,        \* where each thread is
    arrived,   \* the threads that have called pthread_barrier_wait
    rw_lock,   \* the threads that hold the lock for reading
    done,
    created,   \* how many threads main has created
    joined     \* how many it has joined

vars == <<pc, arrived, rw_lock, done, created, joined>>

ThreadPc == {"new", "start", "barrier", "loop", "lock", "locked", "pause",
             "exited"}

Init ==
    /\ pc = [t \in Threads |-> "new"]
    /\ arrived = {}
    /\ rw_lock = {}
    /\ done = FALSE
    /\ created = 0
    /\ joined = 0

Move(t, from, to) == pc[t] = from /\ pc' = [pc EXCEPT ![t] = to]
main == <<done, created, joined>>

----------------------------------------------------------------------------
(* reader and writer; they differ in how long they sleep *)

\* pthread_barrier_wait
Arrive(t) ==
    /\ Move(t, "start", "barrier")
    /\ arrived' = arrived \union {t}
    /\ UNCHANGED <<rw_lock, main>>

\* Mutant of PassBarrier: a barrier for the readers only.
PassReadersBarrier(t) ==
    /\ Cardinality(arrived) >= NumReaders
    /\ Move(t, "barrier", "loop")
    /\ UNCHANGED <<arrived, rw_lock, main>>

PassBarrier(t) ==
    /\ Cardinality(arrived) = num_threads
    /\ Move(t, "barrier", "loop")
    /\ UNCHANGED <<arrived, rw_lock, main>>

\* Mutant of TestDone: `while (1)'.
TestNothing(t) ==
    /\ Move(t, "loop", "lock")
    /\ UNCHANGED <<arrived, rw_lock, main>>

\* The test of done and the call of pthread_rwlock_rdlock are two steps.
TestDone(t) ==
    /\ Move(t, "loop", IF done THEN "exited" ELSE "lock")
    /\ UNCHANGED <<arrived, rw_lock, main>>

RdLock(t) ==
    /\ Move(t, "lock", "locked")
    /\ rw_lock' = rw_lock \union {t}
    /\ UNCHANGED <<arrived, main>>

Unlock(t) ==
    /\ Move(t, "locked", "pause")
    /\ rw_lock' = rw_lock \ {t}
    /\ UNCHANGED <<arrived, main>>

Wake(t) ==
    /\ Move(t, "pause", "loop")
    /\ UNCHANGED <<arrived, rw_lock, main>>

Thread(t) ==
    \/ Arrive(t)
    \/ PassBarrier(t)
    \/ TestDone(t)
    \/ RdLock(t)
    \/ Unlock(t)
    \/ Wake(t)

----------------------------------------------------------------------------
(* main *)

\* The readers are created first, and then the writers.
Create ==
    /\ created < num_threads
    /\ Move(created, "new", "start")
    /\ created' = created + 1
    /\ UNCHANGED <<arrived, rw_lock, done, joined>>

\* getchar returns when the user types a character.
UserQuits ==
    /\ created = num_threads
    /\ ~done
    /\ done' = TRUE
    /\ UNCHANGED <<pc, arrived, rw_lock, created, joined>>

Join ==
    /\ done
    /\ joined < num_threads
    /\ pc[joined] = "exited"
    /\ joined' = joined + 1
    /\ UNCHANGED <<pc, arrived, rw_lock, done, created>>

Returned == joined = num_threads
Terminated == Returned /\ UNCHANGED vars

Next ==
    \/ \E t \in Threads : Thread(t)
    \/ Create
    \/ UserQuits
    \/ Join
    \/ Terminated

Spec == Init /\ [][Next]_vars

----------------------------------------------------------------------------
(* Properties *)

TypeOK ==
    /\ pc \in [Threads -> ThreadPc]
    /\ arrived \in SUBSET Threads
    /\ rw_lock \in SUBSET Threads
    /\ done \in BOOLEAN
    /\ created \in 0 .. num_threads
    /\ joined \in 0 .. num_threads

\* "no thread enters its main loop until all threads have at least been
\* created" (reader_writer_locks.c:5): the first thread that leaves the
\* barrier leaves after main has created the last one, reader or writer.
NoHeadStart ==
    (\E t \in Threads : pc[t] \notin {"new", "start", "barrier"})
        => created = num_threads /\ arrived = Threads
=============================================================================
