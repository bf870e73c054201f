-------------------------- MODULE ProducerConsumer --------------------------
(***************************************************************************)
(* threads/single_producer_consumer.c: one producer and one consumer       *)
(* thread share a ring buffer that is protected by a mutex and two         *)
(* condition variables.                                                    *)
(*                                                                         *)
(* A step of a thread is what it does between two points where the other   *)
(* thread may run: taking the mutex, one turn of the `while` around        *)
(* pthread_cond_wait, the buffer operation with its signal, the unlock.    *)
(* pthread_cond_wait releases the mutex and sleeps in one step; the woken  *)
(* thread takes the mutex again before it looks at its condition.  A sleep *)
(* may end without a signal, as POSIX allows.                              *)
(***************************************************************************)
EXTENDS Integers, Sequences

CONSTANTS NumIterations,  \* NUM_ITERATIONS
          BufferSize      \* BUFFER_SIZE

ASSUME SizesAssumption ==
    /\ NumIterations \in Nat \ {0}
    /\ BufferSize \in Nat \ {0}

VARIABLES
    pc,               \* where each thread is
    buffer_mutex,     \* the thread that holds buffer_mutex, or "free"
    buffer,           \* the ring of ints
    buf_size,         \* number of filled slots
    rear,             \* the static of add_buffer
    front,            \* the static of get_buffer
    producer_exists,
    produced,         \* the loop variable i of the producer
    wanted,           \* the loop variable i of the consumer
    consumed          \* history: every value get_buffer returned, in order

ring == <<buffer, buf_size, rear, front>>
vars == <<pc, buffer_mutex, buffer, buf_size, rear, front, producer_exists,
          produced, wanted, consumed>>

Workers == {"producer", "consumer"}
Slots == 0 .. BufferSize - 1

WorkerPc == {"new", "lock", "test", "cond_wait", "relock", "use", "unlock",
             "close", "exited"}
MainPc == {"create_consumer", "create_producer", "join_producer",
           "join_consumer", "returned"}

Init ==
    /\ pc = [t \in Workers \union {"main"} |->
                IF t = "main" THEN "create_consumer" ELSE "new"]
    /\ buffer_mutex = "free"
    /\ buffer = [s \in Slots |-> 0]
    /\ buf_size = 0
    /\ rear = 0
    /\ front = 0
    /\ producer_exists = TRUE
    /\ produced = 1
    /\ wanted = 1
    /\ consumed = <<>>

----------------------------------------------------------------------------
(* The buffer object *)

\* Mutant of add_buffer: rear does not wrap around.
add_buffer_unwrapped(data) ==
    /\ buffer' = [buffer EXCEPT ![rear] = data]
    /\ rear' = rear + 1
    /\ buf_size' = buf_size + 1
    /\ UNCHANGED front

add_buffer(data) ==
    /\ buffer' = [buffer EXCEPT ![rear] = data]
    /\ rear' = (rear + 1) % BufferSize
    /\ buf_size' = buf_size + 1
    /\ UNCHANGED front

\* Mutant of get_buffer: front stays.
get_buffer_again ==
    /\ consumed' = Append(consumed, buffer[front])
    /\ buf_size' = buf_size - 1
    /\ UNCHANGED <<front, buffer, rear>>

get_buffer ==
    /\ consumed' = Append(consumed, buffer[front])
    /\ front' = (front + 1) % BufferSize
    /\ buf_size' = buf_size - 1
    /\ UNCHANGED <<buffer, rear>>

(* Mutex and condition variables.  Each condition variable has one thread  *)
(* that ever waits on it, so signalling it wakes that thread if it sleeps. *)

At(t, from) == pc[t] = from
Goto(t, to) == pc' = [pc EXCEPT ![t] = to]

\* Mutant of SignalAndGoto: the signal is forgotten.
NoSignal(waiter, t, to) == pc' = [pc EXCEPT ![t] = to]

SignalAndGoto(waiter, t, to) ==
    pc' = [pc EXCEPT ![t] = to,
                     ![waiter] = IF @ = "cond_wait" THEN "relock" ELSE @]

Acquire(t) == buffer_mutex = "free" /\ buffer_mutex' = t
Release == buffer_mutex' = "free"

\* Mutant of Relock: `if' for `while', the condition is not tested again.
RelockWithoutTest(t) ==
    /\ At(t, "relock")
    /\ Acquire(t)
    /\ Goto(t, "use")
    /\ UNCHANGED <<ring, producer_exists, produced, wanted, consumed>>

\* The sleeper has the mutex again and goes back to the test of its loop.
Relock(t) ==
    /\ At(t, "relock")
    /\ Acquire(t)
    /\ Goto(t, "test")
    /\ UNCHANGED <<ring, producer_exists, produced, wanted, consumed>>

SpuriousWakeup(t) ==
    /\ At(t, "cond_wait")
    /\ Goto(t, "relock")
    /\ UNCHANGED <<ring, buffer_mutex, producer_exists, produced, wanted,
                   consumed>>

----------------------------------------------------------------------------
(* producer *)

\* Also the lock after the loop, when every number has been added.
ProducerLock ==
    /\ At("producer", "lock")
    /\ Acquire("producer")
    /\ Goto("producer", IF produced <= NumIterations THEN "test" ELSE "close")
    /\ UNCHANGED <<ring, producer_exists, produced, wanted, consumed>>

ProducerTest ==
    /\ At("producer", "test")
    /\ IF buf_size = BufferSize
       THEN Release /\ Goto("producer", "cond_wait")
       ELSE UNCHANGED buffer_mutex /\ Goto("producer", "use")
    /\ UNCHANGED <<ring, producer_exists, produced, wanted, consumed>>

ProducerAdd ==
    /\ At("producer", "use")
    /\ add_buffer(produced)
    /\ SignalAndGoto("consumer", "producer", "unlock")
    /\ UNCHANGED <<buffer_mutex, producer_exists, produced, wanted, consumed>>

ProducerUnlock ==
    /\ At("producer", "unlock")
    /\ Release
    /\ produced' = produced + 1
    /\ Goto("producer", "lock")
    /\ UNCHANGED <<ring, producer_exists, wanted, consumed>>

ProducerClose ==
    /\ At("producer", "close")
    /\ producer_exists' = FALSE
    /\ SignalAndGoto("consumer", "producer", "exited")
    /\ Release
    /\ UNCHANGED <<ring, produced, wanted, consumed>>

Producer ==
    \/ ProducerLock
    \/ ProducerTest
    \/ ProducerAdd
    \/ ProducerUnlock
    \/ ProducerClose
    \/ Relock("producer")

----------------------------------------------------------------------------
(* consumer *)

ConsumerLock ==
    /\ At("consumer", "lock")
    /\ wanted < NumIterations
    /\ Acquire("consumer")
    /\ Goto("consumer", "test")
    /\ UNCHANGED <<ring, producer_exists, produced, wanted, consumed>>

ConsumerFinish ==
    /\ At("consumer", "lock")
    /\ wanted >= NumIterations
    /\ Goto("consumer", "exited")
    /\ UNCHANGED <<ring, buffer_mutex, producer_exists, produced, wanted,
                   consumed>>

\* Mutant of ConsumerTest: gives up on an empty buffer at once.
ConsumerTestImpatient ==
    /\ At("consumer", "test")
    /\ IF buf_size = 0
       THEN Release /\ Goto("consumer", "exited")
       ELSE UNCHANGED buffer_mutex /\ Goto("consumer", "use")
    /\ UNCHANGED <<ring, producer_exists, produced, wanted, consumed>>

\* On an empty buffer the consumer sleeps while there is a producer and
\* gives up when there is none; either way it lets go of the mutex.
ConsumerTest ==
    /\ At("consumer", "test")
    /\ IF buf_size = 0
       THEN /\ Release
            /\ Goto("consumer",
                    IF producer_exists THEN "cond_wait" ELSE "exited")
       ELSE UNCHANGED buffer_mutex /\ Goto("consumer", "use")
    /\ UNCHANGED <<ring, producer_exists, produced, wanted, consumed>>

\* The number taken out overwrites the loop variable.
ConsumerGet ==
    /\ At("consumer", "use")
    /\ get_buffer
    /\ wanted' = buffer[front]
    /\ SignalAndGoto("producer", "consumer", "unlock")
    /\ UNCHANGED <<buffer_mutex, producer_exists, produced>>

ConsumerUnlock ==
    /\ At("consumer", "unlock")
    /\ Release
    /\ wanted' = wanted + 1
    /\ Goto("consumer", "lock")
    /\ UNCHANGED <<ring, producer_exists, produced, consumed>>

Consumer ==
    \/ ConsumerLock
    \/ ConsumerFinish
    \/ ConsumerTest
    \/ ConsumerGet
    \/ ConsumerUnlock
    \/ Relock("consumer")

----------------------------------------------------------------------------
(* main *)

Create(t, from, to) ==
    /\ At("main", from)
    /\ pc' = [pc EXCEPT !["main"] = to, ![t] = "lock"]

Join(t, from, to) ==
    /\ At("main", from)
    /\ At(t, "exited")
    /\ Goto("main", to)

Main ==
    /\ \/ Create("consumer", "create_consumer", "create_producer")
       \/ Create("producer", "create_producer", "join_producer")
       \/ Join("producer", "join_producer", "join_consumer")
       \/ Join("consumer", "join_consumer", "returned")
    /\ UNCHANGED <<ring, buffer_mutex, producer_exists, produced, wanted,
                   consumed>>

Terminated == At("main", "returned") /\ UNCHANGED vars

Next ==
    \/ Producer
    \/ Consumer
    \/ Main
    \/ \E t \in Workers : SpuriousWakeup(t)
    \/ Terminated

Spec == Init /\ [][Next]_vars

\* Every thread keeps running while it can, and sleeps do not end without a
\* signal for ever.
FairSpec ==
    /\ Spec
    /\ WF_vars(Producer) /\ WF_vars(Consumer) /\ WF_vars(Main)
    /\ <>[][~ \E t \in Workers : SpuriousWakeup(t)]_vars

----------------------------------------------------------------------------
(* Properties *)

TypeOK ==
    /\ pc \in [Workers \union {"main"} -> WorkerPc \union MainPc]
    /\ buffer_mutex \in Workers \union {"free"}
    /\ buffer \in [Slots -> 0 .. NumIterations]
    /\ buf_size \in 0 .. BufferSize
    /\ rear \in Slots
    /\ front \in Slots
    /\ producer_exists \in BOOLEAN
    /\ produced \in 1 .. NumIterations + 1
    /\ wanted \in 1 .. NumIterations
    /\ consumed \in Seq(1 .. NumIterations)

\* How many numbers add_buffer has been given so far.
Added == IF At("producer", "unlock") THEN produced ELSE produced - 1

\* The filled slots, oldest first.
Filled == [j \in 1 .. buf_size |-> buffer[(front + j - 1) % BufferSize]]

\* What was taken out followed by what is in the ring is 1, 2, 3, ... up to
\* the last number added: nothing that was not yet read is overwritten, read
\* twice or skipped, although front and rear each wrap around on their own.
RingHoldsUnread ==
    /\ Len(consumed) + buf_size = Added
    /\ \A k \in 1 .. Len(consumed) : consumed[k] = k
    /\ \A j \in 1 .. buf_size : Filled[j] = Len(consumed) + j

\* A sleeping thread has reason to: the producer sleeps only on a full
\* buffer, the consumer only on an empty one with the producer still there,
\* so no signal was missed between the test and the sleep.
NoMissedSignal ==
    /\ At("producer", "cond_wait") => buf_size = BufferSize
    /\ At("consumer", "cond_wait") => buf_size = 0 /\ producer_exists

\* The consumer ends because of its loop counter and never because it found
\* the producer gone: it always leaves with NumIterations - 1 numbers.
ConsumerNeverCutShort ==
    At("consumer", "exited") => Len(consumed) = NumIterations - 1

\* The ring with its two threads is a bounded first-in first-out channel.
Fifo == INSTANCE BoundedFifo WITH
            Capacity <- BufferSize, Total <- NumIterations,
            queue <- Filled, sent <- Added, received <- consumed
ImplementsFifo == Fifo!Spec

\* main joins both threads: neither is left asleep for ever, in whatever
\* order the two run and whichever is last to signal.
Termination == <>At("main", "returned")
=============================================================================
