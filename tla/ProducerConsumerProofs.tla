----------------------- MODULE ProducerConsumerProofs -----------------------
(***************************************************************************)
(* Proofs about ProducerConsumer for every NumIterations and BufferSize:   *)
(* the ring never loses or overwrites an unread number, no thread sleeps   *)
(* on a condition that already holds, the consumer is never cut short, and *)
(* the whole implements a bounded first-in first-out channel.              *)
(***************************************************************************)
EXTENDS ProducerConsumer, TLAPS

(***************************************************************************)
(* The inductive invariant.                                                *)
(***************************************************************************)

\* Which thread may be where.
PcInv ==
    /\ pc["main"] \in MainPc
    /\ pc["producer"] \in WorkerPc
    /\ pc["consumer"] \in WorkerPc \ {"close"}
    /\ pc["main"] = "create_consumer" => pc["consumer"] = "new"
    /\ pc["main"] \in {"create_consumer", "create_producer"}
            => pc["producer"] = "new"
    /\ pc["main"] = "returned" => pc["consumer"] = "exited"

\* The mutex is held by the thread that is between its lock and its unlock.
MutexInv ==
    \A t \in Workers :
        buffer_mutex = t <=> pc[t] \in {"test", "use", "unlock", "close"}

\* The loop variable of the producer.
ProducedInv ==
    /\ pc["producer"] \in {"test", "cond_wait", "relock", "use", "unlock"}
            => produced <= NumIterations
    /\ pc["producer"] \in {"close", "exited"} => produced = NumIterations + 1
    /\ pc["producer"] = "new" => produced = 1
    /\ pc["producer"] = "use" => buf_size < BufferSize
    /\ producer_exists <=> pc["producer"] # "exited"

\* The loop variable of the consumer is the last number it took out, plus
\* one from the increment on.
WantedInv ==
    /\ wanted = Len(consumed) + (IF pc["consumer"] = "unlock" THEN 0 ELSE 1)
    /\ pc["consumer"] \in {"test", "cond_wait", "relock", "use", "unlock"}
            => wanted < NumIterations
    /\ pc["consumer"] = "exited" => wanted >= NumIterations
    /\ pc["consumer"] = "use" => buf_size > 0

\* rear follows front at the distance buf_size.
RearInv == rear = (front + buf_size) % BufferSize

IInv ==
    /\ TypeOK
    /\ PcInv
    /\ MutexInv
    /\ ProducedInv
    /\ WantedInv
    /\ RearInv
    /\ RingHoldsUnread
    /\ NoMissedSignal

-----------------------------------------------------------------------------
(* Arithmetic of the ring. *)

\* A number below twice the size of the ring wraps around at most once.
LEMMA WrapOnce ==
    ASSUME NEW x \in Int, 0 <= x, x < 2 * BufferSize
    PROVE  x % BufferSize = IF x < BufferSize THEN x ELSE x - BufferSize
  BY SizesAssumption, SMT

\* Stepping once and then y times is stepping y + 1 times.
LEMMA WrapStep ==
    ASSUME NEW x \in Slots, NEW y \in 0 .. BufferSize - 1
    PROVE  (((x + 1) % BufferSize) + y) % BufferSize
                = (x + (y + 1)) % BufferSize
  <1> USE SizesAssumption DEF Slots
  <1>1. CASE x + 1 < BufferSize
    <2>1. (x + 1) % BufferSize = x + 1 BY <1>1, WrapOnce
    <2> QED BY <2>1
  <1>2. CASE x + 1 = BufferSize
    <2>1. (x + 1) % BufferSize = 0 BY <1>2, WrapOnce
    <2>2. (0 + y) % BufferSize = y BY WrapOnce
    <2>3. (x + (y + 1)) % BufferSize = y BY <1>2, WrapOnce
    <2> QED BY <2>1, <2>2, <2>3
  <1> QED BY <1>1, <1>2

\* Stepping y times and then once is stepping y + 1 times.
LEMMA WrapStepLast ==
    ASSUME NEW x \in Slots, NEW y \in 0 .. BufferSize - 1
    PROVE  (((x + y) % BufferSize) + 1) % BufferSize
                = (x + (y + 1)) % BufferSize
  <1> USE SizesAssumption DEF Slots
  <1>1. CASE x + y < BufferSize
    <2>1. (x + y) % BufferSize = x + y BY <1>1, WrapOnce
    <2> QED BY <2>1
  <1>2. CASE x + y >= BufferSize
    <2>1. (x + y) % BufferSize = x + y - BufferSize BY <1>2, WrapOnce
    <2>2. x + y + 1 - BufferSize \in 0 .. BufferSize - 1 BY <1>2
    <2>3. (x + y + 1 - BufferSize) % BufferSize = x + y + 1 - BufferSize
      BY <2>2, WrapOnce
    <2>4. (x + (y + 1)) % BufferSize = x + y + 1 - BufferSize
      BY <1>2, <2>2, WrapOnce
    <2> QED BY <2>1, <2>3, <2>4
  <1> QED BY <1>1, <1>2

\* Different distances below the size of the ring lead to different slots.
LEMMA WrapDistinct ==
    ASSUME NEW x \in Slots,
           NEW y \in 0 .. BufferSize - 1, NEW z \in 0 .. BufferSize - 1,
           y # z
    PROVE  (x + y) % BufferSize # (x + z) % BufferSize
  <1>1. (x + y) % BufferSize = IF x + y < BufferSize THEN x + y
                                                     ELSE x + y - BufferSize
    BY SizesAssumption, WrapOnce DEF Slots
  <1>2. (x + z) % BufferSize = IF x + z < BufferSize THEN x + z
                                                     ELSE x + z - BufferSize
    BY SizesAssumption, WrapOnce DEF Slots
  <1> QED BY <1>1, <1>2, SizesAssumption DEF Slots

\* No step at all: a slot is its own distance-0 neighbour.
LEMMA WrapNone ==
    ASSUME NEW x \in Slots
    PROVE  (x + 1 - 1) % BufferSize = x
  BY SizesAssumption, WrapOnce DEF Slots

LEMMA InitIInv == Init => IInv
  <1> SUFFICES ASSUME Init PROVE IInv
    OBVIOUS
  <1> USE SizesAssumption DEF Init
  <1>1. TypeOK
    BY DEF TypeOK, Slots, Workers, WorkerPc, MainPc
  <1>2. PcInv /\ MutexInv /\ ProducedInv /\ WantedInv /\ NoMissedSignal
    BY DEF PcInv, MutexInv, ProducedInv, WantedInv, NoMissedSignal, Workers,
           WorkerPc, MainPc, At
  <1>3. RearInv
    BY WrapOnce DEF RearInv
  <1>4. RingHoldsUnread
    BY DEF RingHoldsUnread, Filled, Added, At, Workers
  <1> QED
    BY <1>1, <1>2, <1>3, <1>4 DEF IInv

\* A step that leaves the ring, the history and the number of added items
\* alone leaves the contents of the ring alone.
LEMMA RingFrame ==
    ASSUME RingHoldsUnread, RearInv, UNCHANGED <<ring, consumed>>,
           Added' = Added
    PROVE  RingHoldsUnread' /\ RearInv'
  BY DEF RingHoldsUnread, RearInv, Filled, ring

USE DEF At, Goto, Acquire, Release

\* The parts of the invariant that the contents of the ring do not enter.
ControlInv ==
    TypeOK /\ PcInv /\ MutexInv /\ ProducedInv /\ WantedInv /\ NoMissedSignal

\* The steps that move a thread, or take or release the mutex, and nothing
\* else, keep the invariant and leave the contents of the ring alone.
LEMMA ControlStepIInv ==
    ASSUME IInv,
           \/ ProducerLock \/ ProducerTest \/ ProducerUnlock \/ ProducerClose
           \/ ConsumerLock \/ ConsumerFinish \/ ConsumerTest \/ ConsumerUnlock
           \/ \E t \in Workers : Relock(t) \/ SpuriousWakeup(t)
           \/ Main
    PROVE  IInv' /\ UNCHANGED <<ring, consumed>> /\ Added' = Added
  <1> USE SizesAssumption DEF IInv, ring, ControlInv, TypeOK, PcInv, MutexInv,
          ProducedInv, WantedInv, NoMissedSignal, Workers, WorkerPc, MainPc
  <1>1. CASE ProducerLock
    <2>1. ControlInv' BY <1>1 DEF ProducerLock
    <2>2. Added' = Added BY <1>1 DEF ProducerLock, Added
    <2> QED BY <1>1, <2>1, <2>2, RingFrame DEF ProducerLock
  <1>2. CASE ProducerTest
    <2>1. ControlInv' BY <1>2 DEF ProducerTest
    <2>2. Added' = Added BY <1>2 DEF ProducerTest, Added
    <2> QED BY <1>2, <2>1, <2>2, RingFrame DEF ProducerTest
  <1>3. CASE ProducerUnlock
    <2>1. ControlInv' BY <1>3 DEF ProducerUnlock
    <2>2. Added' = Added BY <1>3 DEF ProducerUnlock, Added
    <2> QED BY <1>3, <2>1, <2>2, RingFrame DEF ProducerUnlock
  <1>4. CASE ProducerClose
    <2>1. ControlInv' BY <1>4 DEF ProducerClose, SignalAndGoto
    <2>2. Added' = Added BY <1>4 DEF ProducerClose, SignalAndGoto, Added
    <2> QED BY <1>4, <2>1, <2>2, RingFrame DEF ProducerClose
  <1>5. CASE ConsumerLock
    <2>1. ControlInv' BY <1>5 DEF ConsumerLock
    <2>2. Added' = Added BY <1>5 DEF ConsumerLock, Added
    <2> QED BY <1>5, <2>1, <2>2, RingFrame DEF ConsumerLock
  <1>6. CASE ConsumerFinish
    <2>1. ControlInv' BY <1>6 DEF ConsumerFinish
    <2>2. Added' = Added BY <1>6 DEF ConsumerFinish, Added
    <2> QED BY <1>6, <2>1, <2>2, RingFrame DEF ConsumerFinish
  <1>7. CASE ConsumerTest
    \* An empty buffer without a producer would mean that every number was
    \* taken out, but then the loop would have ended before this test.
    <2>1. buf_size = 0 => producer_exists
      BY <1>7 DEF ConsumerTest, RingHoldsUnread, Added
    <2>2. ControlInv' BY <1>7, <2>1 DEF ConsumerTest
    <2>3. Added' = Added BY <1>7 DEF ConsumerTest, Added
    <2> QED BY <1>7, <2>2, <2>3, RingFrame DEF ConsumerTest
  <1>8. CASE ConsumerUnlock
    <2>1. ControlInv' BY <1>8 DEF ConsumerUnlock
    <2>2. Added' = Added BY <1>8 DEF ConsumerUnlock, Added
    <2> QED BY <1>8, <2>1, <2>2, RingFrame DEF ConsumerUnlock
  <1>9. CASE \E t \in Workers : Relock(t) \/ SpuriousWakeup(t)
    <2> PICK t \in Workers : Relock(t) \/ SpuriousWakeup(t) BY <1>9
    <2>1. ControlInv'
      <3>1. CASE t = "producer" BY <3>1 DEF Relock, SpuriousWakeup
      <3>2. CASE t = "consumer" BY <3>2 DEF Relock, SpuriousWakeup
      <3> QED BY <3>1, <3>2
    <2>2. Added' = Added BY DEF Relock, SpuriousWakeup, Added
    <2> QED BY <2>1, <2>2, RingFrame DEF Relock, SpuriousWakeup
  <1>10. CASE Main
    <2>1. ControlInv' BY <1>10 DEF Main, Create, Join
    <2>2. Added' = Added BY <1>10 DEF Main, Create, Join, Added
    <2> QED BY <1>10, <2>1, <2>2, RingFrame DEF Main
  <1> QED
    BY <1>1, <1>2, <1>3, <1>4, <1>5, <1>6, <1>7, <1>8, <1>9, <1>10

\* Adding a number fills a slot that holds nothing unread.
LEMMA AddIInv == IInv /\ ProducerAdd => IInv'
  <1> SUFFICES ASSUME IInv, ProducerAdd PROVE IInv'
    OBVIOUS
  <1> USE SizesAssumption DEF IInv, ProducerAdd, add_buffer
  <1>1. ControlInv'
    <2>1. buffer' \in [Slots -> 0 .. NumIterations] /\ rear' \in Slots
      BY WrapOnce DEF TypeOK, ProducedInv, Slots
    <2> QED
      BY <2>1 DEF ControlInv, TypeOK, PcInv, MutexInv, ProducedInv,
                  WantedInv, NoMissedSignal, Workers, WorkerPc, MainPc,
                  SignalAndGoto
  <1>2. RearInv'
    <2>1. (((front + buf_size) % BufferSize) + 1) % BufferSize
            = (front + (buf_size + 1)) % BufferSize
      BY WrapStepLast DEF TypeOK, ProducedInv
    <2> QED BY <2>1 DEF RearInv
  <1>3. Added' = Added + 1 /\ produced = Added + 1
    BY DEF TypeOK, Added, SignalAndGoto, Workers
  <1>4. ASSUME NEW j \in 1 .. buf_size'
        PROVE  Filled'[j] = Len(consumed') + j
    <2> DEFINE slot == (front + j - 1) % BufferSize
    <2>1. slot \in Slots /\ Filled'[j] = buffer'[slot]
      BY WrapOnce DEF TypeOK, Filled, Slots, ProducedInv
    <2>2. CASE j = buf_size + 1
      BY <2>1, <2>2, <1>3 DEF TypeOK, RearInv, RingHoldsUnread, Slots
    <2>3. CASE j \in 1 .. buf_size
      <3>1. slot # rear
        <4>1. (front + (j - 1)) % BufferSize # (front + buf_size) % BufferSize
          BY <2>3, WrapDistinct DEF TypeOK, ProducedInv
        <4> QED BY <2>3, <4>1 DEF TypeOK, RearInv, Slots
      <3>2. Filled[j] = buffer[slot] BY <2>3 DEF Filled
      <3> QED BY <2>1, <2>3, <3>1, <3>2 DEF TypeOK, RingHoldsUnread
    <2> QED BY <2>2, <2>3 DEF TypeOK
  <1>5. RingHoldsUnread'
    BY <1>3, <1>4 DEF RingHoldsUnread, TypeOK
  <1> QED
    BY <1>1, <1>2, <1>5 DEF ControlInv

\* Taking a number out takes the oldest one that was not yet read.
LEMMA GetIInv == IInv /\ ConsumerGet => IInv'
  <1> SUFFICES ASSUME IInv, ConsumerGet PROVE IInv'
    OBVIOUS
  <1> USE SizesAssumption DEF IInv, ConsumerGet, get_buffer
  <1>1. buffer[front] = Len(consumed) + 1
    <2>1. front = (front + 1 - 1) % BufferSize
      BY WrapOnce DEF TypeOK, Slots
    <2>2. Filled[1] = buffer[front]
      BY <2>1 DEF Filled, TypeOK, WantedInv
    <2> QED BY <2>2 DEF RingHoldsUnread, WantedInv, TypeOK
  <1>2. Len(consumed') = Len(consumed) + 1
    BY DEF TypeOK
  <1>3. front' \in Slots
    BY WrapOnce DEF TypeOK, Slots
  <1>4. ControlInv'
    <2>1. buffer[front] \in 1 .. NumIterations - 1
      BY <1>1 DEF TypeOK, WantedInv
    <2>2. consumed' \in Seq(1 .. NumIterations)
      BY <2>1 DEF TypeOK
    <2> QED
      BY <1>1, <1>2, <1>3, <2>1, <2>2
         DEF ControlInv, TypeOK, PcInv, MutexInv, ProducedInv, WantedInv,
             NoMissedSignal, Workers, WorkerPc, MainPc, SignalAndGoto
  <1>5. RearInv'
    <2>1. (front' + (buf_size - 1)) % BufferSize
            = (front + ((buf_size - 1) + 1)) % BufferSize
      BY WrapStep DEF TypeOK, WantedInv
    <2> QED BY <2>1 DEF TypeOK, RearInv
  <1>6. Added' = Added
    BY DEF TypeOK, Added, SignalAndGoto, Workers
  <1>7. ASSUME NEW j \in 1 .. buf_size'
        PROVE  Filled'[j] = Len(consumed') + j
    <2>1. (front' + j - 1) % BufferSize = (front + (j + 1) - 1) % BufferSize
      <3>1. (front' + (j - 1)) % BufferSize
                = (front + ((j - 1) + 1)) % BufferSize
        BY WrapStep DEF TypeOK
      <3> QED BY <3>1, <1>3 DEF TypeOK, Slots
    <2>2. Filled'[j] = Filled[j + 1]
      BY <2>1 DEF Filled, TypeOK
    <2> QED BY <1>2, <2>2 DEF RingHoldsUnread, TypeOK
  <1>8. \A k \in 1 .. Len(consumed') : consumed'[k] = k
    BY <1>1, <1>2 DEF RingHoldsUnread, TypeOK
  <1>9. RingHoldsUnread'
    BY <1>2, <1>6, <1>7, <1>8 DEF RingHoldsUnread, TypeOK
  <1> QED
    BY <1>4, <1>5, <1>9 DEF ControlInv

LEMMA NextIInv == IInv /\ [Next]_vars => IInv'
  <1> SUFFICES ASSUME IInv, [Next]_vars PROVE IInv'
    OBVIOUS
  <1>1. CASE ProducerAdd BY <1>1, AddIInv
  <1>2. CASE ConsumerGet BY <1>2, GetIInv
  <1>3. CASE UNCHANGED vars
    BY <1>3 DEF vars, IInv, TypeOK, PcInv, MutexInv, ProducedInv, WantedInv,
                RearInv, RingHoldsUnread, NoMissedSignal, Filled, Added
  <1> QED
    BY <1>1, <1>2, <1>3, ControlStepIInv
       DEF Next, Producer, Consumer, Terminated, Workers

THEOREM Invariance == Spec => []IInv
  <1> QED BY InitIInv, NextIInv, PTL DEF Spec

-----------------------------------------------------------------------------
(* The theorems. *)

\* Every variable has its type in every state; in particular front and rear
\* stay inside the ring and buf_size between empty and full.
THEOREM TypeCorrect == Spec => []TypeOK
  <1>1. IInv => TypeOK BY DEF IInv
  <1> QED BY <1>1, Invariance, PTL

\* Whatever the interleaving, no unread number is overwritten, none is read
\* twice and none is skipped.
THEOREM RingSafe == Spec => []RingHoldsUnread
  <1>1. IInv => RingHoldsUnread BY DEF IInv
  <1> QED BY <1>1, Invariance, PTL

\* No signal is missed between a thread's test and its sleep.
THEOREM WaitsJustified == Spec => []NoMissedSignal
  <1>1. IInv => NoMissedSignal BY DEF IInv
  <1> QED BY <1>1, Invariance, PTL

\* The consumer leaves with NumIterations - 1 numbers, always.
THEOREM ConsumerCount == Spec => []ConsumerNeverCutShort
  <1>1. IInv => ConsumerNeverCutShort
    <2> SUFFICES ASSUME IInv, pc["consumer"] = "exited"
                 PROVE  Len(consumed) = NumIterations - 1
      BY DEF ConsumerNeverCutShort
    <2> QED BY SizesAssumption DEF IInv, TypeOK, WantedInv
  <1> QED BY <1>1, Invariance, PTL

-----------------------------------------------------------------------------
(* The refinement. *)

LEMMA FilledIsASequence ==
    ASSUME IInv
    PROVE  /\ Filled = [j \in 1 .. buf_size |-> Len(consumed) + j]
           /\ Filled \in Seq(Int)
           /\ Len(Filled) = buf_size
  <1>1. Filled = [j \in 1 .. buf_size |-> Len(consumed) + j]
    BY DEF IInv, RingHoldsUnread, Filled
  <1> QED BY <1>1 DEF IInv, TypeOK

LEMMA FifoInit == Init => Fifo!Init
  BY SizesAssumption DEF Init, Fifo!Init, Filled, Added, Workers

LEMMA FifoStep == IInv /\ IInv' /\ [Next]_vars => [Fifo!Next]_(Fifo!fifoVars)
  <1> SUFFICES ASSUME IInv, IInv', [Next]_vars
               PROVE  [Fifo!Next]_(Fifo!fifoVars)
    OBVIOUS
  <1> USE SizesAssumption
  <1>a. /\ Filled = [j \in 1 .. buf_size |-> Len(consumed) + j]
        /\ Filled \in Seq(Int)
        /\ Len(Filled) = buf_size
    BY FilledIsASequence
  <1>b. Filled' = [j \in 1 .. buf_size' |-> Len(consumed') + j]
    BY DEF IInv, RingHoldsUnread, Filled
  <1>1. CASE ProducerAdd
    <2>1. /\ Added' = Added + 1 /\ Added < NumIterations
          /\ buf_size < BufferSize
          /\ buf_size' = buf_size + 1 /\ consumed' = consumed
      BY <1>1 DEF ProducerAdd, add_buffer, IInv, TypeOK, ProducedInv, Added,
                  SignalAndGoto, Workers
    <2>2. Filled' = Append(Filled, Added + 1)
      BY <1>a, <1>b, <2>1 DEF IInv, TypeOK, RingHoldsUnread
    <2> QED
      BY <1>a, <2>1, <2>2 DEF Fifo!Next, Fifo!Put
  <1>2. CASE ConsumerGet
    <2>0. buf_size \in Nat /\ Len(consumed) \in Nat
      BY DEF IInv, TypeOK
    <2>1. /\ buf_size > 0 /\ buf_size' = buf_size - 1
          /\ consumed' = Append(consumed, buffer[front])
          /\ Added' = Added
      BY <1>2 DEF ConsumerGet, get_buffer, IInv, TypeOK, WantedInv, Added,
                  SignalAndGoto, Workers
    <2>2. Len(consumed') = Len(consumed) + 1
      BY <2>1 DEF IInv, TypeOK
    <2>3. Head(Filled) = buffer[front]
      <3>1. front = (front + 1 - 1) % BufferSize
        BY WrapNone DEF IInv, TypeOK
      <3>2. Filled[1] = buffer[(front + 1 - 1) % BufferSize]
        BY <2>0, <2>1 DEF Filled
      <3> QED BY <1>a, <3>1, <3>2
    <2>4. Filled' = Tail(Filled)
      <3>1. Tail(Filled) = [j \in 1 .. buf_size - 1 |-> Filled[j + 1]]
        BY <1>a, <2>0, <2>1
      <3>2. \A j \in 1 .. buf_size - 1 : Filled[j + 1] = Len(consumed') + j
        BY <1>a, <2>0, <2>1, <2>2
      <3> QED BY <1>b, <2>1, <3>1, <3>2
    <2>5. Filled # <<>>
      BY <1>a, <2>0, <2>1
    <2> QED
      BY <2>1, <2>3, <2>4, <2>5 DEF Fifo!Next, Fifo!Get
  <1>3. ASSUME UNCHANGED <<ring, consumed>>, Added' = Added
        PROVE  UNCHANGED Fifo!fifoVars
    BY <1>3 DEF Fifo!fifoVars, ring, Filled
  <1>4. CASE UNCHANGED vars
    BY <1>3, <1>4 DEF vars, ring, Added
  <1> QED
    BY <1>1, <1>2, <1>3, <1>4, ControlStepIInv
       DEF Next, Producer, Consumer, Terminated, Workers

\* The ring with its mutex and its two condition variables is a bounded
\* first-in first-out channel of the numbers 1 .. NumIterations.
THEOREM Refinement == Spec => ImplementsFifo
  <1> QED
    BY FifoInit, FifoStep, Invariance, PTL
       DEF Spec, ImplementsFifo, Fifo!Spec
=============================================================================
