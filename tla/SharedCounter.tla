--------------------------- MODULE SharedCounter ---------------------------
(***************************************************************************)
(* What a pool of threads that draws array indices from one counter        *)
(* promises: indices 0 .. Size - 1 are claimed in order, each by one       *)
(* claim, and a claimed index is worked on once.                           *)
(***************************************************************************)
EXTENDS Integers

CONSTANT Size

VARIABLES next,     \* the first index nobody has claimed
          pending,  \* indices that are claimed and not yet stored
          stored    \* indices whose entry of the array was written

counterVars == <<next, pending, stored>>

Init == next = 0 /\ pending = {} /\ stored = {}

Claim ==
    /\ next < Size
    /\ next' = next + 1
    /\ pending' = pending \union {next}
    /\ UNCHANGED stored

Store(k) ==
    /\ k \in pending
    /\ pending' = pending \ {k}
    /\ stored' = stored \union {k}
    /\ UNCHANGED next

Next == Claim \/ \E k \in pending : Store(k)

Spec == Init /\ [][Next]_counterVars
=============================================================================
