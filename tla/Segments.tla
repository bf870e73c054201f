------------------------------ MODULE Segments ------------------------------
(***************************************************************************)
(* How threads/barrier_sync.c and threads/inner_product/inner_product.c    *)
(* divide an array of length elements among num_threads threads: every     *)
(* thread gets ceil(length / num_threads) consecutive elements, the ones   *)
(* at the end fewer or none.                                               *)
(***************************************************************************)
EXTENDS Integers

\* Mutant of segment_size: rounded down.
segment_size_floor(length, num_threads) == length \div num_threads

segment_size(length, num_threads) ==
    (length + num_threads - 1) \div num_threads

first(t, length, num_threads) == t * segment_size(length, num_threads)

last(t, length, num_threads) ==
    LET end == (t + 1) * segment_size(length, num_threads) - 1
    IN  IF end > length - 1 THEN length - 1 ELSE end

-----------------------------------------------------------------------------
(* The segments are a partition of the array, for every length and       *)
(* number of threads.                                                    *)

\* What division by a positive number means.
LEMMA Division ==
    ASSUME NEW a \in Nat, NEW b \in Nat \ {0}
    PROVE  /\ a \div b \in Nat
           /\ b * (a \div b) <= a
           /\ a < b * (a \div b) + b
  <1>1. a \div b \in Int /\ a \div b >= 0
    OBVIOUS
  <1>2. b * (a \div b) <= a
    OBVIOUS
  <1>3. a < b * (a \div b) + b
    OBVIOUS
  <1> QED BY <1>1, <1>2, <1>3

\* num_threads segments of segment_size elements are enough.
LEMMA SizeSuffices ==
    ASSUME NEW n \in Nat, NEW p \in Nat \ {0}
    PROVE  /\ segment_size(n, p) \in Nat
           /\ n <= p * segment_size(n, p)
  <1>1. n + p - 1 \in Nat OBVIOUS
  <1> QED BY <1>1, Division DEF segment_size

\* A product grows with its factor.
LEMMA Monotone ==
    ASSUME NEW x \in Int, NEW y \in Int, NEW s \in Nat, x <= y
    PROVE  x * s <= y * s
  <1>1. (y - x) * s >= 0 OBVIOUS
  <1> QED BY <1>1

\* Every element belongs to the segment of some thread.
THEOREM SegmentsCover ==
    ASSUME NEW n \in Nat, NEW p \in Nat \ {0}, NEW j \in 0 .. n - 1
    PROVE  \E t \in 0 .. p - 1 : j \in first(t, n, p) .. last(t, n, p)
  <1> DEFINE s == segment_size(n, p)
             t == j \div s
  <1>1. s \in Nat /\ n <= p * s
    BY SizeSuffices
  <1>2. s # 0
    <2> SUFFICES ASSUME s = 0 PROVE FALSE OBVIOUS
    <2>1. p * s = 0 OBVIOUS
    <2> QED BY <1>1, <2>1
  <1>3. t \in Nat /\ s * t <= j /\ j < s * t + s
    BY <1>1, <1>2, Division
  <1> HIDE DEF s, t
  <1>4. t < p
    <2> SUFFICES ASSUME p <= t PROVE FALSE BY <1>3
    <2>1. p * s <= t * s BY <1>1, <1>3, Monotone
    <2>2. t * s = s * t BY <1>1, <1>3
    <2> QED BY <1>1, <1>3, <2>1, <2>2
  <1>5. t * s <= j /\ j <= (t + 1) * s - 1
    <2>1. t * s = s * t /\ (t + 1) * s = s * t + s BY <1>1, <1>3
    <2> QED BY <1>1, <1>3, <2>1
  <1>6. first(t, n, p) = t * s BY DEF first, s
  <1>7. last(t, n, p) = IF (t + 1) * s - 1 > n - 1 THEN n - 1
                                                   ELSE (t + 1) * s - 1
    BY DEF last, s
  <1>8. j \in first(t, n, p) .. last(t, n, p)
    BY <1>1, <1>3, <1>5, <1>6, <1>7
  <1> QED BY <1>3, <1>4, <1>8

\* No element belongs to the segments of two threads, so no product is added
\* twice and no cell of the array is touched by two threads.
THEOREM SegmentsDisjoint ==
    ASSUME NEW n \in Nat, NEW p \in Nat \ {0},
           NEW t \in 0 .. p - 1, NEW u \in 0 .. p - 1, t # u
    PROVE  (first(t, n, p) .. last(t, n, p))
              \intersect (first(u, n, p) .. last(u, n, p)) = {}
  <1> DEFINE s == segment_size(n, p)
  <1>1. s \in Nat BY SizeSuffices
  <1>2. \A v \in 0 .. p - 1 : /\ first(v, n, p) = v * s
                              /\ last(v, n, p) <= (v + 1) * s - 1
                              /\ last(v, n, p) \in Int
    BY <1>1 DEF first, last
  <1> HIDE DEF s
  <1>3. ASSUME NEW v \in 0 .. p - 1, NEW w \in 0 .. p - 1, v < w
        PROVE  last(v, n, p) < first(w, n, p)
    <2>1. (v + 1) * s <= w * s BY <1>1, <1>3, Monotone
    <2>2. (v + 1) * s \in Int /\ w * s \in Int BY <1>1
    <2> QED BY <1>2, <2>1, <2>2
  <1>4. first(t, n, p) \in Int /\ first(u, n, p) \in Int
    BY <1>1, <1>2
  <1>5. CASE t < u
    BY <1>2, <1>3, <1>4, <1>5
  <1>6. CASE u < t
    BY <1>2, <1>3, <1>4, <1>6
  <1> QED BY <1>5, <1>6

\* No segment reaches outside of the array.
THEOREM SegmentsInside ==
    ASSUME NEW n \in Nat, NEW p \in Nat \ {0}, NEW t \in 0 .. p - 1
    PROVE  first(t, n, p) .. last(t, n, p) \subseteq 0 .. n - 1
  <1> DEFINE s == segment_size(n, p)
  <1>1. s \in Nat BY SizeSuffices
  <1>2. t * s >= 0 /\ t * s \in Int /\ (t + 1) * s \in Int BY <1>1
  <1>3. first(t, n, p) = t * s BY DEF first
  <1>4. last(t, n, p) = IF (t + 1) * s - 1 > n - 1 THEN n - 1
                                                   ELSE (t + 1) * s - 1
    BY DEF last
  <1> HIDE DEF s
  <1> QED BY <1>2, <1>3, <1>4
=============================================================================
