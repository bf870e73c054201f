--------------------------- MODULE SimpleViProofs ---------------------------
(***************************************************************************)
(* misc/simplevi/simplevi.c, for all sizes: what its prompt reads, how its *)
(* table of lines adds up, where its cursor is on the screen, and that the *)
(* table stays true to the text.  The theorems are in ToolsProofs.         *)
(*                                                                         *)
(* Sums and folds are recursive functions.  What is said of all their      *)
(* arguments is proved by the least counterexample (UpTo).                 *)
(***************************************************************************)
EXTENDS MCTools, SequenceTheorems, FiniteSetTheorems, FunctionTheorems,
        WellFoundedInduction, TLAPS

-----------------------------------------------------------------------------
(* Induction *)

\* The numbers in their order.
Less == {ss \in Nat \X Nat : ss[1] < ss[2]}
\* A set of numbers that is not empty has a least member.
LEMMA Least ==
    ASSUME NEW T \in SUBSET Nat, T # {}
    PROVE  \E x \in T : \A y \in T : x <= y
  <1>1. IsWellFoundedOn(Less, Nat)
    BY NatLessThanWellFounded DEF OpToRel, Less
  <1>2. PICK x \in T : \A y \in T : ~ (<<y, x>> \in Less)
    BY <1>1, WFMin
  <1>3. ASSUME NEW y \in T PROVE x <= y
    <2>1. SUFFICES ASSUME y < x PROVE FALSE OBVIOUS
    <2>2. <<y, x>> \in Nat \X Nat /\ <<y, x>>[1] < <<y, x>>[2] BY <2>1
    <2>3. <<y, x>> \in Less BY <2>2, Zenon DEF Less
    <2> QED BY <1>2, <2>3
  <1> QED BY <1>3

\* What holds of 0, and of k + 1 if it holds of k, holds up to n: otherwise it
\* would have a least counterexample.
LEMMA UpTo ==
    ASSUME NEW T, NEW n \in Nat, 0 \in T,
           \A k \in 0 .. n - 1 : k \in T => k + 1 \in T
    PROVE  0 .. n \subseteq T
  <1> DEFINE U == {k \in 0 .. n : k \notin T}
  <1> SUFFICES ASSUME U # {} PROVE FALSE OBVIOUS
  <1>0. U \in SUBSET Nat OBVIOUS
  <1>1. PICK x \in U : \A y \in U : x <= y BY <1>0, Least
  <1>2. x # 0 OBVIOUS
  <1>3. x - 1 \in 0 .. n - 1 /\ x - 1 \in T BY <1>1, <1>2
  <1>4. x - 1 + 1 = x OBVIOUS
  <1> QED BY <1>3, <1>4

-----------------------------------------------------------------------------
(* The prompt *)

\* f[t] is what parse_lastline has read after the positions of t, as FoldLeft
\* defines it.
Folds(f, s, n) ==
    f = [t \in SUBSET (1 .. n) |->
           IF t = {} THEN lastline!Begin
           ELSE lastline!Read(f[t \ {lastline!Max(t)}], s[lastline!Max(t)])]

\* There is such a function, of as many positions as one likes.
LEMMA FoldFound ==
    ASSUME NEW s, NEW n \in Nat
    PROVE  \E f : Folds(f, s, n)
  <1> DEFINE T == {m \in 0 .. n : \E f : Folds(f, s, m)}
  <1>1. 0 \in T
    <2> DEFINE f == [t \in SUBSET (1 .. 0) |-> lastline!Begin]
    <2>1. \A t \in SUBSET (1 .. 0) : t = {} OBVIOUS
    <2>2. Folds(f, s, 0) BY <2>1, Zenon DEF Folds
    <2> QED BY <2>2
  <1>2. ASSUME NEW m \in 0 .. n - 1, m \in T PROVE m + 1 \in T
    <2>1. PICK g : Folds(g, s, m) BY <1>2
    <2> DEFINE h == [t \in SUBSET (1 .. m + 1) |->
                       IF m + 1 \in t
                       THEN lastline!Read(g[t \ {m + 1}], s[m + 1])
                       ELSE g[t]]
    <2>2. ASSUME NEW t \in SUBSET (1 .. m + 1)
          PROVE  h[t] = IF t = {} THEN lastline!Begin
                        ELSE lastline!Read(h[t \ {lastline!Max(t)}],
                                           s[lastline!Max(t)])
      <3>1. CASE m + 1 \in t
        <4>1. lastline!Max(t) = m + 1
          <5>1. \A x \in t : x \in Int /\ x <= m + 1 OBVIOUS
          <5>2. \A x \in t : (\A y \in t : x >= y) <=> x = m + 1
            BY <5>1, <3>1
          <5> QED BY <5>2, <3>1, Zenon DEF lastline!Max
        <4>2. /\ t \ {m + 1} \in SUBSET (1 .. m + 1)
              /\ m + 1 \notin t \ {m + 1}
          BY Zenon
        <4>3. h[t \ {m + 1}] = g[t \ {m + 1}] BY <4>2, Zenon
        <4>4. h[t] = lastline!Read(g[t \ {m + 1}], s[m + 1])
          BY <3>1, Zenon
        <4> QED BY <3>1, <4>1, <4>3, <4>4, Zenon
      <3>2. CASE m + 1 \notin t
        <4>1. t \in SUBSET (1 .. m) BY <3>2
        <4>2. h[t] = g[t] BY <3>2, Zenon
        <4> DEFINE u == t \ {lastline!Max(t)}
        <4>3. /\ u \in SUBSET (1 .. m) /\ m + 1 \notin u
              /\ u \in SUBSET (1 .. m + 1)
          BY <4>1, <3>2
        <4>4. h[u] = g[u] BY <4>3, Zenon
        <4>5. g[t] = IF t = {} THEN lastline!Begin
                     ELSE lastline!Read(g[u], s[lastline!Max(t)])
          BY <2>1, <4>1, Zenon DEF Folds
        <4> QED BY <4>2, <4>4, <4>5, Zenon
      <3> QED BY <3>1, <3>2, Zenon
    <2>3. Folds(h, s, m + 1) BY <2>2, Zenon DEF Folds
    <2>4. m + 1 \in 0 .. n OBVIOUS
    <2> QED BY <2>3, <2>4, Zenon
  <1> HIDE DEF T
  <1>3. 0 .. n \subseteq T BY <1>1, <1>2, UpTo
  <1>4. n \in T BY <1>3
  <1> QED BY <1>4, Zenon DEF T

\* p[k] is what parse_lastline has read after k characters of s.
Reads(p, s) ==
    /\ p[0] = lastline!Begin
    /\ \A k \in 1 .. Len(s) : p[k] = lastline!Read(p[k - 1], s[k])
\* The fold reads the characters one after another.
LEMMA FoldReads ==
    ASSUME NEW S, NEW s \in Seq(S)
    PROVE  \E p : /\ Reads(p, s)
                  /\ lastline!FoldLeft(lastline!Read, lastline!Begin, s)
                        = p[Len(s)]
  <1> DEFINE n == Len(s)
  <1>0. n \in Nat /\ DOMAIN s = 1 .. n OBVIOUS
  <1> DEFINE it == CHOOSE f : Folds(f, s, n)
             p == [k \in 0 .. n |-> it[1 .. k]]
  <1>1. Folds(it, s, n) BY <1>0, FoldFound, Zenon
  <1>2. lastline!FoldLeft(lastline!Read, lastline!Begin, s) = it[1 .. n]
    BY <1>0, Zenon DEF lastline!FoldLeft, lastline!MapThenFoldSet, Folds
  <1> HIDE DEF it, n
  <1>3. it[1 .. 0] = lastline!Begin
    <2>1. 1 .. 0 = {} /\ 1 .. 0 \in SUBSET (1 .. n) OBVIOUS
    <2> QED BY <1>1, <2>1, Zenon DEF Folds
  <1>4. ASSUME NEW k \in 1 .. n
        PROVE  it[1 .. k] = lastline!Read(it[1 .. k - 1], s[k])
    <2>1. /\ 1 .. k \in SUBSET (1 .. n) /\ 1 .. k # {}
          /\ (1 .. k) \ {k} = 1 .. k - 1
      BY <1>0
    <2>2. lastline!Max(1 .. k) = k BY DEF lastline!Max
    <2> QED BY <1>1, <2>1, <2>2, Zenon DEF Folds
  <1>5. p[0] = it[1 .. 0] /\ p[n] = it[1 .. n] BY <1>0
  <1>6. \A k \in 1 .. n : p[k] = it[1 .. k] /\ p[k - 1] = it[1 .. k - 1]
    BY <1>0
  <1> HIDE DEF p
  <1>7. Reads(p, s) BY <1>3, <1>4, <1>5, <1>6, Zenon DEF Reads, n
  <1> QED BY <1>2, <1>5, <1>7, Zenon DEF n
\* The blank between the words.
Space == " "
\* What the name of a file is made of; w and q are among it.
Letters == lastline!NameCharacters
\* A w has been read where a command is expected.
Wrote(p) == p.foundwrite
\* So has a q.
Quits(p) == p.foundquit

\* The characters that can be typed at the prompt.
LEMMA Kinds ==
    /\ lastline!Characters = Letters \union {Space, "."}
    /\ Space \notin Letters /\ Space # "." /\ "." \notin Letters
    /\ Letters = {"w", "q", "a"} /\ Space \notin {"w", "q", "a"}
  <1>1. /\ " " # "w" /\ " " # "q" /\ " " # "a" /\ " " # "."
        /\ "." # "w" /\ "." # "q" /\ "." # "a"
    BY Zenon
  <1> QED
    BY <1>1, Zenon
       DEF lastline!Characters, lastline!NameCharacters, Letters, Space

\* What reading one character changes.
LEMMA ReadOne ==
    ASSUME NEW p, NEW c
    PROVE  LET q == lastline!Read(p, c)
           IN  /\ q.state = lastline!Goes(p.state, c)
               /\ Wrote(q) <=> Wrote(p) \/ q.state = 2
               /\ Quits(q) <=> Quits(p) \/ q.state = 3 \/ q.state = 7
               /\ q.filename = IF q.state = 6 THEN Append(p.filename, c)
                               ELSE p.filename
  <1> DEFINE state == lastline!Goes(p.state, c)
  <1> HIDE DEF state
  <1>1. lastline!Read(p, c) =
           [state |-> state,
            foundwrite |-> p.foundwrite \/ state = 2,
            foundquit |-> p.foundquit \/ state \in {3, 7},
            filename |-> IF state = 6 THEN Append(p.filename, c)
                         ELSE p.filename]
    BY Zenon DEF lastline!Read, state
  <1> DEFINE q == lastline!Read(p, c)
  <1> DEFINE wrote == p.foundwrite \/ state = 2
             quits == p.foundquit \/ state \in {3, 7}
             named == IF state = 6 THEN Append(p.filename, c) ELSE p.filename
  <1>a. q = [state |-> state, foundwrite |-> wrote, foundquit |-> quits,
             filename |-> named]
    BY <1>1, Zenon
  <1> HIDE DEF q, wrote, quits, named
  <1>2. /\ q.state = state /\ q.foundwrite = wrote /\ q.foundquit = quits
        /\ q.filename = named
    BY <1>a
  <1>3. Wrote(q) <=> Wrote(p) \/ q.state = 2
    BY <1>2, Zenon DEF Wrote, wrote
  <1>4. Quits(q) <=> Quits(p) \/ q.state = 3 \/ q.state = 7
    BY <1>2, Zenon DEF Quits, quits
  <1>5. q.filename = IF q.state = 6 THEN Append(p.filename, c) ELSE p.filename
    BY <1>2, Zenon DEF named
  <1> QED BY <1>2, <1>3, <1>4, <1>5, Zenon DEF q, state

\* The states of the automaton differ.
LEMMA Numbers ==
    /\ 1 # 2 /\ 1 # 3 /\ 1 # 4 /\ 1 # 5 /\ 1 # 6 /\ 1 # 7 /\ 1 # 8 /\ 1 # 9
    /\ 2 # 3 /\ 2 # 4 /\ 2 # 5 /\ 2 # 6 /\ 2 # 7 /\ 2 # 8 /\ 2 # 9
    /\ 3 # 4 /\ 3 # 5 /\ 3 # 6 /\ 3 # 7 /\ 3 # 8 /\ 3 # 9
    /\ 4 # 5 /\ 4 # 6 /\ 4 # 7 /\ 4 # 8 /\ 4 # 9
    /\ 5 # 6 /\ 5 # 7 /\ 5 # 8 /\ 5 # 9
    /\ 6 # 7 /\ 6 # 8 /\ 6 # 9
    /\ 7 # 8 /\ 7 # 9 /\ 8 # 9
  BY SMT

\* Where each state of the automaton goes.
LEMMA GoesOn ==
    ASSUME NEW c \in lastline!Characters
    PROVE  /\ lastline!Goes(1, c) = IF c = Space THEN 1 ELSE IF c = "w" THEN 2
                                    ELSE IF c = "q" THEN 7 ELSE 5
           /\ lastline!Goes(2, c) = IF c = "q" THEN 3 ELSE IF c = Space THEN 4
                                    ELSE 5
           /\ lastline!Goes(3, c) = IF c = Space THEN 4 ELSE 5
           /\ lastline!Goes(4, c) = IF c = Space THEN 4 ELSE IF c \in Letters
                                    THEN 6 ELSE 5
           /\ lastline!Goes(6, c) = IF c \in Letters THEN 6 ELSE 9
           /\ lastline!Goes(7, c) = IF c = Space THEN 7 ELSE 8
           /\ lastline!Goes(5, c) = 8
           /\ lastline!Goes(8, c) = 8
           /\ lastline!Goes(9, c) = 9
  <1>1. lastline!Goes(1, c) = IF c = Space THEN 1 ELSE IF c = "w" THEN 2
                                    ELSE IF c = "q" THEN 7 ELSE 5
    BY Numbers, Zenon
       DEF lastline!Goes, Space, lastline!Rejected, lastline!Done
  <1>2. lastline!Goes(2, c) = IF c = "q" THEN 3 ELSE IF c = Space THEN 4
                                    ELSE 5
    BY Numbers, Zenon
       DEF lastline!Goes, Space, lastline!Rejected, lastline!Done
  <1>3. lastline!Goes(3, c) = IF c = Space THEN 4 ELSE 5
    BY Numbers, Zenon
       DEF lastline!Goes, Space, lastline!Rejected, lastline!Done
  <1>4. lastline!Goes(4, c) = IF c = Space THEN 4 ELSE IF c \in Letters
                                    THEN 6 ELSE 5
    BY Numbers, Zenon
       DEF lastline!Goes, Space, Letters, lastline!Rejected, lastline!Done
  <1>6. lastline!Goes(6, c) = IF c \in Letters THEN 6 ELSE 9
    BY Numbers, Zenon
       DEF lastline!Goes, Space, Letters, lastline!Rejected, lastline!Done
  <1>7. lastline!Goes(7, c) = IF c = Space THEN 7 ELSE 8
    BY Numbers, Zenon
       DEF lastline!Goes, Space, lastline!Rejected, lastline!Done
  <1>5. lastline!Goes(5, c) = 8
    BY Numbers, Zenon
       DEF lastline!Goes, Space, lastline!Rejected, lastline!Done
  <1>8. lastline!Goes(8, c) = 8
    BY Numbers, Zenon
       DEF lastline!Goes, Space, lastline!Rejected, lastline!Done
  <1>9. lastline!Goes(9, c) = 9
    BY Numbers, Zenon
       DEF lastline!Goes, Space, lastline!Rejected, lastline!Done
  <1> QED BY <1>1, <1>2, <1>3, <1>4, <1>5, <1>6, <1>7, <1>8, <1>9, Zenon

\* b is what has been read when c follows a.
Step(a, b, c) ==
    /\ a.state = 1 => b.state = IF c = Space THEN 1 ELSE IF c = "w" THEN 2
                                    ELSE IF c = "q" THEN 7 ELSE 5
    /\ a.state = 2 => b.state = IF c = "q" THEN 3 ELSE IF c = Space THEN 4
                                ELSE 5
    /\ a.state = 3 => b.state = IF c = Space THEN 4 ELSE 5
    /\ a.state = 4 => b.state = IF c = Space THEN 4 ELSE IF c \in Letters
                                    THEN 6 ELSE 5
    /\ a.state = 6 => b.state = IF c \in Letters THEN 6 ELSE 9
    /\ a.state = 7 => b.state = IF c = Space THEN 7 ELSE 8
    /\ a.state \in {5, 8} => b.state = 8
    /\ a.state = 9 => b.state = 9
    /\ Wrote(b) <=> Wrote(a) \/ b.state = 2
    /\ Quits(b) <=> Quits(a) \/ b.state = 3 \/ b.state = 7
    /\ b.filename = IF b.state = 6 THEN Append(a.filename, c) ELSE a.filename

\* Every character is such a step.
LEMMA Steps ==
    ASSUME tempstr \in Seq(lastline!Characters), NEW p, Reads(p, tempstr),
           NEW k \in 1 .. Len(tempstr)
    PROVE  Step(p[k - 1], p[k], tempstr[k])
  <1> DEFINE a == p[k - 1]
             b == p[k]
             c == tempstr[k]
  <1>1. c \in lastline!Characters OBVIOUS
  <1>2. b = lastline!Read(a, c) BY Zenon DEF Reads
  <1> HIDE DEF a, b, c
  <1>3. /\ b.state = lastline!Goes(a.state, c)
        /\ Wrote(b) <=> Wrote(a) \/ b.state = 2
        /\ Quits(b) <=> Quits(a) \/ b.state = 3 \/ b.state = 7
        /\ b.filename = IF b.state = 6 THEN Append(a.filename, c)
                        ELSE a.filename
    BY <1>2, ReadOne, Zenon
  <1>4. Step(a, b, c) BY <1>1, <1>3, GoesOn, ZenonT(40) DEF Step
  <1> QED BY <1>4, Zenon DEF a, b, c

\* What has been read after k characters of a command to write: its w is at j,
\* its last letter at e, and the name of the file from lo to hi.
Trace(r, k, j, e, lo, hi) ==
    /\ k < j => r.state = 1
    /\ k = j => r.state = 2
    /\ j < k /\ k <= e => r.state = 3
    /\ e < k /\ k < lo => r.state = 4
    /\ lo <= k /\ k <= hi =>
          r.state = 6 /\ r.filename = SubSeq(tempstr, lo, k)
    /\ hi < k => r.state = 9 /\ r.filename = SubSeq(tempstr, lo, hi)
    /\ k < lo => r.filename = <<>>
    /\ j <= k <=> Wrote(r)
    /\ j + 1 <= k /\ e = j + 1 <=> Quits(r)

\* What it means that nothing but blanks stands somewhere.
LEMMA Blanks ==
    ASSUME NEW lo, NEW hi
    PROVE  lastline!Blank(lo, hi) <=> \A m \in lo .. hi : tempstr[m] = Space
  BY Zenon DEF lastline!Blank, Space

\* Nothing has been read in the beginning.
LEMMA Begins ==
    LET r == lastline!Begin
    IN  r.state = 1 /\ r.filename = <<>> /\ ~Wrote(r) /\ ~Quits(r)
  <1> DEFINE r == lastline!Begin
  <1>1. /\ r.state = 1 /\ r.filename = <<>> /\ r.foundwrite = FALSE
        /\ r.foundquit = FALSE
    BY DEF lastline!Begin
  <1>2. ~Wrote(r) /\ ~Quits(r)
    BY <1>1, Zenon DEF Wrote, Quits
  <1> QED BY <1>1, <1>2, Zenon

\* One more character of a command to write.
LEMMA OneMore ==
    ASSUME NEW a, NEW b, NEW n \in Nat, NEW k \in 1 .. n, NEW j \in 1 .. n,
           NEW e \in 1 .. n, NEW lo \in 1 .. n, NEW hi \in 1 .. n,
           j <= e, e <= j + 1, e + 1 < lo, lo <= hi,
           tempstr \in Seq(lastline!Characters), n = Len(tempstr),
           Trace(a, k - 1, j, e, lo, hi),
           Step(a, b, tempstr[k]),
           tempstr[j] = "w", e = j + 1 => tempstr[j + 1] = "q",
           \A m \in 1 .. j - 1 : tempstr[m] = Space,
           \A m \in e + 1 .. lo - 1 : tempstr[m] = Space,
           \A m \in lo .. hi : tempstr[m] \in Letters,
           hi < n => tempstr[hi + 1] \notin Letters,
           Letters = {"w", "q", "a"}, Space \notin {"w", "q", "a"}
    PROVE  Trace(b, k, j, e, lo, hi)
    <2>3. CASE k < j
      <3>1. tempstr[k] = Space /\ a.state = 1 BY <2>3 DEF Trace
      <3>2. b.state = 1 BY ONLY <3>1, Step(a, b, tempstr[k]) DEF Step
      <3> QED BY <2>3, <3>2 DEF Step, Trace
    <2>4. CASE k = j
      BY <2>4 DEF Step, Trace
    <2>5. CASE j < k /\ k <= e
      BY <2>5 DEF Step, Trace
    <2>6. CASE e < k /\ k < lo
      BY <2>6 DEF Step, Trace
    <2>7. CASE k = lo
      BY <2>7 DEF Step, Trace
    <2>8. CASE lo < k /\ k <= hi
      <3>1. /\ a.state = 6 /\ a.filename = SubSeq(tempstr, lo, k - 1)
            /\ Wrote(a) /\ (Quits(a) <=> e = j + 1) /\ tempstr[k] \in Letters
        BY <2>8 DEF Trace
      <3>2. /\ b.state = 6 /\ b.filename = Append(a.filename, tempstr[k])
            /\ Wrote(b) /\ (Quits(b) <=> e = j + 1)
        BY ONLY <3>1, Step(a, b, tempstr[k]) DEF Step
      <3>3. Append(SubSeq(tempstr, lo, k - 1), tempstr[k])
               = SubSeq(tempstr, lo, k)
        BY <2>8
      <3>4. b.filename = SubSeq(tempstr, lo, k)
        BY <3>1, <3>2, <3>3, Zenon
      <3>5. /\ ~(k < lo) /\ ~(hi < k) /\ ~(k <= e) /\ ~(k < j) /\ k # j
            /\ j + 1 <= k /\ j <= k
        BY <2>8
      <3> QED BY ONLY <2>8, <3>2, <3>4, <3>5 DEF Trace
    <2>9. CASE hi < k
      <3>1. CASE k = hi + 1
        <4>1. /\ a.state = 6 /\ a.filename = SubSeq(tempstr, lo, hi)
              /\ Wrote(a) /\ (Quits(a) <=> e = j + 1)
              /\ tempstr[k] \notin Letters
          BY <2>9, <3>1 DEF Trace
        <4>2. /\ b.state = 9 /\ b.filename = a.filename
              /\ Wrote(b) /\ (Quits(b) <=> e = j + 1)
          BY ONLY <4>1, Step(a, b, tempstr[k]) DEF Step
        <4> QED BY <2>9, <4>1, <4>2 DEF Trace
      <3>2. CASE k > hi + 1
        <4>1. /\ a.state = 9 /\ a.filename = SubSeq(tempstr, lo, hi)
              /\ Wrote(a) /\ (Quits(a) <=> e = j + 1)
          BY <2>9, <3>2 DEF Trace
        <4>2. /\ b.state = 9 /\ b.filename = a.filename
              /\ Wrote(b) /\ (Quits(b) <=> e = j + 1)
          BY ONLY <4>1, Step(a, b, tempstr[k]) DEF Step
        <4> QED BY <2>9, <4>1, <4>2 DEF Trace
      <3> QED BY <2>9, <3>1, <3>2
    <2> QED BY <2>3, <2>4, <2>5, <2>6, <2>7, <2>8, <2>9

\* A command to write is read as one, to its end.
LEMMA Traced ==
    ASSUME tempstr \in Seq(lastline!Characters), NEW p, Reads(p, tempstr),
           NEW j \in Nat, NEW e \in {j, j + 1}, NEW lo \in Nat, NEW hi \in Nat,
           1 <= j, e + 1 < lo, lo <= hi, hi <= Len(tempstr),
           lastline!Blank(1, j - 1), tempstr[j] = "w",
           e = j + 1 => tempstr[j + 1] = "q",
           lastline!Blank(e + 1, lo - 1),
           \A m \in lo .. hi : tempstr[m] \in lastline!NameCharacters,
           hi < Len(tempstr) => tempstr[hi + 1] \notin lastline!NameCharacters
    PROVE  Trace(p[Len(tempstr)], Len(tempstr), j, e, lo, hi)
  <1> DEFINE n == Len(tempstr)
             T == {k \in 0 .. n : Trace(p[k], k, j, e, lo, hi)}
  <1>0. n \in Nat /\ j \in 1 .. n /\ e \in 1 .. n /\ lo \in 1 .. n OBVIOUS
  <1>a. /\ \A m \in 1 .. j - 1 : tempstr[m] = Space
        /\ \A m \in e + 1 .. lo - 1 : tempstr[m] = Space
        /\ \A m \in lo .. hi : tempstr[m] \in Letters
        /\ hi < n => tempstr[hi + 1] \notin Letters
    BY Blanks, Zenon DEF Letters
  <1>b. /\ Letters = {"w", "q", "a"} /\ Space \notin {"w", "q", "a"}
    BY Kinds
  <1>c. hi \in 1 .. n /\ j <= e /\ e <= j + 1 /\ n = Len(tempstr) OBVIOUS
  <1>1. 0 \in T
    <2> DEFINE r == lastline!Begin
    <2>1. r.state = 1 /\ r.filename = <<>> /\ ~Wrote(r) /\ ~Quits(r)
      BY Begins
    <2> HIDE DEF r
    <2>2. Trace(r, 0, j, e, lo, hi) BY <2>1 DEF Trace
    <2>3. p[0] = r BY Zenon DEF Reads, r
    <2>4. Trace(p[0], 0, j, e, lo, hi) BY <2>2, <2>3, Zenon
    <2> QED BY <2>4, <1>0
  <1>2. ASSUME NEW k0 \in 0 .. n - 1, k0 \in T PROVE k0 + 1 \in T
    <2> DEFINE k == k0 + 1
               a == p[k0]
               b == p[k]
               c == tempstr[k]
    <2>1. Step(a, b, c)
      <3>1. k \in 1 .. n /\ k - 1 = k0 OBVIOUS
      <3> QED BY <3>1, Steps, Zenon
    <2>2. Trace(a, k0, j, e, lo, hi) BY <1>2
    <2>3. k \in 1 .. n /\ k - 1 = k0 OBVIOUS
    <2> HIDE DEF k
    <2>4. Trace(a, k - 1, j, e, lo, hi) BY <2>2, <2>3, Zenon
    <2> HIDE DEF a, b
    <2>5. Trace(b, k, j, e, lo, hi)
      BY <1>0, <1>a, <1>b, <1>c, <2>1, <2>3, <2>4, OneMore, Zenon
    <2>6. Trace(p[k], k, j, e, lo, hi) /\ k \in 0 .. n
      BY <2>3, <2>5 DEF b
    <2> QED BY <2>6 DEF k
  <1> HIDE DEF T
  <1>3. 0 .. n \subseteq T BY <1>0, <1>1, <1>2, UpTo
  <1>4. n \in T BY <1>0, <1>3
  <1> QED BY <1>4, Zenon DEF T

\* Only blanks from lo to hi.
Spaces(lo, hi) == \A m \in lo .. hi : tempstr[m] = Space
\* Only letters of a name from lo to hi.
Named(lo, hi) == \A m \in lo .. hi : tempstr[m] \in Letters
\* A w at j, perhaps a q after it, and where that ends.
Command(j, e) ==
    /\ j \in 1 .. Len(tempstr) /\ e \in j .. j + 1 /\ e <= Len(tempstr)
    /\ Spaces(1, j - 1) /\ tempstr[j] = "w"
    /\ e = j + 1 => tempstr[j + 1] = "q"
\* A command before lo, and a name from lo to hi.
Saved(j, e, lo, hi) ==
    /\ Command(j, e) /\ lo \in Nat /\ hi \in Nat
    /\ e + 1 < lo /\ lo <= hi /\ Spaces(e + 1, lo - 1) /\ Named(lo, hi)

\* What a state of the automaton says of the k characters that led to it.
Known(r, k) ==
    /\ r.state \in 1 .. 9
    /\ r.state = 1 => Spaces(1, k)
    /\ r.state = 2 => Command(k, k)
    /\ r.state = 3 => Command(k - 1, k)
    /\ r.state = 4 => \E j, e \in Nat :
                         Command(j, e) /\ e < k /\ Spaces(e + 1, k)
    /\ r.state = 6 => \E j, e, lo \in Nat : Saved(j, e, lo, k)
    /\ r.state = 9 => \E j, e, lo, hi \in Nat :
                         /\ Saved(j, e, lo, hi) /\ hi < k
                         /\ tempstr[hi + 1] \notin Letters
    /\ r.state = 7 => \E j \in 1 .. k :
                         /\ Spaces(1, j - 1) /\ tempstr[j] = "q"
                         /\ Spaces(j + 1, k)
    /\ r.state = 5 /\ ~Wrote(r) =>
          k > 0 /\ Spaces(1, k - 1) /\ tempstr[k] \in {Space, "a", "."}
    /\ r.state \in {2, 3, 4} => Wrote(r)
    /\ r.state \in {1, 2, 3, 4, 5, 7} => r.filename = <<>>

\* One more character of any line.
LEMMA OneMoreKnown ==
    ASSUME NEW a, NEW b, NEW n \in Nat, NEW k \in 1 .. n,
           tempstr \in Seq(lastline!Characters), n = Len(tempstr),
           lastline!Characters = Letters \union {Space, "."},
           Known(a, k - 1), Step(a, b, tempstr[k]),
           Letters = {"w", "q", "a"}, Space \notin {"w", "q", "a"}
    PROVE  Known(b, k)
  <1> DEFINE c == tempstr[k]
  <1>0. a.state \in 1 .. 9 BY DEF Known
  <1>1. c \in Letters \union {Space, "."} OBVIOUS
  <1>2. b.state \in 1 .. 9
    BY ONLY Known(a, k - 1), Step(a, b, c) DEF Known, Step
  <1>3. ASSUME b.state = 1 PROVE Spaces(1, k)
    <2>1. a.state = 1 /\ c = Space
      BY ONLY Known(a, k - 1), Step(a, b, c), <1>3 DEF Known, Step
    <2> QED BY <2>1 DEF Known, Spaces
  <1>4. ASSUME b.state = 2 PROVE Command(k, k)
    <2>1. a.state = 1 /\ c = "w"
      BY ONLY Known(a, k - 1), Step(a, b, c), <1>4 DEF Known, Step
    <2> QED BY <2>1 DEF Known, Command
  <1>5. ASSUME b.state = 3 PROVE Command(k - 1, k)
    <2>1. a.state = 2 /\ c = "q"
      BY ONLY Known(a, k - 1), Step(a, b, c), <1>5 DEF Known, Step
    <2> QED BY <2>1 DEF Known, Command
  <1>6. ASSUME b.state = 4
        PROVE  \E j, e \in Nat : Command(j, e) /\ e < k /\ Spaces(e + 1, k)
    <2>1. a.state \in {2, 3, 4} /\ c = Space
      BY ONLY Known(a, k - 1), Step(a, b, c), <1>6 DEF Known, Step
    <2>2. CASE a.state = 2
      <3>1. Command(k - 1, k - 1) /\ Spaces(k - 1 + 1, k)
        BY <2>1, <2>2 DEF Known, Spaces
      <3> QED BY <3>1
    <2>3. CASE a.state = 3
      <3>1. Command(k - 2, k - 1) /\ Spaces(k - 1 + 1, k)
        BY <2>1, <2>3 DEF Known, Spaces
      <3>2. k - 2 \in Nat BY <3>1 DEF Command
      <3> QED BY <3>1, <3>2
    <2>4. CASE a.state = 4
      <3>1. PICK j \in Nat, e \in Nat :
               Command(j, e) /\ e < k - 1 /\ Spaces(e + 1, k - 1)
        BY <2>4 DEF Known
      <3>2. Spaces(e + 1, k) BY <3>1, <2>1 DEF Spaces
      <3> QED BY <3>1, <3>2
    <2> QED BY <2>1, <2>2, <2>3, <2>4
  <1>7. ASSUME b.state = 6 PROVE \E j, e, lo \in Nat : Saved(j, e, lo, k)
    <2>1. a.state \in {4, 6} /\ c \in Letters
      BY ONLY Known(a, k - 1), Step(a, b, c), <1>7 DEF Known, Step
    <2>2. CASE a.state = 4
      <3>1. PICK j \in Nat, e \in Nat :
               Command(j, e) /\ e < k - 1 /\ Spaces(e + 1, k - 1)
        BY <2>2 DEF Known
      <3>2. Saved(j, e, k, k) BY <3>1, <2>1 DEF Saved, Named
      <3> QED BY <3>2
    <2>3. CASE a.state = 6
      <3>1. PICK j \in Nat, e \in Nat, lo \in Nat : Saved(j, e, lo, k - 1)
        BY <2>3 DEF Known
      <3>2. Saved(j, e, lo, k) BY <3>1, <2>1 DEF Saved, Named
      <3> QED BY <3>2
    <2> QED BY <2>1, <2>2, <2>3
  <1>8. ASSUME b.state = 9
        PROVE  \E j, e, lo, hi \in Nat :
                  /\ Saved(j, e, lo, hi) /\ hi < k
                  /\ tempstr[hi + 1] \notin Letters
    <2>a. a.state \in {1, 2, 3, 4, 5, 6, 7, 8, 9} BY <1>0
    <2>1. a.state \in {6, 9} /\ (a.state = 6 => c \notin Letters)
      BY ONLY <2>a, Step(a, b, c), <1>8 DEF Step
    <2>2. CASE a.state = 6 /\ c \notin Letters
      <3>1. PICK j \in Nat, e \in Nat, lo \in Nat : Saved(j, e, lo, k - 1)
        BY <2>2 DEF Known
      <3>2. k - 1 \in Nat /\ k - 1 < k /\ k - 1 + 1 = k OBVIOUS
      <3> QED BY <3>1, <3>2, <2>2
    <2>3. CASE a.state = 9
      <3>1. PICK j \in Nat, e \in Nat, lo \in Nat, hi \in Nat :
               /\ Saved(j, e, lo, hi) /\ hi < k - 1
               /\ tempstr[hi + 1] \notin Letters
        BY <2>3 DEF Known
      <3>2. hi < k BY <3>1
      <3> QED BY <3>1, <3>2
    <2> QED BY <2>1, <2>2, <2>3
  <1>9. ASSUME b.state = 7
        PROVE  \E j \in 1 .. k : /\ Spaces(1, j - 1) /\ tempstr[j] = "q"
                                 /\ Spaces(j + 1, k)
    <2>a. a.state \in {1, 2, 3, 4, 5, 6, 7, 8, 9} BY <1>0
    <2>1. /\ a.state \in {1, 7} /\ (a.state = 1 => c = "q")
          /\ a.state = 7 => c = Space
      BY ONLY <2>a, Step(a, b, c), <1>9 DEF Step
    <2>2. CASE a.state = 1 /\ c = "q"
      <3>1. Spaces(1, k - 1) /\ Spaces(k + 1, k)
        BY <2>2 DEF Known, Spaces
      <3> QED BY <3>1, <2>2
    <2>3. CASE a.state = 7 /\ c = Space
      <3>1. PICK j \in 1 .. k - 1 : /\ Spaces(1, j - 1) /\ tempstr[j] = "q"
                                    /\ Spaces(j + 1, k - 1)
        BY <2>3 DEF Known
      <3>2. Spaces(j + 1, k) BY <3>1, <2>3 DEF Spaces
      <3> QED BY <3>1, <3>2
    <2> QED BY <2>1, <2>2, <2>3
  <1>10. ASSUME b.state = 5, ~Wrote(b)
         PROVE  k > 0 /\ Spaces(1, k - 1) /\ tempstr[k] \in {Space, "a", "."}
    <2>1. a.state = 1 /\ c \notin {Space, "w", "q"}
      BY ONLY Known(a, k - 1), Step(a, b, c), <1>10 DEF Known, Step
    <2> QED BY <2>1, <1>1 DEF Known
  <1>11. b.state \in {2, 3, 4} => Wrote(b)
    BY ONLY Known(a, k - 1), Step(a, b, c) DEF Known, Step
  <1>12. b.state \in {1, 2, 3, 4, 5, 7} => b.filename = <<>>
    <2>1. b.state \in {1, 2, 3, 4, 5, 7} => a.state \in {1, 2, 3, 4, 5, 7}
      BY ONLY Known(a, k - 1), Step(a, b, c) DEF Known, Step
    <2>2. b.state \in {1, 2, 3, 4, 5, 7} => b.filename = a.filename
      BY ONLY Step(a, b, c) DEF Step
    <2> QED BY <2>1, <2>2 DEF Known
  <1> HIDE DEF c
  <1> QED
    BY <1>2, <1>3, <1>4, <1>5, <1>6, <1>7, <1>8, <1>9, <1>10, <1>11, <1>12,
       Zenon DEF Known

\* What has been read after k characters of a line with a q at j and nothing
\* else.
Quit(r, k, j) ==
    /\ k < j => r.state = 1 /\ ~Quits(r)
    /\ j <= k => r.state = 7 /\ Quits(r)
    /\ r.filename = <<>> /\ ~Wrote(r)
\* One more character of such a line.
LEMMA OneMoreQuit ==
    ASSUME NEW a, NEW b, NEW k \in 1 .. Len(tempstr), NEW j \in Nat, 1 <= j,
           tempstr \in Seq(lastline!Characters),
           Quit(a, k - 1, j), Step(a, b, tempstr[k]),
           Spaces(1, IF j > k THEN k ELSE j - 1),
           k >= j => tempstr[j] = "q" /\ Spaces(j + 1, k),
           Space # "q", Space # "w"
    PROVE  Quit(b, k, j)
  <1> DEFINE c == tempstr[k]
  <1>1. CASE k < j
    <2>1. c = Space /\ a.state = 1 /\ ~Quits(a) /\ ~Wrote(a)
          /\ a.filename = <<>>
      BY <1>1 DEF Quit, Spaces
    <2>2. b.state = 1 /\ ~Quits(b) /\ ~Wrote(b) /\ b.filename = <<>>
      BY ONLY <2>1, Step(a, b, c) DEF Step
    <2> QED BY <2>2, <1>1 DEF Quit
  <1>2. CASE k = j
    <2>1. c = "q" /\ a.state = 1 /\ ~Quits(a) /\ ~Wrote(a)
          /\ a.filename = <<>>
      BY <1>2 DEF Quit, Spaces
    <2>2. b.state = 7 /\ Quits(b) /\ ~Wrote(b) /\ b.filename = <<>>
      BY ONLY <2>1, Step(a, b, c), Space # "q" DEF Step
    <2> QED BY <2>2, <1>2 DEF Quit
  <1>3. CASE k > j
    <2>1. c = Space /\ a.state = 7 /\ Quits(a) /\ ~Wrote(a)
          /\ a.filename = <<>>
      BY <1>3 DEF Quit, Spaces
    <2>2. b.state = 7 /\ Quits(b) /\ ~Wrote(b) /\ b.filename = <<>>
      BY ONLY <2>1, Step(a, b, c) DEF Step
    <2> QED BY <2>2, <1>3 DEF Quit
  <1> QED BY <1>1, <1>2, <1>3

\* Such a line is read to its end.
LEMMA Quitted ==
    ASSUME tempstr \in Seq(lastline!Characters), NEW p, Reads(p, tempstr),
           NEW n \in 0 .. Len(tempstr), NEW j \in Nat, 1 <= j,
           Spaces(1, IF j > n THEN n ELSE j - 1),
           n >= j => tempstr[j] = "q" /\ Spaces(j + 1, n)
    PROVE  Quit(p[n], n, j)
  <1> DEFINE T == {k \in 0 .. n : Quit(p[k], k, j)}
             m == Len(tempstr)
  <1>0. m \in Nat /\ n \in Nat /\ n <= m OBVIOUS
  <1>a. Space # "q" /\ Space # "w" BY Kinds
  <1>1. 0 \in T
    <2> DEFINE r == lastline!Begin
    <2>1. r.state = 1 /\ r.filename = <<>> /\ ~Wrote(r) /\ ~Quits(r)
      BY Begins
    <2> HIDE DEF r
    <2>2. Quit(r, 0, j) BY <2>1 DEF Quit
    <2>3. p[0] = r BY Zenon DEF Reads, r
    <2>4. Quit(p[0], 0, j) BY <2>2, <2>3, Zenon
    <2> QED BY <2>4, <1>0
  <1>2. ASSUME NEW k0 \in 0 .. n - 1, k0 \in T PROVE k0 + 1 \in T
    <2> DEFINE k == k0 + 1
               a == p[k0]
               b == p[k]
               c == tempstr[k]
    <2>1. Step(a, b, c)
      <3>1. k \in 1 .. m /\ k - 1 = k0 BY <1>0
      <3> QED BY <3>1, Steps, Zenon
    <2>2. Quit(a, k0, j) BY <1>2
    <2>3. k \in 1 .. m /\ k - 1 = k0 /\ k \in 1 .. n BY <1>0
    <2>4. /\ Spaces(1, IF j > k THEN k ELSE j - 1)
          /\ k >= j => tempstr[j] = "q" /\ Spaces(j + 1, k)
      BY <2>3 DEF Spaces
    <2> HIDE DEF k
    <2>5. Quit(a, k - 1, j) BY <2>2, <2>3, Zenon
    <2> HIDE DEF a, b, m
    <2>6. Quit(b, k, j)
      BY <1>0, <1>a, <2>1, <2>3, <2>4, <2>5, OneMoreQuit DEF m
    <2>7. Quit(p[k], k, j) /\ k \in 0 .. n BY <2>3, <2>6 DEF b
    <2> QED BY <2>7 DEF k
  <1> HIDE DEF T
  <1>3. 0 .. n \subseteq T BY <1>0, <1>1, <1>2, UpTo
  <1>4. n \in T BY <1>0, <1>3
  <1> QED BY <1>4, Zenon DEF T

\* The state in which a line ends says what the line is.
LEMMA KnownAll ==
    ASSUME tempstr \in Seq(lastline!Characters), NEW p, Reads(p, tempstr)
    PROVE  Known(p[Len(tempstr)], Len(tempstr))
  <1> DEFINE n == Len(tempstr)
             T == {k \in 0 .. n : Known(p[k], k)}
  <1>0. n \in Nat OBVIOUS
  <1>a. /\ Letters = {"w", "q", "a"} /\ Space \notin {"w", "q", "a"}
        /\ lastline!Characters = Letters \union {Space, "."}
    BY Kinds
  <1>1. 0 \in T
    <2> DEFINE r == lastline!Begin
    <2>1. r.state = 1 /\ r.filename = <<>> /\ ~Wrote(r) /\ ~Quits(r)
      BY Begins
    <2> HIDE DEF r
    <2>2. Spaces(1, 0) BY DEF Spaces
    <2>3. Known(r, 0) BY <2>1, <2>2 DEF Known
    <2>4. p[0] = r BY Zenon DEF Reads, r
    <2>5. Known(p[0], 0) BY <2>3, <2>4, Zenon
    <2> QED BY <2>5, <1>0
  <1>2. ASSUME NEW k0 \in 0 .. n - 1, k0 \in T PROVE k0 + 1 \in T
    <2> DEFINE k == k0 + 1
               a == p[k0]
               b == p[k]
               c == tempstr[k]
    <2>1. Step(a, b, c)
      <3>1. k \in 1 .. n /\ k - 1 = k0 OBVIOUS
      <3> QED BY <3>1, Steps, Zenon
    <2>2. Known(a, k0) BY <1>2
    <2>3. k \in 1 .. n /\ k - 1 = k0 OBVIOUS
    <2> HIDE DEF k
    <2>4. Known(a, k - 1) BY <2>2, <2>3, Zenon
    <2> HIDE DEF a, b
    <2>5. Known(b, k) BY <1>0, <1>a, <2>1, <2>3, <2>4, OneMoreKnown
    <2>6. Known(p[k], k) /\ k \in 0 .. n BY <2>3, <2>5 DEF b
    <2> QED BY <2>6 DEF k
  <1> HIDE DEF T
  <1>3. 0 .. n \subseteq T BY <1>0, <1>1, <1>2, UpTo
  <1>4. n \in T BY <1>0, <1>3
  <1> QED BY <1>4, Zenon DEF T

\* What parse_lastline returns of what it has read.
Result(r) ==
    LET error == r.state = 8 \/ (Wrote(r) /\ r.filename = <<>>)
    IN  [status   |-> IF error THEN -1 ELSE IF Quits(r) THEN 1 ELSE 0,
         filename |-> IF error THEN <<>> ELSE r.filename]

\* It returns that of the last character.
LEMMA Parsed ==
    ASSUME tempstr \in Seq(lastline!Characters)
    PROVE  \E p : /\ Reads(p, tempstr)
                  /\ lastline!parse_lastline(tempstr)
                        = Result(p[Len(tempstr)])
  <1>1. PICK p : /\ Reads(p, tempstr)
                 /\ lastline!FoldLeft(lastline!Read, lastline!Begin, tempstr)
                       = p[Len(tempstr)]
    BY FoldReads
  <1> DEFINE q == lastline!FoldLeft(lastline!Read, lastline!Begin, tempstr)
  <1>2. lastline!parse_lastline(tempstr) = Result(q)
    BY Zenon
       DEF lastline!parse_lastline, Result, Wrote, Quits, lastline!Rejected
  <1>3. Result(q) = Result(p[Len(tempstr)])
    BY <1>1, Zenon
  <1> QED BY <1>1, <1>2, <1>3, Zenon

\* What a command to write looks like.
LEMMA SaysWriteMeans ==
    ASSUME NEW quits \in BOOLEAN, NEW lo \in 1 .. Len(tempstr),
           NEW hi \in 1 .. Len(tempstr),
           lastline!SaysWrite(quits, lo, hi)
    PROVE  \E j \in 1 .. lo - 2 : \E e \in {j, j + 1} :
              /\ quits <=> e = j + 1
              /\ lastline!Blank(1, j - 1) /\ tempstr[j] = "w"
              /\ e = j + 1 => tempstr[j + 1] = "q"
              /\ e + 1 < lo /\ lastline!Blank(e + 1, lo - 1)
              /\ \A m \in lo .. hi : tempstr[m] \in lastline!NameCharacters
              /\ hi < Len(tempstr) =>
                    tempstr[hi + 1] \notin lastline!NameCharacters
  <1>1. PICK j \in 1 .. lo - 2 :
            LET end == IF quits THEN j + 1 ELSE j
            IN  /\ lastline!Blank(1, j - 1) /\ tempstr[j] = "w"
                /\ quits => tempstr[j + 1] = "q"
                /\ end + 1 < lo
                /\ lastline!Blank(end + 1, lo - 1)
                /\ \A n \in lo .. hi : tempstr[n] \in lastline!NameCharacters
                /\ hi < Len(tempstr) =>
                      tempstr[hi + 1] \notin lastline!NameCharacters
    BY Zenon DEF lastline!SaysWrite
  <1>2. j # j + 1 BY SMT
  <1>3. CASE quits
    <2> WITNESS j \in 1 .. lo - 2
    <2> WITNESS j + 1 \in {j, j + 1}
    <2> QED BY <1>1, <1>3, Zenon
  <1>4. CASE ~quits
    <2> WITNESS j \in 1 .. lo - 2
    <2> WITNESS j \in {j, j + 1}
    <2> QED BY <1>1, <1>2, <1>4, Zenon
  <1> QED BY <1>3, <1>4, Zenon

\* A command to write is obeyed.
LEMMA WritesObeyed ==
    ASSUME tempstr \in Seq(lastline!Characters), NEW p, Reads(p, tempstr),
           NEW quits \in BOOLEAN, NEW lo \in 1 .. Len(tempstr),
           NEW hi \in 1 .. Len(tempstr), lo <= hi,
           lastline!SaysWrite(quits, lo, hi)
    PROVE  Result(p[Len(tempstr)])
              = [status   |-> IF quits THEN 1 ELSE 0,
                 filename |-> SubSeq(tempstr, lo, hi)]
  <1> DEFINE n == Len(tempstr)
             r == p[n]
  <1>1. PICK j \in 1 .. lo - 2 : \E e \in {j, j + 1} :
              /\ quits <=> e = j + 1
              /\ lastline!Blank(1, j - 1) /\ tempstr[j] = "w"
              /\ e = j + 1 => tempstr[j + 1] = "q"
              /\ e + 1 < lo /\ lastline!Blank(e + 1, lo - 1)
              /\ \A m \in lo .. hi : tempstr[m] \in lastline!NameCharacters
              /\ hi < n => tempstr[hi + 1] \notin lastline!NameCharacters
    BY SaysWriteMeans, Zenon
  <1>2. PICK e \in {j, j + 1} :
              /\ quits <=> e = j + 1
              /\ lastline!Blank(1, j - 1) /\ tempstr[j] = "w"
              /\ e = j + 1 => tempstr[j + 1] = "q"
              /\ e + 1 < lo /\ lastline!Blank(e + 1, lo - 1)
              /\ \A m \in lo .. hi : tempstr[m] \in lastline!NameCharacters
              /\ hi < n => tempstr[hi + 1] \notin lastline!NameCharacters
    BY <1>1, Zenon
  <1>3. n \in Nat /\ j \in Nat /\ lo \in Nat /\ hi \in Nat /\ 1 <= j /\ hi <= n
    BY ONLY tempstr \in Seq(lastline!Characters), j \in 1 .. lo - 2,
            lo \in 1 .. n, hi \in 1 .. n
  <1>4. Trace(r, n, j, e, lo, hi)
    BY <1>2, <1>3, Traced, Zenon
  <1> HIDE DEF r
  <1>5. /\ r.state \in {6, 9} /\ r.filename = SubSeq(tempstr, lo, hi)
        /\ Quits(r) <=> e = j + 1
    BY ONLY <1>3, <1>4, e \in {j, j + 1}, <1>2, lo <= hi DEF Trace
  <1>6. SubSeq(tempstr, lo, hi) # <<>> /\ r.state # 8
    <2>1. Len(SubSeq(tempstr, lo, hi)) > 0 BY <1>3
    <2> DEFINE name == SubSeq(tempstr, lo, hi)
    <2>2. Len(name) > 0 BY <2>1
    <2> HIDE DEF name
    <2>3. name # <<>> BY ONLY <2>2
    <2> QED BY <2>3, <1>5, Numbers, Zenon DEF name
  <1> QED BY <1>2, <1>5, <1>6, Zenon DEF Result, r

\* So is one to quit.
LEMMA QuitObeyed ==
    ASSUME tempstr \in Seq(lastline!Characters), NEW p, Reads(p, tempstr),
           lastline!SaysQuit
    PROVE  Result(p[Len(tempstr)]) = [status |-> 1, filename |-> <<>>]
  <1> DEFINE n == Len(tempstr)
             r == p[n]
  <1>1. PICK j \in 1 .. n : /\ tempstr[j] = "q" /\ lastline!Blank(1, j - 1)
                            /\ lastline!Blank(j + 1, n)
    BY Zenon DEF lastline!SaysQuit
  <1>2. Spaces(1, j - 1) /\ Spaces(j + 1, n) BY <1>1, Blanks, Zenon DEF Spaces
  <1>3. n \in Nat /\ n \in 0 .. n /\ j \in Nat /\ 1 <= j /\ ~(j > n) /\ j <= n
    OBVIOUS
  <1>4. Quit(r, n, j) BY <1>1, <1>2, <1>3, Quitted, Zenon
  <1>5. r.state = 7 /\ Quits(r) /\ ~Wrote(r) /\ r.filename = <<>>
    BY <1>3, <1>4, Zenon DEF Quit
  <1> QED BY <1>5, Numbers, Zenon DEF Result

\* An empty line does nothing.
LEMMA NothingObeyed ==
    ASSUME tempstr \in Seq(lastline!Characters), NEW p, Reads(p, tempstr),
           lastline!SaysNothing
    PROVE  Result(p[Len(tempstr)]) = [status |-> 0, filename |-> <<>>]
  <1> DEFINE n == Len(tempstr)
             r == p[n]
  <1>0. n \in Nat OBVIOUS
  <1>1. /\ r.state \in {1, 5} /\ ~Wrote(r) /\ ~Quits(r)
        /\ r.filename = <<>>
    <2>1. CASE n = 0
      <3>1. r = lastline!Begin BY <2>1, Zenon DEF Reads
      <3> QED BY <3>1, Begins, Zenon
    <2>2. CASE n > 0
      <3>1. lastline!Blank(1, n - 1) BY Zenon DEF lastline!SaysNothing
      <3>2. Spaces(1, n - 1) BY <3>1, Blanks, Zenon DEF Spaces
      <3>3. /\ n - 1 \in 0 .. n /\ n \in Nat /\ 1 <= n /\ n > n - 1
            /\ ~(n - 1 >= n) /\ n \in 1 .. n /\ n - 1 < n
        BY <2>2
      <3>4. Quit(p[n - 1], n - 1, n) BY <3>2, <3>3, Quitted, Zenon
      <3>5. Step(p[n - 1], r, tempstr[n]) BY <3>3, Steps, Zenon
      <3>6. tempstr[n] \in {Space, "a", "."}
        <4>1. tempstr # <<>> BY <2>2
        <4> QED BY <4>1, Zenon
                DEF lastline!SaysNothing, lastline!Last, Space
      <3>7. tempstr[n] # "w" /\ tempstr[n] # "q" BY <3>6, Kinds
      <3> DEFINE a == p[n - 1]
                 c == tempstr[n]
      <3>8. a.state = 1 /\ ~Quits(a) /\ ~Wrote(a) /\ a.filename = <<>>
        BY <3>3, <3>4, Zenon DEF Quit
      <3>9. Step(a, r, c) /\ c # "w" /\ c # "q" BY <3>5, <3>7, Zenon
      <3> HIDE DEF a, r, c
      <3> QED BY ONLY <3>8, <3>9 DEF Step
    <2> QED BY <1>0, <2>1, <2>2
  <1>2. r.state # 8
    <2> HIDE DEF r
    <2> QED BY <1>1
  <1> QED BY <1>1, <1>2, Zenon DEF Result

\* The automaton has accepted a command to write only if the line is one.
LEMMA SavedSays ==
    ASSUME NEW j, NEW e, NEW lo, NEW hi, Saved(j, e, lo, hi),
           tempstr \in Seq(lastline!Characters), hi <= Len(tempstr),
           hi < Len(tempstr) => tempstr[hi + 1] \notin Letters
    PROVE  /\ lo \in 1 .. Len(tempstr) /\ hi \in 1 .. Len(tempstr) /\ lo <= hi
           /\ \E quits \in BOOLEAN : lastline!SaysWrite(quits, lo, hi)
  <1>1. /\ lo \in 1 .. Len(tempstr) /\ hi \in 1 .. Len(tempstr) /\ lo <= hi
        /\ j \in 1 .. lo - 2 /\ e \in {j, j + 1} /\ e + 1 < lo
    BY DEF Saved, Command
  <1>2. /\ lastline!Blank(1, j - 1) /\ tempstr[j] = "w"
        /\ e = j + 1 => tempstr[j + 1] = "q"
        /\ lastline!Blank(e + 1, lo - 1)
        /\ \A m \in lo .. hi : tempstr[m] \in lastline!NameCharacters
        /\ hi < Len(tempstr) =>
              tempstr[hi + 1] \notin lastline!NameCharacters
    BY Blanks, Zenon DEF Saved, Command, Spaces, Named, Letters
  <1>3. CASE e = j
    <2>1. lastline!SaysWrite(FALSE, lo, hi)
      BY <1>1, <1>2, <1>3, Zenon DEF lastline!SaysWrite
    <2> QED BY <1>1, <2>1, Zenon
  <1>4. CASE e = j + 1
    <2>1. lastline!SaysWrite(TRUE, lo, hi)
      BY <1>1, <1>2, <1>4, Zenon DEF lastline!SaysWrite
    <2> QED BY <1>1, <2>1, Zenon
  <1> QED BY <1>1, <1>3, <1>4, Zenon

\* All ways to read the line as a command to write.
Bounds ==
    {b \in BOOLEAN \X (1 .. Len(tempstr)) \X (1 .. Len(tempstr)) :
        b[2] <= b[3] /\ lastline!SaysWrite(b[1], b[2], b[3])}

\* Every other line is refused.
LEMMA OthersRefused ==
    ASSUME tempstr \in Seq(lastline!Characters), NEW p, Reads(p, tempstr),
           Bounds = {}, ~lastline!SaysQuit, ~lastline!SaysNothing
    PROVE  Result(p[Len(tempstr)]) = [status |-> -1, filename |-> <<>>]
  <1> DEFINE n == Len(tempstr)
             r == p[n]
  <1>0. n \in Nat OBVIOUS
  <1>1. Known(r, n) BY KnownAll, Zenon
  <1> HIDE DEF r
  <1>2. ASSUME NEW j, NEW e, NEW lo, NEW hi, Saved(j, e, lo, hi), hi <= n,
               hi < n => tempstr[hi + 1] \notin Letters
        PROVE  FALSE
    <2>1. PICK quits \in BOOLEAN : lastline!SaysWrite(quits, lo, hi)
      BY <1>2, SavedSays, Zenon
    <2>2. lo \in 1 .. n /\ hi \in 1 .. n /\ lo <= hi
      BY <1>2, SavedSays, Zenon
    <2> DEFINE b == <<quits, lo, hi>>
    <2>3. /\ b \in BOOLEAN \X (1 .. n) \X (1 .. n)
          /\ b[1] = quits /\ b[2] = lo /\ b[3] = hi
      BY <2>2, Zenon
    <2>4. b \in Bounds BY <2>1, <2>2, <2>3, Zenon DEF Bounds
    <2> QED BY <2>4, Zenon
  <1>3. r.state # 1
    <2> SUFFICES ASSUME r.state = 1 PROVE FALSE OBVIOUS
    <2>1. Spaces(1, n) BY <1>1, Zenon DEF Known
    <2>2. Spaces(1, n - 1) /\ (n > 0 => tempstr[n] = Space)
      BY <1>0, <2>1 DEF Spaces
    <2>3. lastline!Blank(1, n - 1) BY <2>2, Blanks, Zenon DEF Spaces
    <2>4. n > 0 \/ tempstr = <<>> BY <1>0
    <2>5. lastline!SaysNothing
      BY <2>2, <2>3, <2>4, Zenon DEF lastline!SaysNothing, lastline!Last, Space
    <2> QED BY <2>5, Zenon
  <1>4. ~(r.state = 5 /\ ~Wrote(r))
    <2> SUFFICES ASSUME r.state = 5, ~Wrote(r) PROVE FALSE OBVIOUS
    <2>1. Spaces(1, n - 1) /\ tempstr[n] \in {Space, "a", "."}
      BY <1>1, Zenon DEF Known
    <2>2. lastline!Blank(1, n - 1) BY <2>1, Blanks, Zenon DEF Spaces
    <2>3. lastline!SaysNothing
      BY <2>1, <2>2, Zenon DEF lastline!SaysNothing, lastline!Last, Space
    <2> QED BY <2>3, Zenon
  <1>5. r.state # 7
    <2> SUFFICES ASSUME r.state = 7 PROVE FALSE OBVIOUS
    <2>1. PICK j \in 1 .. n : /\ Spaces(1, j - 1) /\ tempstr[j] = "q"
                              /\ Spaces(j + 1, n)
      BY <1>1, Zenon DEF Known
    <2>2. lastline!Blank(1, j - 1) /\ lastline!Blank(j + 1, n)
      BY <2>1, Blanks, Zenon DEF Spaces
    <2>3. lastline!SaysQuit BY <2>1, <2>2, Zenon DEF lastline!SaysQuit
    <2> QED BY <2>3, Zenon
  <1>6. r.state # 6
    <2> SUFFICES ASSUME r.state = 6 PROVE FALSE OBVIOUS
    <2>1. PICK j \in Nat, e \in Nat, lo \in Nat : Saved(j, e, lo, n)
      BY <1>1 DEF Known
    <2>2. n <= n /\ ~(n < n) BY <1>0
    <2> QED BY <1>2, <2>1, <2>2, Zenon
  <1>7. r.state # 9
    <2> SUFFICES ASSUME r.state = 9 PROVE FALSE OBVIOUS
    <2>1. PICK j \in Nat, e \in Nat, lo \in Nat, hi \in Nat :
             /\ Saved(j, e, lo, hi) /\ hi < n
             /\ tempstr[hi + 1] \notin Letters
      BY <1>1 DEF Known
    <2>2. hi <= n BY <1>0, <2>1
    <2> QED BY <1>2, <2>1, <2>2, Zenon
  <1>8. r.state = 8 \/ (Wrote(r) /\ r.filename = <<>>)
    BY <1>1, <1>3, <1>4, <1>5, <1>6, <1>7 DEF Known
  <1> QED BY <1>8, Zenon DEF Result, r

\* What the property says, of a line that has been entered.
LEMMA Obeyed ==
    ASSUME tempstr \in Seq(lastline!Characters),
           prompt = "entered" => result = lastline!parse_lastline(tempstr)
    PROVE  lastline!CommandsAreObeyed
  <1> SUFFICES ASSUME prompt = "entered" PROVE lastline!CommandsAreObeyed
    BY Zenon DEF lastline!CommandsAreObeyed
  <1>1. PICK p : /\ Reads(p, tempstr)
                 /\ lastline!parse_lastline(tempstr)
                       = Result(p[Len(tempstr)])
    BY Parsed
  <1>2. result = Result(p[Len(tempstr)]) BY <1>1, Zenon
  <1>3. ASSUME NEW b \in Bounds
        PROVE  result = [status   |-> IF b[1] THEN 1 ELSE 0,
                         filename |-> SubSeq(tempstr, b[2], b[3])]
    <2>1. /\ b[1] \in BOOLEAN /\ b[2] \in 1 .. Len(tempstr)
          /\ b[3] \in 1 .. Len(tempstr)
          /\ b[2] <= b[3] /\ lastline!SaysWrite(b[1], b[2], b[3])
      BY Zenon DEF Bounds
    <2> QED BY <1>1, <1>2, <2>1, WritesObeyed, Zenon
  <1>4. lastline!SaysQuit => result = [status |-> 1, filename |-> <<>>]
    BY <1>1, <1>2, QuitObeyed, Zenon
  <1>5. lastline!SaysNothing => result = lastline!NoResult
    BY <1>1, <1>2, NothingObeyed, Zenon DEF lastline!NoResult
  <1>6. Bounds = {} /\ ~lastline!SaysQuit /\ ~lastline!SaysNothing
           => result = [status |-> -1, filename |-> <<>>]
    BY <1>1, <1>2, OthersRefused, Zenon
  <1> QED
    BY <1>3, <1>4, <1>5, <1>6, Zenon DEF lastline!CommandsAreObeyed, Bounds

\* The line is one of characters, and the result is that of the line.
PromptInv ==
    /\ tempstr \in Seq(lastline!Characters)
    /\ prompt = "entered" => result = lastline!parse_lastline(tempstr)

\* The prompt starts in its invariant.
LEMMA PromptInit == lastline!Init => PromptInv
  <1> SUFFICES ASSUME lastline!Init PROVE PromptInv
    OBVIOUS
  <1>1. tempstr = <<>> /\ prompt = "open" BY Zenon DEF lastline!Init
  <1>2. tempstr \in Seq(lastline!Characters) BY <1>1
  <1> QED BY <1>1, <1>2, Zenon DEF PromptInv

\* Every step of the prompt keeps it.
LEMMA PromptKept ==
    ASSUME PromptInv, [lastline!do_lastline_mode]_(lastline!promptVars)
    PROVE  PromptInv'
  <1> DEFINE S == lastline!Characters
  <1>0. tempstr \in Seq(S) BY Zenon DEF PromptInv
  <1> HIDE DEF S
  <1>1. CASE UNCHANGED lastline!promptVars
    <2>1. UNCHANGED <<prompt, tempstr, result>>
      BY <1>1, Zenon DEF lastline!promptVars
    <2> QED BY <2>1, Zenon DEF PromptInv, lastline!parse_lastline
  <1>2. ASSUME NEW c \in S, lastline!TypeCharacter(c) PROVE PromptInv'
    <2>1. prompt' = "open" /\ tempstr' = Append(tempstr, c)
      BY <1>2, Zenon DEF lastline!TypeCharacter
    <2>2. tempstr' \in Seq(S) BY <1>0, <2>1
    <2> QED BY <2>1, <2>2, Zenon DEF PromptInv, S
  <1>3. CASE lastline!Erase
    <2>1. /\ prompt' \in {"open", "erased"}
          /\ \/ tempstr' = tempstr
             \/ tempstr # <<>> /\ tempstr' = lastline!Front(tempstr)
      BY <1>3, Zenon DEF lastline!Erase
    <2>2. tempstr # <<>> => lastline!Front(tempstr) \in Seq(S)
      BY <1>0 DEF lastline!Front
    <2>3. prompt' # "entered" /\ tempstr' \in Seq(S)
      BY <1>0, <2>1, <2>2
    <2> QED BY <2>3, Zenon DEF PromptInv, S
  <1>4. CASE lastline!Enter
    <2>1. /\ tempstr' = tempstr
          /\ result' = lastline!parse_lastline(tempstr)
      BY <1>4, Zenon DEF lastline!Enter
    <2>2. lastline!parse_lastline(tempstr') = lastline!parse_lastline(tempstr)
      BY <2>1, Zenon
    <2> QED BY <1>0, <2>1, <2>2, Zenon DEF PromptInv, S
  <1>5. CASE lastline!Ended
    <2>1. UNCHANGED <<prompt, tempstr, result>>
      BY <1>5, Zenon DEF lastline!Ended, lastline!promptVars
    <2> QED BY <2>1, Zenon DEF PromptInv
  <1> QED
    BY <1>1, <1>2, <1>3, <1>4, <1>5, Zenon DEF lastline!do_lastline_mode, S

-----------------------------------------------------------------------------
(* The lengths of the lines *)

\* f[n] is lens[0] + ... + lens[n - 1].
Adds(f, lens, n) ==
    f = [x \in 0 .. n |-> IF x = 0 THEN 0 ELSE f[x - 1] + lens[x - 1]]
\* The sum of the first n lengths, as CharactersBefore has it.
Sum(lens, n) ==
    LET upto[x \in 0 .. n] == IF x = 0 THEN 0 ELSE upto[x - 1] + lens[x - 1]
    IN  upto[n]

\* One length is added after another.
LEMMA AddsNext ==
    ASSUME NEW f, NEW lens, NEW n \in Nat, Adds(f, lens, n)
    PROVE  /\ f[0] = 0
           /\ \A x \in 0 .. n - 1 : f[x + 1] = f[x] + lens[x]
  <1>1. ASSUME NEW x \in 0 .. n
        PROVE  f[x] = IF x = 0 THEN 0 ELSE f[x - 1] + lens[x - 1]
    BY Zenon DEF Adds
  <1>2. f[0] = 0
    <2>1. 0 \in 0 .. n OBVIOUS
    <2> QED BY <1>1, <2>1, Zenon
  <1>3. ASSUME NEW x \in 0 .. n - 1 PROVE f[x + 1] = f[x] + lens[x]
    <2> DEFINE j == x + 1
    <2>1. j \in 0 .. n /\ j # 0 /\ j - 1 = x OBVIOUS
    <2> HIDE DEF j
    <2>2. f[j] = f[j - 1] + lens[j - 1] BY <1>1, <2>1, Zenon
    <2>3. f[j] = f[x] + lens[x] BY <2>1, <2>2, Zenon
    <2> QED BY <2>3 DEF j
  <1> QED BY <1>2, <1>3

\* There is such a function.
LEMMA SumFound ==
    ASSUME NEW lens, NEW n \in Nat
    PROVE  \E f : Adds(f, lens, n)
  <1> DEFINE T == {m \in 0 .. n : \E f : Adds(f, lens, m)}
  <1>1. 0 \in T
    <2> DEFINE f == [x \in 0 .. 0 |-> 0]
    <2>1. f = [x \in 0 .. 0 |-> IF x = 0 THEN 0 ELSE f[x - 1] + lens[x - 1]]
      OBVIOUS
    <2>2. Adds(f, lens, 0) BY <2>1, Zenon DEF Adds
    <2> QED BY <2>2
  <1>2. ASSUME NEW m \in 0 .. n - 1, m \in T PROVE m + 1 \in T
    <2>1. PICK g : Adds(g, lens, m) BY <1>2
    <2> DEFINE h == [x \in 0 .. m + 1 |->
                       IF x = m + 1 THEN g[m] + lens[m] ELSE g[x]]
    <2>2. ASSUME NEW x \in 0 .. m + 1
          PROVE  h[x] = IF x = 0 THEN 0 ELSE h[x - 1] + lens[x - 1]
      <3>1. CASE x = m + 1
        <4>1. /\ m \in 0 .. m + 1 /\ m # m + 1 /\ x - 1 = m /\ x # 0
          BY <3>1
        <4> QED BY <3>1, <4>1, Zenon
      <3>2. CASE x \in 1 .. m
        <4>1. /\ x - 1 \in 0 .. m + 1 /\ x - 1 # m + 1 /\ x # m + 1 /\ x # 0
              /\ x \in 0 .. m
          BY <3>2
        <4>2. g[x] = g[x - 1] + lens[x - 1]
          BY <2>1, <4>1, Zenon DEF Adds
        <4> QED BY <4>1, <4>2, Zenon
      <3>3. CASE x = 0
        <4>1. 0 \in 0 .. m /\ x # m + 1 BY <3>3
        <4>2. g[0] = 0 BY <2>1, <4>1, Zenon DEF Adds
        <4> QED BY <3>3, <4>1, <4>2, Zenon
      <3> QED BY <3>1, <3>2, <3>3
    <2>3. Adds(h, lens, m + 1) BY <2>2, Zenon DEF Adds
    <2>4. m + 1 \in 0 .. n OBVIOUS
    <2> QED BY <2>3, <2>4, Zenon
  <1> HIDE DEF T
  <1>3. 0 .. n \subseteq T BY <1>1, <1>2, UpTo
  <1>4. n \in T BY <1>3
  <1> QED BY <1>4, Zenon DEF T

\* All sums over parts of a table are in one function.
LEMMA SumIs ==
    ASSUME NEW lens, NEW n \in Nat
    PROVE  \E f : /\ Adds(f, lens, n)
                  /\ \A k \in 0 .. n : Sum(lens, k) = f[k]
  <1>1. PICK f : Adds(f, lens, n) BY SumFound
  <1>2. ASSUME NEW k \in 0 .. n PROVE Sum(lens, k) = f[k]
    <2> DEFINE g == CHOOSE h : Adds(h, lens, k)
    <2>0. k \in Nat /\ 0 .. k \subseteq 0 .. n OBVIOUS
    <2>1. Adds(g, lens, k) BY <2>0, SumFound, Zenon
    <2>2. Sum(lens, k) = g[k] BY Zenon DEF Sum, Adds
    <2> HIDE DEF g
    <2> DEFINE T == {x \in 0 .. k : g[x] = f[x]}
    <2>3. 0 \in T
      <3>1. 0 \in 0 .. k /\ 0 \in 0 .. n BY <2>0
      <3>2. g[0] = 0 /\ f[0] = 0 BY <1>1, <2>0, <2>1, AddsNext, Zenon
      <3> QED BY <3>1, <3>2
    <2>4. ASSUME NEW x \in 0 .. k - 1, x \in T PROVE x + 1 \in T
      <3>1. x + 1 \in 0 .. k /\ x \in 0 .. n - 1 BY <2>0
      <3>2. g[x + 1] = g[x] + lens[x] /\ f[x + 1] = f[x] + lens[x]
        BY <1>1, <2>0, <2>1, <3>1, AddsNext, Zenon
      <3>3. g[x] = f[x] BY <2>4
      <3> QED BY <3>1, <3>2, <3>3, Zenon
    <2> HIDE DEF T
    <2>5. 0 .. k \subseteq T BY <2>0, <2>3, <2>4, UpTo
    <2>6. k \in T BY <2>0, <2>5
    <2> QED BY <2>2, <2>6, Zenon DEF T
  <1> QED BY <1>1, <1>2, Zenon

\* A sum grows by the next length.
LEMMA SumNext ==
    ASSUME NEW lens, NEW n \in Nat
    PROVE  /\ Sum(lens, 0) = 0
           /\ Sum(lens, n + 1) = Sum(lens, n) + lens[n]
  <1>0. /\ n + 1 \in Nat /\ n \in 0 .. n + 1 /\ n + 1 \in 0 .. n + 1
        /\ 0 \in 0 .. n + 1 /\ n \in 0 .. n + 1 - 1
    OBVIOUS
  <1>1. PICK f : /\ Adds(f, lens, n + 1)
                 /\ \A k \in 0 .. n + 1 : Sum(lens, k) = f[k]
    BY <1>0, SumIs, Zenon
  <1>2. f[0] = 0 /\ f[n + 1] = f[n] + lens[n]
    <2>1. /\ f[0] = 0
          /\ \A x \in 0 .. (n + 1) - 1 : f[x + 1] = f[x] + lens[x]
      BY <1>0, <1>1, AddsNext, Zenon
    <2> QED BY <1>0, <2>1
  <1> QED BY <1>0, <1>1, <1>2, Zenon

\* Sums of numbers are numbers and grow.
LEMMA SumGrows ==
    ASSUME NEW lens, NEW m \in Nat, NEW n \in Nat, m <= n,
           \A k \in 0 .. n - 1 : lens[k] \in Nat
    PROVE  /\ Sum(lens, m) \in Nat /\ Sum(lens, n) \in Nat
           /\ Sum(lens, m) <= Sum(lens, n)
           /\ m < n => Sum(lens, m) + lens[m] <= Sum(lens, n)
  <1> DEFINE T == {k \in 0 .. n :
                     /\ Sum(lens, k) \in Nat
                     /\ \A x \in 0 .. k : Sum(lens, x) \in Nat
                                          /\ Sum(lens, x) <= Sum(lens, k)}
  <1>1. 0 \in T BY SumNext
  <1>2. ASSUME NEW k \in 0 .. n - 1, k \in T PROVE k + 1 \in T
    <2>1. Sum(lens, k + 1) = Sum(lens, k) + lens[k] BY SumNext
    <2>2. lens[k] \in Nat OBVIOUS
    <2>3. \A x \in 0 .. k + 1 : x \in 0 .. k \/ x = k + 1 OBVIOUS
    <2> QED BY <1>2, <2>1, <2>2, <2>3
  <1> HIDE DEF T
  <1>3. 0 .. n \subseteq T BY <1>1, <1>2, UpTo
  <1>4. n \in T /\ (m < n => m + 1 \in 0 .. n) BY <1>3
  <1>5. Sum(lens, m + 1) = Sum(lens, m) + lens[m] BY SumNext
  <1> QED BY <1>4, <1>5 DEF T

\* Equal lengths have equal sums.
LEMMA SumSame ==
    ASSUME NEW lens, NEW other, NEW n \in Nat,
           \A k \in 0 .. n - 1 : lens[k] = other[k]
    PROVE  Sum(lens, n) = Sum(other, n)
  <1> DEFINE T == {k \in 0 .. n : Sum(lens, k) = Sum(other, k)}
  <1>1. 0 \in T
    <2>1. Sum(lens, 0) = 0 /\ Sum(other, 0) = 0 BY SumNext
    <2> QED BY <2>1
  <1>2. ASSUME NEW k \in 0 .. n - 1, k \in T PROVE k + 1 \in T
    <2>1. /\ Sum(lens, k + 1) = Sum(lens, k) + lens[k]
          /\ Sum(other, k + 1) = Sum(other, k) + other[k]
      BY SumNext
    <2> QED BY <1>2, <2>1
  <1> HIDE DEF T
  <1>3. 0 .. n \subseteq T BY <1>1, <1>2, UpTo
  <1>4. n \in T BY <1>3
  <1> QED BY <1>4 DEF T

\* One more in one cell.
LEMMA SumMore ==
    ASSUME NEW lens, NEW longer, NEW n \in Nat, NEW c \in 0 .. n - 1,
           \A k \in 0 .. n - 1 :
              lens[k] \in Nat
              /\ longer[k] = IF k = c THEN lens[k] + 1 ELSE lens[k]
    PROVE  Sum(longer, n) = Sum(lens, n) + 1
  <1> DEFINE T == {k \in 0 .. n :
                     /\ Sum(lens, k) \in Nat
                     /\ Sum(longer, k)
                            = Sum(lens, k) + (IF c < k THEN 1 ELSE 0)}
  <1>1. 0 \in T
    <2>1. Sum(lens, 0) = 0 /\ Sum(longer, 0) = 0 BY SumNext
    <2> QED BY <2>1
  <1>2. ASSUME NEW k \in 0 .. n - 1, k \in T PROVE k + 1 \in T
    <2>1. /\ Sum(lens, k + 1) = Sum(lens, k) + lens[k]
          /\ Sum(longer, k + 1) = Sum(longer, k) + longer[k]
      BY SumNext
    <2> QED BY <1>2, <2>1
  <1> HIDE DEF T
  <1>3. 0 .. n \subseteq T BY <1>1, <1>2, UpTo
  <1>4. n \in T BY <1>3
  <1> QED BY <1>4 DEF T

\* Cell c is split in two, with one more in both together, and the later cells
\* move up by one.
LEMMA SumSplit ==
    ASSUME NEW lens, NEW split, NEW n \in Nat, NEW c \in 0 .. n - 1,
           \A k \in 0 .. n - 1 : lens[k] \in Nat,
           \A k \in 0 .. c - 1 : split[k] = lens[k],
           split[c] \in Int, split[c + 1] = lens[c] + 1 - split[c],
           \A k \in c + 2 .. n : split[k] = lens[k - 1]
    PROVE  Sum(split, n + 1) = Sum(lens, n) + 1
  <1> DEFINE T == {k \in 0 .. n :
                     /\ Sum(lens, k) \in Nat
                     /\ c < k => Sum(split, k + 1) = Sum(lens, k) + 1}
  <1>0. Sum(split, c) = Sum(lens, c) BY SumSame
  <1>1. 0 \in T BY SumNext
  <1>2. ASSUME NEW k \in 0 .. n - 1, k \in T PROVE k + 1 \in T
    <2>1. /\ Sum(lens, k + 1) = Sum(lens, k) + lens[k]
          /\ Sum(split, k + 1 + 1) = Sum(split, k + 1) + split[k + 1]
          /\ Sum(split, k + 1) = Sum(split, k) + split[k]
      BY SumNext
    <2>2. CASE k < c BY <1>2, <2>1, <2>2
    <2>3. CASE k = c BY <1>0, <1>2, <2>1, <2>3
    <2>4. CASE c < k
      <3>1. split[k + 1] = lens[k] BY <2>4
      <3> QED BY <1>2, <2>1, <2>4, <3>1
    <2> QED BY <2>2, <2>3, <2>4
  <1> HIDE DEF T
  <1>3. 0 .. n \subseteq T BY <1>1, <1>2, UpTo
  <1>4. n \in T BY <1>3
  <1> QED BY <1>4 DEF T

\* The types that the sums need.
EditorTypes ==
    /\ text \in Seq(editor!Keys)
    /\ line_len \in [0 .. MAXLINES - 1 -> Nat]
    /\ num_lines \in 0 .. MAXLINES /\ cur_line \in 0 .. MAXLINES - 1
    /\ index_in_cur_line \in Int /\ index \in -1 .. Len(text)

\* The lengths of the lines add up to the text, and the cursor is on a line and
\* within it.
EditorInv ==
    /\ EditorTypes
    /\ -1 <= index_in_cur_line /\ index_in_cur_line <= line_len[cur_line]
    /\ IF Len(text) = 0
       THEN /\ num_lines = 0 /\ cur_line = 0
            /\ line_len[0] = 0 /\ index_in_cur_line = 0
       ELSE cur_line < num_lines
    /\ Sum(line_len, num_lines) = Len(text)

\* The characters before a line are the sum of the lengths before it.
LEMMA Before ==
    ASSUME NEW l
    PROVE  editor!CharactersBefore(l) = Sum(line_len, l)
  BY Zenon DEF editor!CharactersBefore, Sum

\* The invariant implies the property.
LEMMA EditorSafe == EditorInv => editor!AllCharactersCounted
  <1> SUFFICES ASSUME EditorInv PROVE editor!AllCharactersCounted OBVIOUS
  <1>1. editor!CharactersBefore(num_lines) = Sum(line_len, num_lines)
    BY Before
  <1>2. Sum(line_len, num_lines) = Len(text) BY DEF EditorInv
  <1> QED BY <1>1, <1>2, Zenon DEF editor!AllCharactersCounted, editor!size

\* simplevi starts in its invariant.
LEMMA EditorInit == editor!EditorAssumption /\ editor!Init => EditorInv
  <1> SUFFICES ASSUME editor!EditorAssumption, editor!Init PROVE EditorInv
    OBVIOUS
  <1>0. /\ text = <<>> /\ index = 0 /\ num_lines = 0
        /\ line_len = [k \in 0 .. MAXLINES - 1 |-> 0]
        /\ cur_line = 0 /\ index_in_cur_line = 0
        /\ MAXLINES \in Nat /\ MAXLINES > 0
    BY DEF editor!Init, editor!EditorAssumption
  <1>1. Sum(line_len, 0) = 0 BY SumNext
  <1>2. EditorTypes /\ line_len[0] = 0 BY <1>0 DEF EditorTypes
  <1>3. Len(text) = 0 BY <1>0
  <1> QED BY <1>0, <1>1, <1>2, <1>3 DEF EditorInv

\* The lines there are once the first character has made one.
LEMMA LinesThere ==
    ASSUME editor!EditorAssumption, EditorInv
    PROVE  LET n == editor!LinesCounted
           IN  /\ n \in 1 .. MAXLINES /\ cur_line \in 0 .. n - 1
               /\ Sum(line_len, n) = Len(text)
               /\ num_lines < MAXLINES => n < MAXLINES
  <1>0. MAXLINES \in Nat /\ MAXLINES > 1 BY DEF editor!EditorAssumption
  <1>1. CASE Len(text) = 0
    <2>1. editor!LinesCounted = 1 /\ num_lines = 0 /\ cur_line = 0
      BY <1>1 DEF EditorInv, editor!LinesCounted, editor!size
    <2>2. /\ Sum(line_len, 0) = 0
          /\ Sum(line_len, 0 + 1) = Sum(line_len, 0) + line_len[0]
      BY SumNext
    <2>3. line_len[0] = 0 BY <1>1 DEF EditorInv
    <2>4. Sum(line_len, 1) = 0 BY <2>2, <2>3
    <2> QED BY <1>0, <1>1, <2>1, <2>4
  <1>2. CASE Len(text) # 0
    <2>1. editor!LinesCounted = num_lines /\ cur_line < num_lines
      BY <1>2 DEF EditorInv, editor!LinesCounted, editor!size
    <2>2. /\ num_lines \in 0 .. MAXLINES /\ cur_line \in 0 .. MAXLINES - 1
          /\ Sum(line_len, num_lines) = Len(text)
      BY DEF EditorInv, EditorTypes
    <2> QED BY <1>0, <2>1, <2>2
  <1> QED BY <1>1, <1>2

\* t is s with e inserted at pos.
Inserts(t, s, pos, e) ==
    /\ Len(t) = Len(s) + 1
    /\ \A j \in 1 .. Len(t) :
          t[j] = IF j < pos THEN s[j] ELSE IF j = pos THEN e ELSE s[j - 1]

\* That is what InsertAt does.
With(s, pos, e) == SubSeq(s, 1, pos - 1) \o <<e>> \o SubSeq(s, pos, Len(s))
\* That puts e there.
LEMMA Inserted ==
    ASSUME NEW S, NEW s \in Seq(S), NEW pos \in 1 .. Len(s) + 1, NEW e \in S
    PROVE  With(s, pos, e) \in Seq(S) /\ Inserts(With(s, pos, e), s, pos, e)
  <1> DEFINE a == SubSeq(s, 1, pos - 1)
             b == SubSeq(s, pos, Len(s))
             u == a \o <<e>>
             v == u \o b
             t == With(s, pos, e)
  <1>0. t = v BY DEF With
  <1>1. /\ a \in Seq(S) /\ Len(a) = pos - 1
        /\ \A j \in 1 .. pos - 1 : a[j] = s[j]
    OBVIOUS
  <1>2. /\ b \in Seq(S) /\ Len(b) = Len(s) - pos + 1
        /\ \A j \in 1 .. Len(s) - pos + 1 : b[j] = s[j + pos - 1]
    OBVIOUS
  <1> HIDE DEF a, b
  <1>3. /\ u \in Seq(S) /\ Len(u) = pos
        /\ \A j \in 1 .. pos - 1 : u[j] = s[j]
        /\ u[pos] = e
    BY <1>1
  <1> HIDE DEF u
  <1>a. /\ v \in Seq(S) /\ Len(v) = Len(s) + 1
        /\ \A j \in 1 .. Len(v) : v[j] = IF j <= pos THEN u[j] ELSE b[j - pos]
    <2>1. /\ v \in Seq(S) /\ Len(v) = Len(u) + Len(b)
          /\ \A j \in 1 .. Len(u) + Len(b) :
                v[j] = IF j <= Len(u) THEN u[j] ELSE b[j - Len(u)]
      BY ONLY <1>2, <1>3, ConcatProperties
    <2>2. Len(u) = pos /\ Len(u) + Len(b) = Len(s) + 1
      BY ONLY <1>2, <1>3, Len(s) \in Nat, pos \in 1 .. Len(s) + 1
    <2> QED BY <2>1, <2>2, Zenon
  <1> HIDE DEF v, t
  <1>4. /\ t \in Seq(S) /\ Len(t) = Len(s) + 1
        /\ \A j \in 1 .. Len(t) : t[j] = IF j <= pos THEN u[j] ELSE b[j - pos]
    BY <1>0, <1>a, Zenon
  <1>5. ASSUME NEW j \in 1 .. Len(s) + 1, j > pos PROVE b[j - pos] = s[j - 1]
    <2>1. j - pos \in 1 .. Len(s) - pos + 1 /\ j - pos + pos - 1 = j - 1
      BY <1>5
    <2> QED BY <1>2, <2>1
  <1>6. ASSUME NEW j \in 1 .. Len(t)
        PROVE  t[j] = IF j < pos THEN s[j] ELSE IF j = pos THEN e
                      ELSE s[j - 1]
    <2>1. j \in 1 .. Len(s) + 1 BY <1>4
    <2>2. CASE j < pos BY <1>3, <1>4, <2>1, <2>2
    <2>3. CASE j = pos BY <1>3, <1>4, <2>1, <2>3
    <2>4. CASE j > pos
      <3>1. ~(j <= pos) /\ ~(j < pos) /\ j # pos BY <2>1, <2>4
      <3> QED BY <1>4, <1>5, <2>1, <2>4, <3>1, Zenon
    <2> QED BY <2>1, <2>2, <2>3, <2>4
  <1> QED BY <1>4, <1>6, Zenon DEF Inserts, t

\* A stored character makes the text longer by one, wherever index is.
LEMMA Stored ==
    ASSUME EditorInv, NEW key \in editor!Keys, editor!StoreCharacter(key)
    PROVE  /\ text' \in Seq(editor!Keys) /\ Len(text') = Len(text) + 1
           /\ index' = index + 1 /\ index' \in -1 .. Len(text')
  <1> DEFINE S == editor!Keys
  <1>0. text \in Seq(S) /\ index \in -1 .. Len(text)
    BY DEF EditorInv, EditorTypes
  <1>1. index' = index + 1 BY DEF editor!StoreCharacter
  <1> DEFINE pos == index + 1
  <1>2. CASE index >= 0 /\ text' = editor!InsertAt(text, pos, key)
    <2> HIDE DEF S, pos
    <2>1. text' = With(text, pos, key)
      BY <1>2, Zenon DEF editor!InsertAt, With
    <2>2. key \in S /\ pos \in 1 .. Len(text) + 1 BY <1>0, <1>2 DEF S, pos
    <2>3. text' \in Seq(S) /\ Inserts(text', text, pos, key)
      BY <1>0, <2>1, <2>2, Inserted, Zenon
    <2> QED BY <1>0, <1>1, <2>3 DEF S, Inserts
  <1>3. CASE \E garbage \in S : text' = <<garbage>> \o text
    <2> HIDE DEF S
    <2>1. text' \in Seq(S) /\ Len(text') = Len(text) + 1 BY <1>0, <1>3
    <2> QED BY <1>0, <1>1, <2>1 DEF S
  <1> QED BY <1>2, <1>3, Zenon DEF editor!StoreCharacter

\* With one character more in the line of the cursor.
LEMMA OneLonger ==
    ASSUME editor!EditorAssumption, EditorInv
    PROVE  LET lens == editor!Counted
           IN  /\ lens \in [0 .. MAXLINES - 1 -> Nat]
               /\ \A k \in 0 .. MAXLINES - 1 :
                     lens[k] = IF k = cur_line THEN line_len[k] + 1
                               ELSE line_len[k]
               /\ Sum(lens, editor!LinesCounted) = Len(text) + 1
  <1> DEFINE lens == editor!Counted
             n == editor!LinesCounted
  <1>1. /\ line_len \in [0 .. MAXLINES - 1 -> Nat]
        /\ cur_line \in 0 .. MAXLINES - 1
    BY DEF EditorInv, EditorTypes
  <1>2. lens = [line_len EXCEPT ![cur_line] = line_len[cur_line] + 1]
    BY Zenon DEF editor!Counted
  <1> HIDE DEF lens, n
  <1>3. /\ lens \in [0 .. MAXLINES - 1 -> Nat]
        /\ \A k \in 0 .. MAXLINES - 1 :
              lens[k] = IF k = cur_line THEN line_len[k] + 1 ELSE line_len[k]
    BY <1>1, <1>2
  <1>4. /\ n \in 1 .. MAXLINES /\ cur_line \in 0 .. n - 1
        /\ Sum(line_len, n) = Len(text)
    BY LinesThere, Zenon DEF n
  <1>5. n \in Nat /\ \A k \in 0 .. n - 1 : k \in 0 .. MAXLINES - 1
    BY <1>4, MAXLINES \in Nat DEF editor!EditorAssumption
  <1>6. \A k \in 0 .. n - 1 :
           line_len[k] \in Nat
           /\ lens[k] = IF k = cur_line THEN line_len[k] + 1 ELSE line_len[k]
    BY <1>1, <1>3, <1>5
  <1>7. Sum(lens, n) = Sum(line_len, n) + 1 BY <1>4, <1>5, <1>6, SumMore, Zenon
  <1> QED BY <1>3, <1>4, <1>7, Zenon DEF lens, n

\* With the line of the cursor in two.
LEMMA OneSplit ==
    ASSUME editor!EditorAssumption, EditorInv, num_lines < MAXLINES
    PROVE  LET lens == editor!SplitLengths
           IN  /\ lens \in [0 .. MAXLINES - 1 -> Nat]
               /\ \A k \in 0 .. cur_line - 1 : lens[k] = line_len[k]
               /\ cur_line + 1 \in 0 .. MAXLINES - 1
               /\ lens[cur_line] = index_in_cur_line + 1
               /\ lens[cur_line + 1] = line_len[cur_line] - index_in_cur_line
               /\ \A k \in cur_line + 2 .. MAXLINES - 1 :
                     lens[k] = line_len[k - 1]
               /\ Sum(lens, editor!LinesCounted + 1) = Len(text) + 1
  <1> DEFINE lens == editor!SplitLengths
             n == editor!LinesCounted
             counted == editor!Counted
             c == cur_line
             kept == index_in_cur_line + 1
  <1>1. /\ line_len \in [0 .. MAXLINES - 1 -> Nat]
        /\ c \in 0 .. MAXLINES - 1 /\ index_in_cur_line \in Int
        /\ -1 <= index_in_cur_line /\ index_in_cur_line <= line_len[c]
    BY DEF EditorInv, EditorTypes
  <1>2. DOMAIN line_len = 0 .. MAXLINES - 1 BY <1>1
  <1> DEFINE cell(k) == CASE k < c     -> line_len[k]
                          [] k = c     -> kept
                          [] k = c + 1 -> counted[c] - kept
                          [] OTHER     -> line_len[k - 1]
  <1>3. lens = [k \in 0 .. MAXLINES - 1 |-> cell(k)]
    BY <1>2, Zenon DEF editor!SplitLengths
  <1>4. counted[c] = line_len[c] + 1
    BY <1>1, OneLonger, Zenon
  <1> HIDE DEF lens, n, counted
  <1>5. /\ n \in 1 .. MAXLINES /\ c \in 0 .. n - 1 /\ n < MAXLINES
        /\ Sum(line_len, n) = Len(text)
    BY LinesThere, Zenon DEF n
  <1>6. MAXLINES \in Nat BY DEF editor!EditorAssumption
  <1>7. /\ \A k \in 0 .. c - 1 : lens[k] = line_len[k]
        /\ lens[c] = kept
        /\ lens[c + 1] = counted[c] - kept
        /\ \A k \in c + 2 .. MAXLINES - 1 : lens[k] = line_len[k - 1]
    <2>1. ASSUME NEW k \in 0 .. c - 1 PROVE lens[k] = line_len[k]
      <3>1. k < c /\ k # c /\ k # c + 1 /\ k \in 0 .. MAXLINES - 1
        BY <1>1, <1>6
      <3> QED BY <1>3, <3>1, Zenon
    <2>2. lens[c] = kept
      <3>1. ~(c < c) /\ c # c + 1 /\ c \in 0 .. MAXLINES - 1 BY <1>1, <1>6
      <3> QED BY <1>3, <3>1, Zenon
    <2>3. lens[c + 1] = counted[c] - kept
      <3> DEFINE k == c + 1
      <3>1. k \in 0 .. MAXLINES - 1 /\ ~(k < c) /\ k # c /\ k = c + 1
        BY <1>1, <1>5, <1>6
      <3> HIDE DEF k, kept
      <3>2. lens[k] = counted[c] - kept BY <1>3, <3>1, Zenon
      <3> HIDE DEF cell
      <3> QED BY ONLY <3>1, <3>2
    <2>4. ASSUME NEW k \in c + 2 .. MAXLINES - 1
          PROVE  lens[k] = line_len[k - 1]
      <3>1. /\ k \in 0 .. MAXLINES - 1 /\ ~(k < c) /\ k # c /\ k # c + 1
        BY <1>1, <1>6
      <3> QED BY <1>3, <3>1, Zenon
    <2> QED BY <2>1, <2>2, <2>3, <2>4
  <1>8. lens \in [0 .. MAXLINES - 1 -> Nat]
    <2>1. ASSUME NEW k \in 0 .. MAXLINES - 1 PROVE lens[k] \in Nat
      <3>1. \/ k \in 0 .. c - 1 \/ k = c \/ k = c + 1
            \/ k \in c + 2 .. MAXLINES - 1 /\ k - 1 \in 0 .. MAXLINES - 1
        BY <1>1, <1>6
      <3> QED BY <1>1, <1>4, <1>7, <3>1
    <2> HIDE DEF cell
    <2>2. \A k \in 0 .. MAXLINES - 1 : cell(k) \in Nat BY <1>3, <2>1, Zenon
    <2> QED BY <1>3, <2>2
  <1>9. /\ n \in Nat /\ \A k \in 0 .. n - 1 : line_len[k] \in Nat
        /\ lens[c] \in Int /\ c + 1 \in 0 .. MAXLINES - 1
        /\ \A k \in c + 2 .. n : lens[k] = line_len[k - 1]
    BY <1>1, <1>5, <1>6, <1>7
  <1>10. lens[c + 1] = line_len[c] + 1 - lens[c] BY <1>1, <1>4, <1>7
  <1>11. Sum(lens, n + 1) = Sum(line_len, n) + 1
    <2> HIDE DEF c, kept
    <2> QED BY <1>5, <1>7, <1>9, <1>10, SumSplit, Zenon
  <1>12. lens[c + 1] = line_len[c] - index_in_cur_line
    BY <1>1, <1>4, <1>7
  <1> QED BY <1>5, <1>7, <1>8, <1>9, <1>11, <1>12, Zenon DEF lens, n

\* Every step keeps it.
LEMMA EditorKept ==
    ASSUME editor!EditorAssumption, EditorInv,
           [editor!Next]_(editor!editorVars)
    PROVE  EditorInv'
  <1> DEFINE Same == UNCHANGED <<text, index, line_len, num_lines, cur_line,
                                 index_in_cur_line>>
  <1>a. ASSUME Same PROVE EditorInv'
    <2>1. Sum(line_len, num_lines)' = Sum(line_len, num_lines)
      BY <1>a, Zenon DEF Sum
    <2> QED BY <1>a, <2>1 DEF EditorInv, EditorTypes
  <1>b. ASSUME UNCHANGED <<text, index, line_len, num_lines>>,
               cur_line' \in 0 .. num_lines - 1, Len(text) # 0,
               index_in_cur_line' \in -1 .. line_len[cur_line']
        PROVE  EditorInv'
    <2>1. Sum(line_len, num_lines)' = Sum(line_len, num_lines)
      BY <1>b, Zenon DEF Sum
    <2> QED
      BY <1>b, <2>1, MAXLINES \in Nat
         DEF EditorInv, EditorTypes, editor!EditorAssumption
  <1>0. MAXLINES \in Nat /\ MAXLINES > 1 BY DEF editor!EditorAssumption
  <1>t. EditorTypes BY DEF EditorInv
  <1>1. CASE UNCHANGED editor!editorVars
    BY <1>1, <1>a DEF editor!editorVars, editor!bufferVars, editor!lineVars
  <1>2. ASSUME NEW key \in editor!Keys, editor!Refuse(key) PROVE EditorInv'
    BY <1>2, <1>a DEF editor!Refuse, editor!bufferVars, editor!lineVars
  <1>3. ASSUME NEW key \in editor!Keys, editor!InsertShown(key)
        PROVE  EditorInv'
    <2> DEFINE n == editor!LinesCounted
    <2>1. /\ text' \in Seq(editor!Keys) /\ Len(text') = Len(text) + 1
          /\ index' \in -1 .. Len(text')
      BY <1>3, Stored, Zenon DEF editor!InsertShown
    <2>2. /\ n \in 1 .. MAXLINES /\ cur_line \in 0 .. n - 1
          /\ num_lines < MAXLINES => n < MAXLINES
      BY LinesThere, Zenon
    <2> HIDE DEF n
    <2>3. CASE key = editor!Newline /\ editor!SplitLine
      <3>1. /\ num_lines' = n + 1 /\ line_len' = editor!SplitLengths
            /\ cur_line' = cur_line + 1 /\ index_in_cur_line' = 0
        BY <2>3, Zenon DEF editor!SplitLine, n
      <3>2. num_lines < MAXLINES
        <4>1. num_lines # MAXLINES
          BY <1>3, <2>3, Zenon DEF editor!InsertShown, editor!TooMany
        <4> QED BY <4>1, <1>t, <1>0 DEF EditorTypes
      <3>3. /\ line_len' \in [0 .. MAXLINES - 1 -> Nat]
            /\ cur_line + 1 \in 0 .. MAXLINES - 1
            /\ Sum(line_len', n + 1) = Len(text) + 1
        BY <3>1, <3>2, OneSplit, Zenon DEF n
      <3>4. Sum(line_len, num_lines)' = Len(text')
        BY <2>1, <3>1, <3>3, Zenon DEF Sum
      <3>5. EditorTypes'
        <4>1. /\ num_lines' \in 0 .. MAXLINES /\ cur_line' \in 0 .. MAXLINES - 1
              /\ index_in_cur_line' \in Int
          BY <1>0, <2>2, <3>1, <3>2, <3>3
        <4> QED BY <2>1, <3>3, <4>1 DEF EditorTypes
      <3>6. line_len'[cur_line'] \in Nat BY <3>1, <3>3
      <3>7. Len(text') # 0 /\ cur_line' < num_lines'
        BY <1>t, <2>1, <2>2, <3>1 DEF EditorTypes
      <3> QED BY <3>1, <3>4, <3>5, <3>6, <3>7 DEF EditorInv
    <2>4. CASE editor!LengthenLine
      <3>1. /\ num_lines' = n /\ line_len' = editor!Counted
            /\ cur_line' = cur_line
            /\ index_in_cur_line' = index_in_cur_line + 1
        BY <2>4, Zenon DEF editor!LengthenLine, n
      <3>2. /\ line_len' \in [0 .. MAXLINES - 1 -> Nat]
            /\ line_len'[cur_line] = line_len[cur_line] + 1
            /\ Sum(line_len', n) = Len(text) + 1
        BY <1>t, <3>1, OneLonger, Zenon DEF n, EditorTypes
      <3>3. Sum(line_len, num_lines)' = Len(text')
        BY <2>1, <3>1, <3>2, Zenon DEF Sum
      <3>4. EditorTypes'
        <4>1. /\ num_lines' \in 0 .. MAXLINES /\ cur_line' \in 0 .. MAXLINES - 1
              /\ index_in_cur_line' \in Int
          BY <1>t, <1>0, <2>2, <3>1 DEF EditorTypes
        <4> QED BY <2>1, <3>2, <4>1 DEF EditorTypes
      <3> QED
        BY <1>t, <2>1, <2>2, <3>1, <3>2, <3>3, <3>4 DEF EditorInv, EditorTypes
    <2> QED BY <1>3, <2>3, <2>4, Zenon DEF editor!InsertShown
  <1>4. CASE editor!InsertControl
    <2> DEFINE n == editor!LinesCounted
    <2>1. /\ text' \in Seq(editor!Keys) /\ Len(text') = Len(text) + 1
          /\ index' \in -1 .. Len(text')
      <3>1. editor!Control \in editor!Keys BY DEF editor!Keys
      <3> QED BY <1>4, <3>1, Stored, Zenon DEF editor!InsertControl
    <2>2. n \in 1 .. MAXLINES /\ cur_line \in 0 .. n - 1
      BY LinesThere, Zenon
    <2> HIDE DEF n
    <2>3. /\ num_lines' = n /\ line_len' = editor!Counted
          /\ cur_line' = cur_line /\ index_in_cur_line' = index_in_cur_line
      BY <1>4, Zenon DEF editor!InsertControl, n, editor!lineVars
    <2>4. /\ line_len' \in [0 .. MAXLINES - 1 -> Nat]
          /\ line_len'[cur_line] = line_len[cur_line] + 1
          /\ Sum(line_len', n) = Len(text) + 1
      BY <1>t, <2>3, OneLonger, Zenon DEF n, EditorTypes
    <2>5. Sum(line_len, num_lines)' = Len(text')
      BY <2>1, <2>3, <2>4, Zenon DEF Sum
    <2>6. EditorTypes'
      <3>1. /\ num_lines' \in 0 .. MAXLINES /\ cur_line' \in 0 .. MAXLINES - 1
            /\ index_in_cur_line' \in Int
        BY <1>t, <1>0, <2>2, <2>3 DEF EditorTypes
      <3> QED BY <2>1, <2>4, <3>1 DEF EditorTypes
    <2> QED
      BY <1>t, <2>1, <2>2, <2>3, <2>4, <2>5, <2>6 DEF EditorInv, EditorTypes
  <1>5. CASE editor!IgnoreErase \/ editor!Ignore \/ editor!Ended
    BY <1>5, <1>a
       DEF editor!IgnoreErase, editor!Ignore, editor!Ended, editor!editorVars,
           editor!bufferVars, editor!lineVars
  <1>6. CASE editor!LeaveInput
    BY <1>6, <1>a DEF editor!LeaveInput, editor!bufferVars, editor!lineVars
  <1>7. CASE editor!EnterInput
    <2>1. index' = Sum(line_len, cur_line) + index_in_cur_line
      BY <1>7, Before, Zenon DEF editor!EnterInput
    <2>2. UNCHANGED <<text, line_len, num_lines, cur_line, index_in_cur_line>>
      BY <1>7, Zenon DEF editor!EnterInput, editor!lineVars
    <2>3. index' \in -1 .. Len(text)
      <3>1. CASE Len(text) = 0
        <4>1. Sum(line_len, 0) = 0 BY SumNext
        <4> QED BY <2>1, <3>1, <4>1 DEF EditorInv
      <3>2. CASE Len(text) # 0
        <4>1. /\ cur_line \in Nat /\ num_lines \in Nat /\ cur_line < num_lines
              /\ \A k \in 0 .. num_lines - 1 : line_len[k] \in Nat
          BY <1>0, <1>t, <3>2 DEF EditorInv, EditorTypes
        <4>2. cur_line <= num_lines BY <4>1
        <4>3. /\ Sum(line_len, cur_line) \in Nat
              /\ Sum(line_len, cur_line) + line_len[cur_line]
                    <= Sum(line_len, num_lines)
          BY <4>1, <4>2, SumGrows, Zenon
        <4>4. line_len[cur_line] \in Nat BY <4>1
        <4> QED BY <1>t, <2>1, <3>2, <4>3, <4>4 DEF EditorInv, EditorTypes
      <3> QED BY <3>1, <3>2
    <2>4. Sum(line_len, num_lines)' = Sum(line_len, num_lines)
      BY <2>2, Zenon DEF Sum
    <2> QED BY <2>2, <2>3, <2>4 DEF EditorInv, EditorTypes
  <1>8. ASSUME NEW line \in Outcomes, editor!CommandLine(line)
        PROVE  EditorInv'
    BY <1>8, <1>a DEF editor!CommandLine, editor!bufferVars, editor!lineVars
  <1>9. CASE editor!CommandErased
    BY <1>9, <1>a DEF editor!CommandErased, editor!bufferVars, editor!lineVars
  <1>g. ASSUME NEW line \in 0 .. num_lines - 1, NEW top,
               editor!GoTo(line, editor!IndexIn(line), top)
        PROVE  EditorInv'
    <2>1. /\ cur_line' = line /\ index_in_cur_line' = editor!IndexIn(line)
          /\ UNCHANGED <<text, index, line_len, num_lines>>
      BY <1>g, Zenon DEF editor!GoTo, editor!bufferVars
    <2>2. line_len[line] \in Nat
      BY <1>0, <1>t DEF EditorTypes
    <2>3. editor!IndexIn(line) \in -1 .. line_len[line]
      BY <1>t, <2>2 DEF editor!IndexIn, EditorInv, EditorTypes
    <2>4. Len(text) # 0
      BY <1>t DEF EditorInv, EditorTypes
    <2> QED BY <1>b, <2>1, <2>3, <2>4
  <1>10. CASE editor!move_up
    <2>1. cur_line - 1 \in 0 .. num_lines - 1
      BY <1>10, <1>t DEF editor!move_up, EditorInv, EditorTypes
    <2> QED BY <1>10, <1>g, <2>1, Zenon DEF editor!move_up
  <1>11. CASE editor!move_down
    <2>1. cur_line + 1 \in 0 .. num_lines - 1
      BY <1>11, <1>t DEF editor!move_down, EditorTypes
    <2> QED BY <1>11, <1>g, <2>1, Zenon DEF editor!move_down
  <1>12. CASE editor!move_right
    <2>1. /\ index_in_cur_line' = index_in_cur_line + 1
          /\ UNCHANGED <<text, index, line_len, num_lines, cur_line>>
          /\ \/ index_in_cur_line < line_len[cur_line] - 1
             \/ index_in_cur_line < line_len[cur_line]
      BY <1>12, Zenon
         DEF editor!move_right, editor!MayMoveRight, editor!bufferVars
    <2>2. line_len[cur_line] \in Nat BY <1>t DEF EditorTypes
    <2>3. Len(text) # 0 /\ cur_line \in 0 .. num_lines - 1
      BY <1>t, <2>1, <2>2 DEF EditorInv, EditorTypes
    <2>4. index_in_cur_line' \in -1 .. line_len[cur_line']
      BY <1>t, <2>1, <2>2 DEF EditorInv, EditorTypes
    <2> QED BY <1>b, <2>1, <2>3, <2>4
  <1>13. CASE editor!move_left
    <2>1. /\ index_in_cur_line' = index_in_cur_line - 1
          /\ index_in_cur_line > 0
          /\ UNCHANGED <<text, index, line_len, num_lines, cur_line>>
      BY <1>13, Zenon DEF editor!move_left, editor!bufferVars
    <2>2. line_len[cur_line] \in Nat BY <1>t DEF EditorTypes
    <2>3. Len(text) # 0 /\ cur_line \in 0 .. num_lines - 1
      BY <1>t, <2>1, <2>2 DEF EditorInv, EditorTypes
    <2>4. index_in_cur_line' \in -1 .. line_len[cur_line']
      BY <1>t, <2>1, <2>2 DEF EditorInv, EditorTypes
    <2> QED BY <1>b, <2>1, <2>3, <2>4
  <1> QED
    BY <1>1, <1>2, <1>3, <1>4, <1>5, <1>6, <1>7, <1>8, <1>9, <1>10, <1>11,
       <1>12, <1>13, Zenon
       DEF editor!Next

-----------------------------------------------------------------------------
(* The cursor on the screen *)

\* The rows that lines first and on take.
Heights(lens, first) == [k \in Nat |-> editor!ScreenRows(lens[first + k])]

\* f has the rows of lines first .. last, added one by one.
Stacks(f, lens, first, last) ==
    f = [x \in first - 1 .. last |->
           IF x < first THEN 0 ELSE f[x - 1] + editor!ScreenRows(lens[x])]

\* Rows are added up as lengths are.
LEMMA Stacked ==
    ASSUME NEW lens, NEW first \in Nat, NEW last \in Int, first <= last
    PROVE  editor!RowsOf(lens, first, last)
              = Sum(Heights(lens, first), last - first + 1)
  <1> DEFINE v == Heights(lens, first)
             n == last - first + 1
  <1>0. n \in Nat /\ ~(last < first) OBVIOUS
  <1> HIDE DEF v
  <1>1. PICK g : Adds(g, v, n) /\ \A k \in 0 .. n : Sum(v, k) = g[k]
    <2> HIDE DEF n
    <2> QED BY <1>0, SumIs, Zenon
  <1>2. /\ g[0] = 0
        /\ \A k \in 0 .. n - 1 : g[k + 1] = g[k] + v[k]
    <2> HIDE DEF n
    <2> QED BY <1>0, <1>1, AddsNext, Zenon
  <1>3. \A k \in Nat : v[k] = editor!ScreenRows(lens[first + k])
    BY Zenon DEF v, Heights
  <1> DEFINE h == [x \in first - 1 .. last |-> g[x - first + 1]]
  <1>4. Stacks(h, lens, first, last)
    <2>1. ASSUME NEW x \in first - 1 .. last
          PROVE  h[x] = IF x < first THEN 0
                        ELSE h[x - 1] + editor!ScreenRows(lens[x])
      <3>1. CASE x < first
        <4>1. x - first + 1 = 0 BY <3>1
        <4>2. h[x] = g[0] BY <4>1
        <4> QED BY <1>2, <3>1, <4>2, Zenon
      <3>2. CASE ~(x < first)
        <4> DEFINE k == x - first
        <4>1. /\ k \in 0 .. n - 1 /\ k \in Nat /\ x - 1 \in first - 1 .. last
              /\ first + k = x /\ x - 1 - first + 1 = k
          BY <3>2
        <4>2. h[x] = g[k + 1] /\ h[x - 1] = g[k] BY <4>1
        <4> HIDE DEF k, n, h
        <4>3. v[k] = editor!ScreenRows(lens[x]) BY <1>3, <4>1, Zenon
        <4>4. g[k + 1] = g[k] + v[k] BY <1>2, <4>1, Zenon
        <4> QED BY <3>2, <4>2, <4>3, <4>4, Zenon
      <3> QED BY <3>1, <3>2, Zenon
    <2> QED BY <2>1, Zenon DEF Stacks
  <1> DEFINE f == CHOOSE f : Stacks(f, lens, first, last)
  <1> HIDE DEF h
  <1>5. Stacks(f, lens, first, last) BY <1>4, Zenon
  <1>6. editor!RowsOf(lens, first, last) = f[last]
    BY <1>0, Zenon DEF editor!RowsOf, Stacks
  <1> HIDE DEF f
  <1>7. \A x \in first - 1 .. last :
           f[x] = IF x < first THEN 0
                  ELSE f[x - 1] + editor!ScreenRows(lens[x])
    BY <1>5, Zenon DEF Stacks
  <1> DEFINE T == {k \in 0 .. n : f[k + first - 1] = g[k]}
  <1>8. 0 \in T
    <2>1. first - 1 \in first - 1 .. last /\ first - 1 < first
          /\ 0 + first - 1 = first - 1
      OBVIOUS
    <2>2. f[first - 1] = 0 BY <1>7, <2>1, Zenon
    <2>3. f[0 + first - 1] = g[0] BY <1>2, <2>1, <2>2
    <2> QED BY <1>0, <2>3
  <1>9. ASSUME NEW k \in 0 .. n - 1, k \in T PROVE k + 1 \in T
    <2> DEFINE x == k + first
    <2>1. /\ x \in first - 1 .. last /\ ~(x < first) /\ k \in Nat
          /\ x - 1 = k + first - 1 /\ first + k = x
          /\ k + 1 + first - 1 = x /\ k + 1 \in 0 .. n
      OBVIOUS
    <2>2. f[k + first - 1] = g[k] BY <1>9
    <2> HIDE DEF x, n, T
    <2>3. f[x] = f[x - 1] + editor!ScreenRows(lens[x])
      BY <1>7, <2>1, Zenon
    <2>4. v[k] = editor!ScreenRows(lens[x]) BY <1>3, <2>1, Zenon
    <2>5. g[k + 1] = g[k] + v[k] BY <1>2, Zenon
    <2>6. f[x - 1] = g[k] BY <2>1, <2>2
    <2>7. f[x] = g[k + 1] BY <2>3, <2>4, <2>5, <2>6, Zenon
    <2>8. f[k + 1 + first - 1] = g[k + 1] BY <2>1, <2>7
    <2> QED BY <2>1, <2>8 DEF T
  <1> HIDE DEF T
  <1>10. 0 .. n \subseteq T
    <2> HIDE DEF n
    <2> QED BY <1>0, <1>8, <1>9, UpTo
  <1>11. n \in T BY <1>0, <1>10
  <1>12. f[n + first - 1] = g[n] BY <1>11 DEF T
  <1>13. n + first - 1 = last OBVIOUS
  <1>14. f[last] = g[n] BY <1>12, <1>13
  <1>15. n \in 0 .. n BY <1>0
  <1> HIDE DEF n
  <1> QED BY <1>1, <1>6, <1>14, <1>15, Zenon DEF v, n

\* Rows of one line more.
LEMMA RowsNext ==
    ASSUME NEW lens, NEW first \in Nat, NEW last \in Int, first <= last
    PROVE  editor!RowsOf(lens, first, last)
              = editor!RowsOf(lens, first, last - 1)
                    + editor!ScreenRows(lens[last])
  <1> DEFINE v == Heights(lens, first)
             n == last - first
  <1>0. n \in Nat /\ n + 1 = last - first + 1 /\ first + n = last OBVIOUS
  <1>1. Sum(v, 0) = 0 /\ Sum(v, n + 1) = Sum(v, n) + v[n] BY <1>0, SumNext
  <1>2. v[n] = editor!ScreenRows(lens[last])
    <2> HIDE DEF n
    <2> QED BY <1>0, Zenon DEF Heights
  <1>3. editor!RowsOf(lens, first, last) = Sum(v, n + 1)
    <2>1. editor!RowsOf(lens, first, last) = Sum(v, last - first + 1)
      BY Stacked
    <2> QED BY <1>0, <2>1
  <1>4. editor!RowsOf(lens, first, last - 1) = Sum(v, n)
    <2>1. CASE first <= last - 1
      <3>1. last - 1 \in Int /\ last - 1 - first + 1 = n OBVIOUS
      <3>2. editor!RowsOf(lens, first, last - 1) = Sum(v, last - 1 - first + 1)
        BY <2>1, <3>1, Stacked
      <3> QED BY <3>1, <3>2
    <2>2. CASE first = last
      <3>1. last - 1 < first /\ n = 0 BY <2>2
      <3>2. editor!RowsOf(lens, first, last - 1) = 0
        BY <3>1, Zenon DEF editor!RowsOf
      <3> QED BY <1>1, <3>1, <3>2
    <2> QED BY <2>1, <2>2
  <1> HIDE DEF v, n
  <1> QED BY <1>1, <1>2, <1>3, <1>4

\* The height of a line.
LEMMA HeightsNat ==
    ASSUME editor!EditorAssumption, NEW len \in Nat
    PROVE  editor!ScreenRows(len) \in Nat
  <1>1. cols \in Nat /\ cols > 0 BY DEF editor!EditorAssumption
  <1>2. len + cols - 1 \in Nat BY <1>1
  <1>3. (len + cols - 1) \div cols \in Nat BY <1>1, <1>2
  <1> QED BY <1>3 DEF editor!ScreenRows

\* Rows are numbers, and depend on the lines that they are of.
LEMMA RowsNat ==
    ASSUME editor!EditorAssumption, NEW lens, NEW first \in Nat,
           NEW last \in Int,
           \A k \in first .. last : lens[k] \in Nat
    PROVE  editor!RowsOf(lens, first, last) \in Nat
  <1>1. CASE last < first
    BY <1>1, Zenon DEF editor!RowsOf
  <1>2. CASE first <= last
    <2> DEFINE v == Heights(lens, first)
               n == last - first + 1
    <2>1. n \in Nat BY <1>2
    <2>2. ASSUME NEW k \in 0 .. n - 1 PROVE v[k] \in Nat
      <3>1. first + k \in first .. last /\ k \in Nat OBVIOUS
      <3>2. editor!ScreenRows(lens[first + k]) \in Nat BY <3>1, HeightsNat
      <3> QED BY <3>1, <3>2, Zenon DEF Heights
    <2> HIDE DEF v, n
    <2>3. n <= n BY <2>1
    <2>4. Sum(v, n) \in Nat BY <2>1, <2>2, <2>3, SumGrows, Zenon
    <2> QED BY <1>2, <2>4, Stacked, Zenon DEF v, n
  <1> QED BY <1>1, <1>2

\* Equal lines take equal rows.
LEMMA RowsSame ==
    ASSUME NEW lens, NEW other, NEW first \in Nat, NEW last \in Int,
           \A k \in first .. last : lens[k] = other[k]
    PROVE  editor!RowsOf(lens, first, last) = editor!RowsOf(other, first, last)
  <1>1. CASE last < first
    BY <1>1, Zenon DEF editor!RowsOf
  <1>2. CASE first <= last
    <2> DEFINE v == Heights(lens, first)
               w == Heights(other, first)
               n == last - first + 1
    <2>1. n \in Nat BY <1>2
    <2>2. ASSUME NEW k \in 0 .. n - 1 PROVE v[k] = w[k]
      <3>1. first + k \in first .. last /\ k \in Nat OBVIOUS
      <3>2. lens[first + k] = other[first + k] BY <3>1
      <3> QED BY <3>1, <3>2, Zenon DEF Heights
    <2> HIDE DEF v, w, n
    <2>3. Sum(v, n) = Sum(w, n) BY <2>1, <2>2, SumSame, Zenon
    <2> QED BY <1>2, <2>3, Stacked, Zenon DEF v, w, n
  <1> QED BY <1>1, <1>2

\* A division has one quotient and one remainder.
LEMMA DivUnique ==
    ASSUME NEW a \in Nat, NEW b \in Nat, b > 0, NEW q \in Int,
           NEW r \in 0 .. b - 1, a = q * b + r
    PROVE a \div b = q /\ a % b = r
  <1> DEFINE p == a \div b
  <1>1. p \in Int /\ p * b <= a /\ a < p * b + b /\ a % b = a - p * b OBVIOUS
  <1> HIDE DEF p
  <1>2. ASSUME p < q PROVE FALSE
    <2>1. (p + 1) * b = p * b + b BY <1>1
    <2>2. (p + 1) * b <= q * b
      <3>1. q - (p + 1) \in Nat BY <1>1, <1>2
      <3>2. (q - (p + 1)) * b >= 0 BY <3>1
      <3>3. (q - (p + 1)) * b = q * b - (p + 1) * b BY <1>1
      <3> QED BY <1>1, <3>2, <3>3
    <2> QED BY <1>1, <2>1, <2>2
  <1>3. ASSUME q < p PROVE FALSE
    <2>1. (q + 1) * b = q * b + b OBVIOUS
    <2>2. (q + 1) * b <= p * b
      <3>1. p - (q + 1) \in Nat BY <1>1, <1>3
      <3>2. (p - (q + 1)) * b >= 0 BY <3>1
      <3>3. (p - (q + 1)) * b = p * b - (q + 1) * b BY <1>1
      <3> QED BY <1>1, <3>2, <3>3
    <2> QED BY <1>1, <2>1, <2>2
  <1> QED BY <1>1, <1>2, <1>3 DEF p

\* The place of one character more.
LEMMA OneRight ==
    ASSUME NEW idx \in Nat, NEW width \in Nat, width > 1
    PROVE  LET q == idx \div width
               c == idx - q * width
           IN  /\ q \in Nat /\ c \in 0 .. width - 1
               /\ c + 1 = width => /\ (idx + 1) \div width = q + 1
                                   /\ (idx + 1) % width = 0
                                   /\ (q + 1) * width = idx + 1
               /\ c + 1 # width => /\ (idx + 1) \div width = q
                                   /\ (idx + 1) % width = c + 1
  <1> DEFINE q == idx \div width
             c == idx - q * width
  <1>1. q \in Nat /\ q * width <= idx /\ idx < q * width + width OBVIOUS
  <1> HIDE DEF q
  <1>2. q * width \in Int /\ (q + 1) * width = q * width + width BY <1>1
  <1>3. c \in 0 .. width - 1 BY <1>1, <1>2
  <1>4. CASE c + 1 = width
    <2>1. (q + 1) * width = idx + 1 BY <1>1, <1>2, <1>4
    <2>2. /\ idx + 1 \in Nat /\ q + 1 \in Int /\ 0 \in 0 .. width - 1
          /\ idx + 1 = (q + 1) * width + 0
      BY <1>1, <2>1
    <2>3. (idx + 1) \div width = q + 1 /\ (idx + 1) % width = 0
      BY <2>2, DivUnique
    <2> QED BY <1>1, <1>3, <1>4, <2>1, <2>3 DEF q
  <1>5. CASE c + 1 # width
    <2>1. /\ idx + 1 \in Nat /\ q \in Int /\ c + 1 \in 0 .. width - 1
          /\ idx + 1 = q * width + (c + 1)
      BY <1>1, <1>2, <1>3, <1>5
    <2>2. (idx + 1) \div width = q /\ (idx + 1) % width = c + 1
      BY <2>1, DivUnique
    <2> QED BY <1>1, <1>3, <1>5, <2>2 DEF q
  <1> QED BY <1>4, <1>5 DEF q

\* A least member is one.
LEMMA MinIs ==
    ASSUME NEW T \in SUBSET Nat, T # {}
    PROVE  editor!Min(T) \in T
  <1>1. \E x \in T : \A y \in T : x <= y BY Least
  <1> QED BY <1>1, Zenon DEF editor!Min

\* The greater of two.
LEMMA MaxIs ==
    ASSUME NEW a \in Int, NEW b \in Int
    PROVE  editor!Max({a, b}) = IF a >= b THEN a ELSE b
  BY DEF editor!Max

\* The smaller of two.
LEMMA MinOfTwo ==
    ASSUME NEW a \in Int, NEW b \in Int
    PROVE  editor!Min({a, b}) = IF a <= b THEN a ELSE b
  BY DEF editor!Min

\* The window and the cursor on the screen have their types, and the first
\* line starts where the text does.
ViewInv ==
    /\ DOMAIN line_start = 0 .. MAXLINES - 1 /\ line_start[0] = 0
    /\ line_at_top \in Nat /\ curs \in [r : Int, c : Int]

\* simplevi starts with its cursor on the screen.
LEMMA ViewInit == editor!EditorAssumption /\ editor!Init => ViewInv
  <1> SUFFICES ASSUME editor!EditorAssumption, editor!Init PROVE ViewInv
    OBVIOUS
  <1>1. /\ line_start = [k \in 0 .. MAXLINES - 1 |-> 0]
        /\ line_at_top = 0 /\ curs = [r |-> 0, c |-> 0]
        /\ MAXLINES \in Nat /\ MAXLINES > 0
    BY DEF editor!Init, editor!EditorAssumption
  <1>2. curs \in [r : Int, c : Int] BY <1>1
  <1> QED BY <1>1, <1>2 DEF ViewInv

\* The last line in the window is some line.
LEMMA LastlineInt ==
    ASSUME NEW lens, NEW lines \in Nat, NEW top \in Nat
    PROVE  editor!get_lastline_in_win(lens, lines, top) \in Int
  <1> DEFINE over == {k \in top .. lines - 1 :
                        editor!RowsOf(lens, top, k) > rows - 1}
  <1>1. over \in SUBSET Nat OBVIOUS
  <1> HIDE DEF over
  <1>2. CASE over # {}
    <2>1. editor!get_lastline_in_win(lens, lines, top) = editor!Min(over) - 1
      BY <1>2, Zenon DEF editor!get_lastline_in_win, over
    <2>2. editor!Min(over) \in Nat BY <1>1, <1>2, MinIs
    <2> QED BY <2>1, <2>2
  <1>3. CASE over = {}
    <2>1. editor!get_lastline_in_win(lens, lines, top)
             = editor!Max({top, lines}) - 1
      BY <1>3, Zenon DEF editor!get_lastline_in_win, over
    <2>2. editor!Max({top, lines}) \in Int BY MaxIs
    <2> QED BY <2>1, <2>2
  <1> QED BY <1>2, <1>3

\* A place in the text is in some line of the table.
LEMMA LineNat ==
    ASSUME NEW txt, NEW starts, NEW lines \in Nat, NEW pos \in Nat,
           lines > 0, starts[0] = 0,
           NEW line \in editor!line_in_buffer(txt, starts, lines, pos)
    PROVE  line \in Nat
  <1> DEFINE beyond == {k \in 0 .. lines - 1 : starts[k] > pos}
             l == IF beyond = {} THEN lines ELSE editor!Min(beyond)
  <1>1. beyond \in SUBSET Nat /\ 0 \notin beyond OBVIOUS
  <1> HIDE DEF beyond
  <1>2. l \in Nat /\ l > 0
    <2>1. CASE beyond = {} BY <2>1
    <2>2. CASE beyond # {}
      <3>1. editor!Min(beyond) \in beyond BY <1>1, <2>2, MinIs
      <3>2. editor!Min(beyond) \in Nat /\ editor!Min(beyond) # 0
        BY <1>1, <3>1, Zenon
      <3>3. l = editor!Min(beyond) BY <2>2, Zenon
      <3> HIDE DEF l
      <3> QED BY <3>2, <3>3
    <2> QED BY <2>1, <2>2
  <1>3. line = l - 1 \/ line = l
    BY Zenon DEF editor!line_in_buffer, beyond
  <1> HIDE DEF l
  <1> QED BY <1>2, <1>3

\* After an insertion the window starts at a line, and the cursor on the
\* screen is where it was moved to, unless the window has scrolled.
LEMMA Redrawn ==
    ASSUME NEW at0 \in [r : Int, c : Int], line_at_top \in Nat,
           num_lines' \in Nat, num_lines' > 0, line_start'[0] = 0,
           index' \in Nat, editor!redraw_buffer(at0)
    PROVE  /\ line_at_top' \in Nat /\ curs' \in [r : Int, c : Int]
           /\ line_at_top' = line_at_top => curs' = at0
  <1> DEFINE lastline0 == editor!get_lastline_in_win(line_len', num_lines',
                                                     line_at_top)
             by(line) == IF line < line_at_top THEN line - line_at_top
                         ELSE IF line > lastline0 THEN line - lastline0 ELSE 0
  <1>1. PICK line \in editor!line_in_buffer(text', line_start', num_lines',
                                            index') :
           /\ line_at_top' = line_at_top + by(line)
           /\ curs' = [at0 EXCEPT !.r = at0.r - by(line)]
    BY Zenon DEF editor!redraw_buffer
  <1>2. line \in Nat BY LineNat
  <1>3. lastline0 \in Int BY LastlineInt
  <1> HIDE DEF lastline0
  <1>4. by(line) \in Int /\ line_at_top + by(line) \in Nat
    BY <1>2, <1>3
  <1> DEFINE b == by(line)
  <1> HIDE DEF by, b
  <1>5. /\ line_at_top' = line_at_top + b /\ b \in Int
        /\ curs' = [at0 EXCEPT !.r = at0.r - b] /\ line_at_top + b \in Nat
    BY <1>1, <1>4 DEF b
  <1>6. curs' \in [r : Int, c : Int] BY <1>5
  <1>7. line_at_top' = line_at_top => b = 0 BY <1>5
  <1>8. b = 0 => curs' = at0 BY <1>5
  <1> QED BY <1>5, <1>6, <1>7, <1>8

\* advance_cursor moves the cursor somewhere.
LEMMA Advanced ==
    ASSUME curs \in [r : Int, c : Int], NEW key
    PROVE  editor!advance_cursor(key) \in [r : Int, c : Int]
  BY DEF editor!advance_cursor

\* The cursor below so many rows, at a character of its line.
Place(above, idx) ==
    [r |-> above + idx \div cols, c |-> idx - (idx \div cols) * cols]

\* get_cursor_at is Place.
LEMMA Placed ==
    ASSUME NEW lens, NEW top, NEW idx \in Nat, NEW line
    PROVE  editor!get_cursor_at(lens, top, idx, line)
              = Place(editor!RowsOf(lens, top, line - 1), idx)
  <1>1. ~(idx < 0) OBVIOUS
  <1> QED BY <1>1, Zenon DEF editor!get_cursor_at, Place

\* One character to the right of it.
LEMMA PlaceRight ==
    ASSUME editor!EditorAssumption, NEW above \in Int, NEW idx \in Nat
    PROVE  LET p == Place(above, idx)
           IN  /\ p.r \in Int /\ p.c \in 0 .. cols - 1
               /\ Place(above, idx + 1) = IF p.c + 1 = cols
                                          THEN [r |-> p.r + 1, c |-> 0]
                                          ELSE [r |-> p.r, c |-> p.c + 1]
               /\ (idx + 1) % cols = 0 <=> p.c + 1 = cols
               /\ p = [r |-> p.r, c |-> p.c]
  <1> DEFINE q == idx \div cols
             c == idx - q * cols
             p == Place(above, idx)
             i1 == idx + 1
  <1>1. cols \in Nat /\ cols > 1 BY DEF editor!EditorAssumption
  <1>2. /\ q \in Nat /\ c \in 0 .. cols - 1
        /\ c + 1 = cols => /\ i1 \div cols = q + 1 /\ i1 % cols = 0
                           /\ (q + 1) * cols = i1
        /\ c + 1 # cols => /\ i1 \div cols = q /\ i1 % cols = c + 1
    BY <1>1, OneRight
  <1>3. p = [r |-> above + q, c |-> c] BY Zenon DEF Place
  <1>4. c = idx - q * cols /\ q * cols \in Int BY <1>1, <1>2
  <1>5. Place(above, i1) = [r |-> above + i1 \div cols,
                            c |-> i1 - (i1 \div cols) * cols]
    BY Zenon DEF Place
  <1>6. i1 = idx + 1 OBVIOUS
  <1> DEFINE qc == q * cols
             d == i1 \div cols
             dc == d * cols
             m == i1 % cols
  <1>7. /\ c + 1 = cols => d = q + 1 /\ m = 0 /\ dc = i1
        /\ c + 1 # cols => d = q /\ m = c + 1 /\ dc = qc
    BY <1>2
  <1>8. Place(above, i1) = [r |-> above + d, c |-> i1 - dc] BY <1>5
  <1>9. c = idx - qc /\ qc \in Int BY <1>4
  <1>10. p.r = above + q /\ p.c = c BY <1>3
  <1> HIDE DEF q, c, p, i1, qc, d, dc, m
  <1>11. Place(above, i1) = IF p.c + 1 = cols THEN [r |-> p.r + 1, c |-> 0]
                            ELSE [r |-> p.r, c |-> p.c + 1]
    <2>1. CASE c + 1 = cols
      <3>1. above + d = p.r + 1 /\ i1 - dc = 0
        BY <1>2, <1>6, <1>7, <1>10, <2>1
      <3> QED BY <1>8, <1>10, <2>1, <3>1, Zenon
    <2>2. CASE c + 1 # cols
      <3>1. above + d = p.r /\ i1 - dc = p.c + 1
        BY <1>2, <1>6, <1>7, <1>9, <1>10, <2>2
      <3> QED BY <1>8, <1>10, <2>2, <3>1, Zenon
    <2> QED BY <2>1, <2>2
  <1>12. m = 0 <=> p.c + 1 = cols BY <1>1, <1>2, <1>7, <1>10
  <1>13. p.r \in Int /\ p.c \in 0 .. cols - 1 BY <1>2, <1>10
  <1>14. p = [r |-> p.r, c |-> p.c] BY <1>3, <1>10, Zenon
  <1> QED BY <1>11, <1>12, <1>13, <1>14, Zenon DEF p, i1, m

\* The rows of a line that ends where the cursor is, and of the first place in
\* the next one.
LEMMA RowsToHere ==
    ASSUME editor!EditorAssumption, NEW idx \in Nat
    PROVE  editor!ScreenRows(idx + 1) = idx \div cols + 1
  <1> DEFINE q == idx \div cols
  <1>1. cols \in Nat /\ cols > 1 BY DEF editor!EditorAssumption
  <1>2. q \in Nat /\ q * cols <= idx /\ idx < q * cols + cols BY <1>1
  <1> HIDE DEF q
  <1>3. CASE idx + 1 <= cols
    <2>1. idx = 0 * cols + idx /\ idx \in 0 .. cols - 1 BY <1>1, <1>3
    <2>2. q = 0 BY <1>1, <2>1, DivUnique DEF q
    <2> QED BY <1>3, <2>2 DEF editor!ScreenRows, q
  <1>4. CASE ~(idx + 1 <= cols)
    <2>1. (q + 1) * cols = q * cols + cols /\ q * cols \in Int BY <1>1, <1>2
    <2> DEFINE r == idx - q * cols
               a == idx + 1 + cols - 1
               q1 == q + 1
    <2>2. /\ a \in Nat /\ q1 \in Int /\ r \in 0 .. cols - 1
          /\ a = q1 * cols + r /\ cols \in Nat /\ cols > 0
      BY <1>1, <1>2, <2>1
    <2> HIDE DEF r, a, q1
    <2>3. a \div cols = q1 BY <2>2, DivUnique, Zenon
    <2>4. editor!ScreenRows(idx + 1) = a \div cols
      BY <1>4, Zenon DEF editor!ScreenRows, a
    <2> QED BY <2>3, <2>4 DEF q, q1
  <1> QED BY <1>3, <1>4

\* A line starts at the left.
LEMMA PlaceZero ==
    ASSUME editor!EditorAssumption, NEW above \in Int
    PROVE  Place(above, 0) = [r |-> above, c |-> 0]
  <1>1. cols \in Nat /\ cols > 1 BY DEF editor!EditorAssumption
  <1>2. 0 \div cols = 0
    <2>1. 0 = 0 * cols + 0 /\ 0 \in 0 .. cols - 1 BY <1>1
    <2> QED BY <1>1, <2>1, DivUnique
  <1>3. 0 * cols = 0 BY <1>1
  <1> QED BY <1>2, <1>3 DEF Place

\* Every step keeps the window and the cursor on the screen in their types, and
\* the cursor where get_cursor_at would put it.
LEMMA ViewKept ==
    ASSUME editor!EditorAssumption, EditorInv, ViewInv,
           [editor!Next]_(editor!editorVars)
    PROVE  ViewInv' /\ editor!CursorKept
  <1> DEFINE S == [r : Int, c : Int]
             above == editor!RowsOf(line_len, line_at_top, cur_line - 1)
             p == Place(above, index_in_cur_line)
  <1>0. /\ MAXLINES \in Nat /\ MAXLINES > 1 /\ cols \in Nat /\ cols > 1
        /\ rows \in Int
    BY DEF editor!EditorAssumption
  <1>t. /\ line_len \in [0 .. MAXLINES - 1 -> Nat]
        /\ num_lines \in 0 .. MAXLINES /\ cur_line \in 0 .. MAXLINES - 1
        /\ index_in_cur_line \in Int /\ index \in -1 .. Len(text)
        /\ text \in Seq(editor!Keys)
    BY DEF EditorInv, EditorTypes
  <1>v. /\ DOMAIN line_start = 0 .. MAXLINES - 1 /\ line_start[0] = 0
        /\ line_at_top \in Nat /\ curs \in S
    BY DEF ViewInv
  <1>e. EditorInv' BY EditorKept
  <1>c. ASSUME editor!CursorAsComputed, line_at_top <= cur_line,
               index_in_cur_line >= 0
        PROVE  curs = p /\ above \in Int /\ index_in_cur_line \in Nat
    <2>1. index_in_cur_line \in Nat BY <1>t, <1>c
    <2>2. curs = p
      BY <1>c, <2>1, Placed, Zenon DEF editor!CursorAsComputed
    <2>3. /\ cur_line - 1 \in Int
          /\ \A k \in line_at_top .. cur_line - 1 : line_len[k] \in Nat
      BY <1>0, <1>t, <1>v, <1>c
    <2>4. above \in Nat BY <1>v, <2>3, RowsNat
    <2> QED BY <2>1, <2>2, <2>4
  <1> HIDE DEF above, p
  <1>a. ASSUME UNCHANGED <<line_start, line_at_top, curs, line_len, cur_line,
                           index_in_cur_line>>
        PROVE  ViewInv' /\ editor!CursorKept
    <2>1. ViewInv' BY <1>a, Zenon DEF ViewInv
    <2>2. editor!CursorAsComputed => editor!CursorAsComputed'
      BY <1>a, Zenon DEF editor!CursorAsComputed, editor!get_cursor_at,
                         editor!RowsOf
    <2> QED BY <2>1, <2>2, Zenon DEF editor!CursorKept
  <1>1. CASE UNCHANGED editor!editorVars
    BY <1>1, <1>a
       DEF editor!editorVars, editor!bufferVars, editor!lineVars,
           editor!viewVars
  <1>2. ASSUME NEW key \in editor!Keys, editor!Refuse(key)
        PROVE  ViewInv' /\ editor!CursorKept
    BY <1>2, <1>a
       DEF editor!Refuse, editor!bufferVars, editor!lineVars, editor!viewVars
  <1>3. CASE editor!IgnoreErase \/ editor!Ignore \/ editor!Ended
    BY <1>3, <1>a
       DEF editor!IgnoreErase, editor!Ignore, editor!Ended, editor!editorVars,
           editor!bufferVars, editor!lineVars, editor!viewVars
  <1>4. CASE editor!LeaveInput \/ editor!EnterInput \/ editor!CommandErased
    BY <1>4, <1>a
       DEF editor!LeaveInput, editor!EnterInput, editor!CommandErased,
           editor!bufferVars, editor!lineVars, editor!viewVars
  <1>5. ASSUME NEW line \in Outcomes, editor!CommandLine(line)
        PROVE  ViewInv' /\ editor!CursorKept
    BY <1>5, <1>a
       DEF editor!CommandLine, editor!bufferVars, editor!lineVars,
           editor!viewVars
  <1>p. ASSUME index_in_cur_line' \in Nat, NEW over,
               over = editor!RowsOf(line_len', line_at_top', cur_line' - 1),
               curs' = Place(over, index_in_cur_line')
        PROVE  editor!CursorAsComputed'
    BY <1>p, Placed, Zenon DEF editor!CursorAsComputed
  <1>s. ASSUME \A k \in 0 .. cur_line - 1 : line_len'[k] = line_len[k]
        PROVE  above = editor!RowsOf(line_len', line_at_top, cur_line - 1)
    <2>1. /\ cur_line - 1 \in Int
          /\ \A k \in line_at_top .. cur_line - 1 : line_len[k] = line_len'[k]
      BY <1>t, <1>v, <1>s
    <2> QED BY <1>v, <2>1, RowsSame, Zenon DEF above
  <1>6. ASSUME NEW key \in editor!Keys, editor!InsertShown(key)
        PROVE  ViewInv' /\ editor!CursorKept
    <2> DEFINE at0 == editor!advance_cursor(key)
    <2>1. at0 \in S BY <1>v, Advanced, Zenon
    <2>2. /\ editor!redraw_buffer(at0) /\ index' = index + 1
          /\ Len(text') = Len(text) + 1
      BY <1>6, Stored, Zenon DEF editor!InsertShown
    <2>3. num_lines' \in Nat /\ num_lines' > 0 /\ index' \in Nat
      BY <1>0, <1>t, <1>e, <2>2 DEF EditorInv, EditorTypes
    <2>4. DOMAIN line_start' = 0 .. MAXLINES - 1 /\ line_start'[0] = 0
      <3>1. 0 \in 0 .. MAXLINES - 1 /\ 0 <= cur_line
            /\ 0 \notin cur_line + 1 .. editor!LinesCounted - 1
        <4>1. editor!LinesCounted \in 1 .. MAXLINES BY LinesThere, Zenon
        <4> QED BY <1>0, <1>t, <4>1
      <3>2. CASE editor!SplitLine
        <4>1. 0 # cur_line + 1 BY <1>t
        <4>2. line_start' = editor!SplitStarts
          BY <3>2, Zenon DEF editor!SplitLine
        <4> QED BY <1>v, <3>1, <4>1, <4>2, Zenon DEF editor!SplitStarts
      <3>3. CASE editor!LengthenLine
        <4>1. line_start' = [k \in DOMAIN line_start |->
                  IF k \in cur_line + 1 .. editor!LinesCounted - 1
                  THEN line_start[k] + 1 ELSE line_start[k]]
          BY <3>3, Zenon DEF editor!LengthenLine
        <4> QED BY <1>v, <3>1, <4>1, Zenon
      <3> QED BY <1>6, <3>2, <3>3, Zenon DEF editor!InsertShown
    <2> HIDE DEF at0
    <2>5. /\ line_at_top' \in Nat /\ curs' \in S
          /\ line_at_top' = line_at_top => curs' = at0
      BY <1>v, <2>1, <2>2, <2>3, <2>4, Redrawn, Zenon
    <2>6. ViewInv' BY <2>4, <2>5, Zenon DEF ViewInv
    <2>7. ASSUME editor!CursorAsComputed, line_at_top <= cur_line,
                 index_in_cur_line >= 0, line_at_top' = line_at_top
          PROVE  editor!CursorAsComputed'
      <3>1. curs = p /\ above \in Int /\ index_in_cur_line \in Nat
        BY <1>c, <2>7
      <3>2. curs' = at0 BY <2>5, <2>7
      <3>3. /\ p.r \in Int /\ p.c \in 0 .. cols - 1
            /\ Place(above, index_in_cur_line + 1)
                  = IF p.c + 1 = cols THEN [r |-> p.r + 1, c |-> 0]
                    ELSE [r |-> p.r, c |-> p.c + 1]
            /\ p = [r |-> p.r, c |-> p.c]
        BY <3>1, PlaceRight, Zenon DEF p
      <3>4. CASE key = editor!Newline /\ editor!SplitLine
        <4> DEFINE over == editor!RowsOf(line_len', line_at_top, cur_line)
        <4>1. /\ line_len' = editor!SplitLengths
              /\ cur_line' = cur_line + 1 /\ index_in_cur_line' = 0
          BY <3>4, Zenon DEF editor!SplitLine
        <4>2. num_lines < MAXLINES
          <5>1. num_lines # MAXLINES
            BY <1>6, <3>4, Zenon DEF editor!InsertShown, editor!TooMany
          <5> QED BY <1>0, <1>t, <5>1
        <4>3. /\ \A k \in 0 .. cur_line - 1 : line_len'[k] = line_len[k]
              /\ line_len'[cur_line] = index_in_cur_line + 1
          BY <4>1, <4>2, OneSplit, Zenon
        <4>4. over = editor!RowsOf(line_len', line_at_top, cur_line - 1)
                        + editor!ScreenRows(line_len'[cur_line])
          <5>1. cur_line \in Int /\ line_at_top <= cur_line BY <1>t, <2>7
          <5> QED BY <1>v, <5>1, RowsNext, Zenon
        <4>5. over = above + (index_in_cur_line \div cols + 1)
          BY <1>s, <3>1, <4>3, <4>4, RowsToHere, Zenon
        <4> HIDE DEF over
        <4>6. p.r = above + index_in_cur_line \div cols
              /\ index_in_cur_line \div cols \in Int
          BY <1>0, <3>1 DEF Place, p
        <4>7. over = p.r + 1 /\ over \in Int BY <3>1, <4>5, <4>6
        <4>8. at0 = [r |-> p.r + 1, c |-> 0]
          BY <3>1, <3>4, Zenon DEF at0, editor!advance_cursor
        <4>9. curs' = Place(over, index_in_cur_line')
          BY <3>2, <4>1, <4>7, <4>8, PlaceZero, Zenon
        <4>10. over = editor!RowsOf(line_len', line_at_top', cur_line' - 1)
          <5>1. cur_line' - 1 = cur_line BY <1>t, <4>1
          <5> QED BY <2>7, <5>1, Zenon DEF over
        <4>11. index_in_cur_line' \in Nat BY <4>1
        <4> QED BY <1>p, <4>9, <4>10, <4>11, Zenon
      <3>5. CASE key = editor!Printable /\ editor!LengthenLine
        <4>1. /\ line_len' = editor!Counted /\ cur_line' = cur_line
              /\ index_in_cur_line' = index_in_cur_line + 1
          BY <3>5, Zenon DEF editor!LengthenLine
        <4>2. \A k \in 0 .. MAXLINES - 1 :
                 line_len'[k] = IF k = cur_line THEN line_len[k] + 1
                                ELSE line_len[k]
          BY <4>1, OneLonger, Zenon
        <4>3. \A k \in 0 .. cur_line - 1 : line_len'[k] = line_len[k]
          BY <1>0, <1>t, <4>2
        <4>4. above = editor!RowsOf(line_len', line_at_top', cur_line' - 1)
          BY <1>s, <2>7, <4>1, <4>3, Zenon
        <4>5. key # editor!Newline
          BY <3>5, Zenon DEF editor!Printable, editor!Newline
        <4>6. at0 = Place(above, index_in_cur_line + 1)
          <5>1. at0 = IF curs.c + 1 = cols THEN [r |-> curs.r + 1, c |-> 0]
                      ELSE [curs EXCEPT !.c = curs.c + 1]
            BY <4>5, Zenon DEF at0, editor!advance_cursor
          <5>2. [curs EXCEPT !.c = curs.c + 1]
                   = [r |-> curs.r, c |-> curs.c + 1]
            BY <1>v
          <5> QED BY <3>1, <3>3, <5>1, <5>2, Zenon
        <4>7. curs' = Place(above, index_in_cur_line')
          BY <3>2, <4>1, <4>6, Zenon
        <4>8. index_in_cur_line' \in Nat BY <3>1, <4>1
        <4> QED BY <1>p, <4>4, <4>7, <4>8, Zenon
      <3> QED BY <1>6, <3>4, <3>5, Zenon DEF editor!InsertShown
    <2> QED BY <2>6, <2>7, Zenon DEF editor!CursorKept
  <1>7. CASE editor!InsertControl
    <2>1. /\ UNCHANGED <<line_start, line_at_top, curs, cur_line,
                         index_in_cur_line>>
          /\ line_len' = editor!Counted
      BY <1>7, Zenon
         DEF editor!InsertControl, editor!lineVars, editor!viewVars
    <2>2. ViewInv' BY <2>1, Zenon DEF ViewInv
    <2>3. \A k \in 0 .. MAXLINES - 1 :
             line_len'[k] = IF k = cur_line THEN line_len[k] + 1
                            ELSE line_len[k]
      BY <2>1, OneLonger, Zenon
    <2>4. \A k \in 0 .. cur_line - 1 : line_len'[k] = line_len[k]
      BY <1>0, <1>t, <2>3
    <2>5. above = editor!RowsOf(line_len', line_at_top', cur_line' - 1)
      BY <1>s, <2>1, <2>4, Zenon
    <2>6. ASSUME editor!CursorAsComputed, line_at_top <= cur_line,
                 index_in_cur_line >= 0
          PROVE  editor!CursorAsComputed'
      <3>1. curs = p /\ index_in_cur_line \in Nat BY <1>c, <2>6
      <3>2. curs' = Place(above, index_in_cur_line')
        BY <2>1, <3>1, Zenon DEF p
      <3>3. index_in_cur_line' \in Nat BY <2>1, <3>1
      <3> QED BY <1>p, <2>5, <3>2, <3>3, Zenon
    <2> QED BY <2>2, <2>6, Zenon DEF editor!CursorKept
  <1>g. ASSUME NEW line \in 0 .. num_lines - 1, NEW idx \in Int,
               NEW top \in Nat, editor!GoTo(line, idx, top)
        PROVE  ViewInv' /\ editor!CursorKept
    <2> DEFINE over == editor!RowsOf(line_len, top, line - 1)
               row == IF idx < 0 THEN 0 ELSE idx \div cols
    <2>1. /\ cur_line' = line /\ index_in_cur_line' = idx
          /\ line_at_top' = top /\ UNCHANGED <<line_start, line_len>>
          /\ curs' = editor!get_cursor_at(line_len, top, idx, line)
      BY <1>g, Zenon DEF editor!GoTo, editor!bufferVars
    <2>2. over \in Nat
      <3>1. /\ line - 1 \in Int
            /\ \A k \in top .. line - 1 : line_len[k] \in Nat
        BY <1>0, <1>t
      <3> QED BY <3>1, RowsNat
    <2>3. row \in Int BY <1>0
    <2>4. curs' = [r |-> over + row, c |-> idx - row * cols]
      BY <2>1, Zenon DEF editor!get_cursor_at
    <2> HIDE DEF over, row
    <2>5. curs' \in S BY <1>0, <2>2, <2>3, <2>4
    <2>6. ViewInv' BY <1>v, <2>1, <2>5, Zenon DEF ViewInv
    <2>7. editor!CursorAsComputed'
      BY <2>1, Zenon DEF editor!CursorAsComputed
    <2> QED BY <2>6, <2>7, Zenon DEF editor!CursorKept
  <1>i. ASSUME NEW line \in 0 .. num_lines - 1
        PROVE  editor!IndexIn(line) \in Int
    BY <1>0, <1>t DEF editor!IndexIn
  <1>8. CASE editor!move_up
    <2>1. cur_line - 1 \in 0 .. num_lines - 1 /\ cur_line - 1 \in Int
      BY <1>8, <1>t DEF editor!move_up, EditorInv, EditorTypes
    <2>2. editor!Min({line_at_top, cur_line - 1}) \in Nat
      BY <1>v, <2>1, MinOfTwo
    <2> QED BY <1>8, <1>g, <1>i, <2>1, <2>2, Zenon DEF editor!move_up
  <1>9. CASE editor!move_down
    <2> DEFINE lastline0 == editor!get_lastline_in_win(line_len, num_lines,
                                                       line_at_top)
               top == line_at_top + editor!Max({cur_line + 1 - lastline0, 0})
    <2>1. cur_line + 1 \in 0 .. num_lines - 1
      BY <1>9, <1>t DEF editor!move_down
    <2>2. editor!GoTo(cur_line + 1, editor!IndexIn(cur_line + 1), top)
      BY <1>9, Zenon DEF editor!move_down
    <2>3. lastline0 \in Int
      <3>1. num_lines \in Nat BY <1>0, <1>t
      <3> QED BY <1>v, <3>1, LastlineInt
    <2> HIDE DEF lastline0
    <2>4. top \in Nat
      <3>1. cur_line + 1 - lastline0 \in Int BY <1>t, <2>3
      <3> QED BY <1>v, <3>1, MaxIs
    <2> HIDE DEF top
    <2> QED BY <1>g, <1>i, <2>1, <2>2, <2>4, Zenon
  <1>10. CASE editor!move_right
    <2> DEFINE i1 == index_in_cur_line + 1
               by == editor!Max({curs.r + 1 - (rows - 2), 0})
    <2>1. /\ UNCHANGED <<line_start, line_len, cur_line>>
          /\ index_in_cur_line' = i1
          /\ IF i1 % cols = 0
             THEN /\ curs' = [r |-> curs.r + 1, c |-> 0]
                  /\ line_at_top' = line_at_top + by
             ELSE /\ curs' = [curs EXCEPT !.c = curs.c + 1]
                  /\ line_at_top' = line_at_top
      BY <1>10, Zenon DEF editor!move_right, editor!bufferVars
    <2>2. by \in Nat
      <3>1. curs.r + 1 - (rows - 2) \in Int BY <1>0, <1>v
      <3> QED BY <3>1, MaxIs
    <2>3. [curs EXCEPT !.c = curs.c + 1] = [r |-> curs.r, c |-> curs.c + 1]
      BY <1>v
    <2> HIDE DEF i1, by
    <2>4. line_at_top' \in Nat BY <1>v, <2>1, <2>2
    <2>5. curs' \in S BY <1>v, <2>1, <2>3
    <2>6. ViewInv' BY <1>v, <2>1, <2>4, <2>5, Zenon DEF ViewInv
    <2>7. ASSUME editor!CursorAsComputed, line_at_top <= cur_line,
                 index_in_cur_line >= 0, line_at_top' = line_at_top
          PROVE  editor!CursorAsComputed'
      <3>1. curs = p /\ above \in Int /\ index_in_cur_line \in Nat
        BY <1>c, <2>7
      <3>2. /\ Place(above, i1) = IF p.c + 1 = cols
                                  THEN [r |-> p.r + 1, c |-> 0]
                                  ELSE [r |-> p.r, c |-> p.c + 1]
            /\ i1 % cols = 0 <=> p.c + 1 = cols
        BY <3>1, PlaceRight, Zenon DEF p, i1
      <3>3. curs' = Place(above, i1) BY <2>1, <2>3, <3>1, <3>2, Zenon
      <3>4. index_in_cur_line' \in Nat BY <2>1, <3>1 DEF i1
      <3>5. above = editor!RowsOf(line_len', line_at_top', cur_line' - 1)
        BY <2>1, <2>7, Zenon DEF above
      <3> QED BY <1>p, <2>1, <3>3, <3>4, <3>5, Zenon
    <2> QED BY <2>6, <2>7, Zenon DEF editor!CursorKept
  <1>11. CASE editor!move_left
    <2> DEFINE j == index_in_cur_line - 1
               q == Place(above, j)
    <2>1. /\ UNCHANGED <<line_start, line_len, cur_line, line_at_top>>
          /\ index_in_cur_line' = j /\ index_in_cur_line > 0
          /\ curs' = IF index_in_cur_line % cols = 0
                     THEN [r |-> curs.r - 1, c |-> cols - 1]
                     ELSE [curs EXCEPT !.c = curs.c - 1]
      BY <1>11, Zenon DEF editor!move_left, editor!bufferVars
    <2>2. [curs EXCEPT !.c = curs.c - 1] = [r |-> curs.r, c |-> curs.c - 1]
      BY <1>v
    <2>3. j \in Nat /\ j + 1 = index_in_cur_line BY <1>t, <2>1
    <2> HIDE DEF j, q
    <2>4. curs' \in S BY <1>0, <1>v, <2>1, <2>2
    <2>5. ViewInv' BY <1>v, <2>1, <2>4, Zenon DEF ViewInv
    <2>6. ASSUME editor!CursorAsComputed, line_at_top <= cur_line,
                 index_in_cur_line >= 0
          PROVE  editor!CursorAsComputed'
      <3>1. curs = p /\ above \in Int BY <1>c, <2>6
      <3>2. /\ q.r \in Int /\ q.c \in 0 .. cols - 1
            /\ Place(above, j + 1) = IF q.c + 1 = cols
                                     THEN [r |-> q.r + 1, c |-> 0]
                                     ELSE [r |-> q.r, c |-> q.c + 1]
            /\ (j + 1) % cols = 0 <=> q.c + 1 = cols
            /\ q = [r |-> q.r, c |-> q.c]
        BY <2>3, <3>1, PlaceRight, Zenon DEF q
      <3>3. /\ curs = IF q.c + 1 = cols THEN [r |-> q.r + 1, c |-> 0]
                      ELSE [r |-> q.r, c |-> q.c + 1]
            /\ index_in_cur_line % cols = 0 <=> q.c + 1 = cols
        BY <2>3, <3>1, <3>2, Zenon DEF p
      <3>4. curs' = q
        <4>1. CASE q.c + 1 = cols
          <5>1. curs' = [r |-> curs.r - 1, c |-> cols - 1]
            BY <2>1, <3>3, <4>1, Zenon
          <5>2. curs.r - 1 = q.r /\ cols - 1 = q.c
            BY <1>0, <3>2, <3>3, <4>1
          <5> QED BY <3>2, <5>1, <5>2, Zenon
        <4>2. CASE q.c + 1 # cols
          <5>1. curs' = [r |-> curs.r, c |-> curs.c - 1]
            BY <2>1, <2>2, <3>3, <4>2, Zenon
          <5>2. curs.r = q.r /\ curs.c - 1 = q.c
            BY <1>0, <3>2, <3>3, <4>2
          <5> QED BY <3>2, <5>1, <5>2, Zenon
        <4> QED BY <4>1, <4>2
      <3>5. above = editor!RowsOf(line_len', line_at_top', cur_line' - 1)
        BY <2>1, Zenon DEF above
      <3> QED BY <1>p, <2>1, <2>3, <3>4, <3>5, Zenon DEF q
    <2> QED BY <2>5, <2>6, Zenon DEF editor!CursorKept
  <1> QED
    BY <1>1, <1>2, <1>3, <1>4, <1>5, <1>6, <1>7, <1>8, <1>9, <1>10, <1>11,
       Zenon
       DEF editor!Next

-----------------------------------------------------------------------------
(* The table and the text *)

\* Where the newlines of a text are.
Newlines(txt) == {j \in 1 .. Len(txt) : txt[j] = editor!Newline}

\* Cardinality is the same by either name.
LEMMA Counting ==
    ASSUME NEW S
    PROVE  editor!Cardinality(S) = Cardinality(S)
  BY Zenon DEF editor!Cardinality, Cardinality

\* A character inserted adds one newline if it is one, and none if it is not.
LEMMA NewlinesInserted ==
    ASSUME NEW t, NEW s, Len(s) \in Nat, NEW pos \in 1 .. Len(s) + 1, NEW e,
           Inserts(t, s, pos, e)
    PROVE  /\ Cardinality(Newlines(s)) \in Nat
           /\ Cardinality(Newlines(t))
                 = IF e = editor!Newline THEN Cardinality(Newlines(s)) + 1
                   ELSE Cardinality(Newlines(s))
  <1> DEFINE A == Newlines(s)
             B == Newlines(t) \ {pos}
             n == Len(s)
             f == [j \in A |-> IF j < pos THEN j ELSE j + 1]
  <1>0. /\ Len(t) = n + 1 /\ t[pos] = e /\ pos \in 1 .. n + 1
        /\ \A j \in 1 .. pos - 1 : t[j] = s[j]
        /\ \A j \in pos .. n : t[j + 1] = s[j]
    <2>1. Len(t) = n + 1 BY DEF Inserts
    <2>2. ASSUME NEW j \in 1 .. n + 1
          PROVE  t[j] = IF j < pos THEN s[j] ELSE IF j = pos THEN e
                        ELSE s[j - 1]
      BY <2>1 DEF Inserts
    <2>3. t[pos] = e BY <2>2
    <2>4. \A j \in 1 .. pos - 1 : t[j] = s[j] BY <2>2
    <2>5. ASSUME NEW j \in pos .. n PROVE t[j + 1] = s[j]
      <3>1. j + 1 \in 1 .. n + 1 /\ ~(j + 1 < pos) /\ j + 1 # pos
            /\ j + 1 - 1 = j
        OBVIOUS
      <3> DEFINE k == j + 1
      <3> HIDE DEF k
      <3>2. t[k] = s[k - 1] BY <2>2, <3>1, Zenon DEF k
      <3> QED BY <3>1, <3>2 DEF k
    <2> QED BY <2>1, <2>3, <2>4, <2>5
  <1>1. /\ A = {j \in 1 .. n : s[j] = editor!Newline}
        /\ Newlines(t) = {j \in 1 .. n + 1 : t[j] = editor!Newline}
    BY <1>0 DEF Newlines
  <1> HIDE DEF n
  <1>2. n \in Nat BY DEF n
  <1>3. f \in Bijection(A, B)
    <2>1. ASSUME NEW j \in A PROVE f[j] \in B
      <3>1. j \in 1 .. n /\ s[j] = editor!Newline BY <1>1
      <3>2. CASE j < pos BY <1>0, <1>1, <3>1, <3>2
      <3>3. CASE ~(j < pos) BY <1>0, <1>1, <1>2, <3>1, <3>3
      <3> QED BY <3>2, <3>3
    <2>2. ASSUME NEW k \in B PROVE \E j \in A : f[j] = k
      <3>1. k \in 1 .. n + 1 /\ t[k] = editor!Newline /\ k # pos BY <1>1
      <3>2. CASE k < pos
        <4>1. k \in 1 .. pos - 1 /\ k \in 1 .. n BY <1>0, <1>2, <3>1, <3>2
        <4>2. k \in A BY <1>0, <1>1, <3>1, <4>1
        <4> QED BY <3>2, <4>2
      <3>3. CASE k > pos
        <4>1. k - 1 \in pos .. n /\ k - 1 \in 1 .. n /\ ~(k - 1 < pos)
              /\ k - 1 + 1 = k
          BY <1>0, <1>2, <3>1, <3>3
        <4>2. s[k - 1] = editor!Newline BY <1>0, <3>1, <4>1
        <4>3. k - 1 \in A BY <1>1, <4>1, <4>2
        <4>4. f[k - 1] = k BY <4>1, <4>3
        <4> QED BY <4>3, <4>4
      <3> QED BY <1>0, <3>1, <3>2, <3>3
    <2>3. ASSUME NEW j \in A, NEW k \in A, f[j] = f[k] PROVE j = k
      <3>1. j \in Nat /\ k \in Nat /\ pos \in Nat BY <1>0, <1>1
      <3> QED BY <2>3, <3>1
    <2>4. f \in [A -> B]
      <3>1. f = [j \in A |-> f[j]] BY Zenon
      <3> HIDE DEF f
      <3> QED BY <2>1, <3>1, Zenon
    <2> HIDE DEF A, B, f
    <2> QED BY <2>2, <2>3, <2>4, Fun_IsBij, Zenon
  <1> HIDE DEF f
  <1>4. ExistsBijection(A, B) BY <1>3, Zenon DEF ExistsBijection
  <1>5. IsFiniteSet(A)
    <2>1. IsFiniteSet(1 .. n) BY <1>2, FS_Interval
    <2>2. A \in SUBSET (1 .. n) BY <1>1
    <2> QED BY <2>1, <2>2, FS_Subset
  <1>6. IsFiniteSet(B) /\ Cardinality(B) = Cardinality(A)
    <2> HIDE DEF A, B
    <2> QED BY <1>4, <1>5, FS_Bijection
  <1>7. Cardinality(A) \in Nat BY <1>5, FS_CardinalityType
  <1>8. CASE e = editor!Newline
    <2>1. Newlines(t) = B \cup {pos} /\ pos \notin B BY <1>0, <1>1, <1>8
    <2> HIDE DEF A, B
    <2>2. Cardinality(B \cup {pos}) = Cardinality(B) + 1
      BY <1>6, <2>1, FS_AddElement
    <2> QED BY <1>6, <1>7, <1>8, <2>1, <2>2 DEF A
  <1>9. CASE e # editor!Newline
    <2>1. Newlines(t) = B BY <1>0, <1>1, <1>9
    <2> QED BY <1>6, <1>7, <1>9, <2>1
  <1> QED BY <1>8, <1>9

\* The lines of a text, with the tables of their lengths and their starts: each
\* starts where the one before it ends, and all but the last end with a newline.
Fits(lens, starts, txt, n) ==
    /\ \A l \in 0 .. n - 1 :
          /\ starts[l] = Sum(lens, l)
          /\ l < n - 1 => /\ lens[l] > 0
                          /\ txt[Sum(lens, l) + lens[l]] = editor!Newline
    /\ n = Cardinality(Newlines(txt)) + 1

\* Such a text, before and after e is inserted in line c, after idx characters.
Types(lens, starts, txt, n, c, idx, txt2, e) ==
    /\ n \in Nat /\ c \in 0 .. n - 1 /\ idx \in Nat /\ idx <= lens[c]
    /\ \A k \in 0 .. n - 1 : lens[k] \in Nat
    /\ Len(txt) \in Nat /\ Len(txt) = Sum(lens, n)
    /\ Fits(lens, starts, txt, n)
    /\ c < n - 1 => idx < lens[c]
    /\ Inserts(txt2, txt, Sum(lens, c) + idx + 1, e)

\* The newlines of the lines above stay, those of the others move by one.
LEMMA EndsMove ==
    ASSUME NEW lens, NEW starts, NEW txt, NEW n, NEW c, NEW idx, NEW txt2,
           NEW e,
           Types(lens, starts, txt, n, c, idx, txt2, e), NEW l \in 0 .. n - 2
    PROVE  /\ l < c => txt2[Sum(lens, l) + lens[l]] = editor!Newline
           /\ c <= l => txt2[Sum(lens, l) + lens[l] + 1] = editor!Newline
           /\ Sum(lens, l) \in Nat /\ lens[l] \in Nat /\ lens[l] > 0
  <1> DEFINE end == Sum(lens, l) + lens[l]
             pos == Sum(lens, c) + idx + 1
  <1>1. /\ n \in Nat /\ c \in 0 .. n - 1 /\ idx \in Nat /\ idx <= lens[c]
        /\ \A k \in 0 .. n - 1 : lens[k] \in Nat
        /\ Len(txt) \in Nat /\ Len(txt) = Sum(lens, n)
        /\ c < n - 1 => idx < lens[c]
    BY DEF Types
  <1>2. l \in Nat /\ c \in Nat /\ l < n /\ l <= n /\ c <= n BY <1>1
  <1>3. /\ Sum(lens, l) \in Nat
        /\ Sum(lens, l) + lens[l] <= Len(txt)
    BY <1>1, <1>2, SumGrows, Zenon
  <1>4. /\ lens[l] \in Nat /\ lens[l] > 0
        /\ txt[end] = editor!Newline
    <2>1. l \in 0 .. n - 1 /\ l < n - 1 BY <1>1
    <2>2. Fits(lens, starts, txt, n) BY Zenon DEF Types
    <2> QED BY <1>1, <2>1, <2>2, Zenon DEF Fits
  <1>5. Sum(lens, c) \in Nat BY <1>1, <1>2, SumGrows, Zenon
  <1>6. /\ Len(txt2) = Len(txt) + 1
        /\ \A j \in 1 .. Len(txt2) :
              txt2[j] = IF j < pos THEN txt[j] ELSE IF j = pos THEN e
                        ELSE txt[j - 1]
    BY Zenon DEF Types, Inserts
  <1>7. ASSUME l < c PROVE txt2[end] = editor!Newline
    <2>1. /\ \A k \in 0 .. c - 1 : lens[k] \in Nat
          /\ l <= c
      BY <1>1, <1>2, <1>7
    <2>2. Sum(lens, l) + lens[l] <= Sum(lens, c)
      BY <1>2, <1>7, <2>1, SumGrows, Zenon
    <2>3. end \in 1 .. Len(txt2) /\ end < pos
      <3>1. /\ end \in Nat /\ end > 0 /\ end <= Len(txt) /\ Len(txt) \in Nat
            /\ Len(txt2) = Len(txt) + 1 /\ idx \in Nat
            /\ end <= Sum(lens, c)
        <4>1. end \in Nat /\ end > 0 BY <1>3, <1>4
        <4> QED BY <1>1, <1>3, <1>6, <2>2, <4>1, Zenon
      <3> HIDE DEF end
      <3> QED BY ONLY <3>1, <1>5 DEF pos
    <2> HIDE DEF end, pos
    <2> QED BY <1>4, <1>6, <2>3, Zenon
  <1>8. ASSUME c <= l PROVE txt2[end + 1] = editor!Newline
    <2>1. /\ \A k \in 0 .. l - 1 : lens[k] \in Nat
          /\ idx < lens[c] /\ lens[c] \in Nat
      BY <1>1, <1>2, <1>8
    <2>2. Sum(lens, c) + lens[c] <= end
      <3>1. CASE c = l BY <3>1, <1>3, <1>4
      <3>2. CASE c < l
        <4>1. Sum(lens, c) + lens[c] <= Sum(lens, l)
          BY <1>2, <1>8, <2>1, <3>2, SumGrows, Zenon
        <4> QED BY <1>3, <1>4, <1>5, <2>1, <4>1
      <3> QED BY <1>2, <1>8, <3>1, <3>2
    <2> DEFINE k == end + 1
    <2>3. /\ k \in 1 .. Len(txt2) /\ ~(k < pos) /\ k # pos /\ k - 1 = end
      <3>1. /\ end \in Nat /\ end > 0 /\ end <= Len(txt) /\ Len(txt) \in Nat
            /\ Len(txt2) = Len(txt) + 1 /\ idx \in Nat
        BY <1>1, <1>3, <1>4, <1>6
      <3> HIDE DEF end
      <3> QED BY ONLY <3>1, <1>5, <2>1, <2>2 DEF pos, k
    <2> HIDE DEF end, pos, k
    <2>4. txt2[k] = txt[k - 1] BY <1>6, <2>3, Zenon
    <2> QED BY <1>4, <2>3, <2>4 DEF k
  <1> QED BY <1>3, <1>4, <1>7, <1>8, Zenon DEF end

\* So does the number of newlines.
LEMMA NewlinesCounted ==
    ASSUME NEW lens, NEW starts, NEW txt, NEW n, NEW c, NEW idx, NEW txt2,
           NEW e,
           Types(lens, starts, txt, n, c, idx, txt2, e)
    PROVE  /\ e = editor!Newline =>
                 n + 1 = Cardinality(Newlines(txt2)) + 1
           /\ e # editor!Newline => n = Cardinality(Newlines(txt2)) + 1
  <1> DEFINE pos == Sum(lens, c) + idx + 1
  <1>1. /\ n \in Nat /\ c \in 0 .. n - 1 /\ idx \in Nat /\ idx <= lens[c]
        /\ \A k \in 0 .. n - 1 : lens[k] \in Nat
        /\ Len(txt) \in Nat /\ Len(txt) = Sum(lens, n)
    BY DEF Types
  <1>2. c \in Nat /\ c < n /\ c <= n /\ lens[c] \in Nat BY <1>1
  <1>3. Sum(lens, c) \in Nat /\ Sum(lens, c) + lens[c] <= Len(txt)
    BY <1>1, <1>2, SumGrows, Zenon
  <1>4. pos \in 1 .. Len(txt) + 1 BY <1>1, <1>2, <1>3
  <1>5. Inserts(txt2, txt, pos, e) /\ n = Cardinality(Newlines(txt)) + 1
    BY Zenon DEF Types, Fits
  <1> HIDE DEF pos
  <1>6. /\ Cardinality(Newlines(txt)) \in Nat
        /\ Cardinality(Newlines(txt2))
                 = IF e = editor!Newline THEN Cardinality(Newlines(txt)) + 1
                   ELSE Cardinality(Newlines(txt))
    BY <1>1, <1>4, <1>5, NewlinesInserted, Zenon
  <1>7. CASE e = editor!Newline BY <1>5, <1>6, <1>7
  <1>8. CASE e # editor!Newline BY <1>5, <1>6, <1>8
  <1> QED BY <1>7, <1>8

\* A printable character: LengthenLine.
LEMMA FitsLonger ==
    ASSUME NEW lens, NEW starts, NEW txt, NEW n, NEW c, NEW idx, NEW txt2,
           NEW e,
           Types(lens, starts, txt, n, c, idx, txt2, e), e # editor!Newline,
           NEW lens2, NEW starts2,
           \A k \in 0 .. n - 1 :
              lens2[k] = IF k = c THEN lens[k] + 1 ELSE lens[k],
           \A k \in 0 .. n - 1 :
              starts2[k] = IF k \in c + 1 .. n - 1 THEN starts[k] + 1
                           ELSE starts[k]
    PROVE  Fits(lens2, starts2, txt2, n)
  <1>1. /\ n \in Nat /\ c \in 0 .. n - 1
        /\ \A k \in 0 .. n - 1 : lens[k] \in Nat
        /\ \A k \in 0 .. n - 1 : starts[k] = Sum(lens, k)
    BY DEF Types, Fits
  <1>2. ASSUME NEW l \in 0 .. n - 1
        PROVE  /\ Sum(lens2, l) = IF l <= c THEN Sum(lens, l)
                                 ELSE Sum(lens, l) + 1
               /\ starts2[l] = Sum(lens2, l)
    <2>1. CASE l <= c
      <3>1. /\ l \in Nat /\ \A k \in 0 .. l - 1 : lens2[k] = lens[k]
            /\ ~(l \in c + 1 .. n - 1)
        BY <1>1, <2>1
      <3>2. Sum(lens2, l) = Sum(lens, l) BY <3>1, SumSame, Zenon
      <3> QED BY <1>1, <2>1, <3>1, <3>2, Zenon
    <2>2. CASE c < l
      <3>1. /\ l \in Nat /\ c \in 0 .. l - 1 /\ l \in c + 1 .. n - 1
            /\ ~(l <= c)
            /\ \A k \in 0 .. l - 1 :
                  lens[k] \in Nat
                  /\ lens2[k] = IF k = c THEN lens[k] + 1 ELSE lens[k]
        BY <1>1, <2>2
      <3>2. Sum(lens2, l) = Sum(lens, l) + 1 BY <3>1, SumMore, Zenon
      <3> QED BY <1>1, <3>1, <3>2, Zenon
    <2> QED BY <1>1, <2>1, <2>2
  <1>3. ASSUME NEW l \in 0 .. n - 1, l < n - 1
        PROVE  /\ lens2[l] > 0
               /\ txt2[Sum(lens2, l) + lens2[l]] = editor!Newline
    <2>1. l \in 0 .. n - 2 BY <1>1, <1>3
    <2>2. /\ l < c => txt2[Sum(lens, l) + lens[l]] = editor!Newline
          /\ c <= l => txt2[Sum(lens, l) + lens[l] + 1] = editor!Newline
          /\ Sum(lens, l) \in Nat /\ lens[l] \in Nat /\ lens[l] > 0
      BY <2>1, EndsMove, Zenon
    <2>3. CASE l < c
      <3>1. l # c /\ l <= c BY <1>1, <2>3
      <3>2. lens2[l] = lens[l] /\ Sum(lens2, l) = Sum(lens, l)
        BY <1>2, <3>1, Zenon
      <3> QED BY <2>2, <2>3, <3>2, Zenon
    <2>4. CASE c <= l
      <3>1. /\ Sum(lens2, l) + lens2[l] = Sum(lens, l) + lens[l] + 1
            /\ lens2[l] > 0
        <4>1. CASE l = c
          <5>1. lens2[l] = lens[l] + 1 /\ Sum(lens2, l) = Sum(lens, l)
            BY <1>1, <1>2, <4>1
          <5> QED BY <2>2, <5>1
        <4>2. CASE l # c
          <5>1. ~(l <= c) BY <1>1, <2>4, <4>2
          <5>2. lens2[l] = lens[l] /\ Sum(lens2, l) = Sum(lens, l) + 1
            BY <1>2, <4>2, <5>1, Zenon
          <5> QED BY <2>2, <5>2
        <4> QED BY <4>1, <4>2
      <3> QED BY <2>2, <2>4, <3>1, Zenon
    <2> QED BY <1>1, <2>3, <2>4
  <1>4. n = Cardinality(Newlines(txt2)) + 1
    <2>1. Types(lens, starts, txt, n, c, idx, txt2, e) /\ e # editor!Newline
      OBVIOUS
    <2> QED BY ONLY <2>1, NewlinesCounted
  <1> QED BY <1>2, <1>3, <1>4, Zenon DEF Fits

\* A newline: SplitLine.
LEMMA FitsSplit ==
    ASSUME NEW lens, NEW starts, NEW txt, NEW n, NEW c, NEW idx, NEW txt2,
           Types(lens, starts, txt, n, c, idx, txt2, editor!Newline),
           NEW lens2, NEW starts2,
           \A k \in 0 .. c - 1 : lens2[k] = lens[k],
           lens2[c] = idx + 1, lens2[c + 1] = lens[c] - idx,
           \A k \in c + 2 .. n : lens2[k] = lens[k - 1],
           \A k \in 0 .. c : starts2[k] = starts[k],
           starts2[c + 1] = starts[c] + idx + 1,
           \A k \in c + 2 .. n : starts2[k] = starts[k - 1] + 1
    PROVE  Fits(lens2, starts2, txt2, n + 1)
  <1>t. Types(lens, starts, txt, n, c, idx, txt2, editor!Newline)
    OBVIOUS
  <1>1. /\ n \in Nat /\ c \in 0 .. n - 1 /\ idx \in Nat /\ idx <= lens[c]
        /\ \A k \in 0 .. n - 1 : lens[k] \in Nat
        /\ \A k \in 0 .. n - 1 : starts[k] = Sum(lens, k)
        /\ c < n - 1 => idx < lens[c]
    BY DEF Types, Fits
  <1>a. ASSUME NEW l \in 0 .. n - 1 PROVE Sum(lens, l) \in Nat
    <2>1. l \in Nat /\ \A k \in 0 .. l - 1 : lens[k] \in Nat BY <1>1
    <2>2. l <= l BY <2>1
    <2> QED BY <2>1, <2>2, SumGrows, Zenon
  <1>b. /\ c \in Nat /\ lens[c] \in Nat /\ Sum(lens, c) \in Nat
        /\ starts[c] = Sum(lens, c)
    BY <1>1, <1>a
  <1>2. ASSUME NEW l \in 0 .. c
        PROVE  Sum(lens2, l) = Sum(lens, l) /\ starts2[l] = Sum(lens2, l)
    <2>1. /\ l \in Nat /\ l \in 0 .. n - 1
          /\ \A k \in 0 .. l - 1 : lens2[k] = lens[k]
      BY <1>1
    <2>2. Sum(lens2, l) = Sum(lens, l) BY <2>1, SumSame, Zenon
    <2> QED BY <1>1, <2>1, <2>2, Zenon
  <1>3. /\ Sum(lens2, c + 1) = Sum(lens, c) + idx + 1
        /\ starts2[c + 1] = Sum(lens2, c + 1)
    <2>1. Sum(lens2, c + 1) = Sum(lens2, c) + lens2[c] BY <1>b, SumNext, Zenon
    <2>2. Sum(lens2, c) = Sum(lens, c) BY <1>2, <1>b
    <2> QED BY <1>1, <1>b, <2>1, <2>2
  <1>4. ASSUME NEW l \in c + 2 .. n
        PROVE  /\ Sum(lens2, l) = Sum(lens, l - 1) + 1
               /\ starts2[l] = Sum(lens2, l)
    <2> DEFINE m == l - 1
    <2>1. /\ m \in Nat /\ m \in 0 .. n - 1 /\ c \in 0 .. m - 1 /\ m + 1 = l
          /\ \A k \in 0 .. m - 1 : lens[k] \in Nat
          /\ \A k \in c + 2 .. m : lens2[k] = lens[k - 1]
          /\ lens2[c] \in Int /\ lens2[c + 1] = lens[c] + 1 - lens2[c]
      BY <1>1, <1>b
    <2>2. starts2[l] = starts[m] + 1 OBVIOUS
    <2> HIDE DEF m
    <2>3. Sum(lens2, m + 1) = Sum(lens, m) + 1 BY <2>1, SumSplit, Zenon
    <2>4. starts[m] = Sum(lens, m) BY <1>1, <2>1, Zenon
    <2> QED BY <2>1, <2>2, <2>3, <2>4 DEF m
  <1>5. ASSUME NEW l \in 0 .. n PROVE starts2[l] = Sum(lens2, l)
    <2>1. l \in 0 .. c \/ l = c + 1 \/ l \in c + 2 .. n BY <1>1
    <2> QED BY <1>2, <1>3, <1>4, <2>1, Zenon
  <1>6. ASSUME NEW l \in 0 .. n - 1
        PROVE  /\ lens2[l] > 0
               /\ txt2[Sum(lens2, l) + lens2[l]] = editor!Newline
    <2>1. CASE l < c
      <3>1. l \in 0 .. n - 2 /\ l \in 0 .. c /\ l \in 0 .. c - 1
        BY <1>1, <2>1
      <3>2. txt2[Sum(lens, l) + lens[l]] = editor!Newline /\ lens[l] > 0
        BY ONLY <1>t, <2>1, <3>1, EndsMove
      <3>3. Sum(lens2, l) = Sum(lens, l) /\ lens2[l] = lens[l]
        BY <1>2, <3>1, Zenon
      <3> QED BY <3>2, <3>3, Zenon
    <2>2. CASE l = c
      <3> DEFINE pos == Sum(lens, c) + idx + 1
      <3>1. Sum(lens2, l) + lens2[l] = pos /\ lens2[l] > 0
        <4>1. Sum(lens2, c) = Sum(lens, c) BY <1>2, <1>b
        <4> QED BY <1>1, <1>b, <2>2, <4>1
      <3>2. txt2[pos] = editor!Newline
        <4>1. /\ Len(txt) \in Nat /\ Len(txt) = Sum(lens, n)
              /\ Inserts(txt2, txt, pos, editor!Newline)
          BY Zenon DEF Types
        <4>2. c < n /\ c <= n BY <1>1
        <4>3. Sum(lens, c) + lens[c] <= Len(txt)
          BY <1>1, <1>b, <4>1, <4>2, SumGrows, Zenon
        <4>4. pos \in 1 .. Len(txt) + 1 /\ ~(pos < pos)
          BY <1>1, <1>b, <4>1, <4>3
        <4> HIDE DEF pos
        <4> QED BY <4>1, <4>4, Zenon DEF Inserts
      <3> HIDE DEF pos
      <3> QED BY <3>1, <3>2, Zenon
    <2>3. CASE c < l
      <3> DEFINE m == l - 1
      <3>1. m \in 0 .. n - 2 /\ c <= m /\ m + 1 = l BY <1>1, <2>3
      <3>2. /\ txt2[Sum(lens, m) + lens[m] + 1] = editor!Newline
            /\ Sum(lens, m) \in Nat /\ lens[m] \in Nat /\ lens[m] > 0
        <4> HIDE DEF m
        <4> QED BY ONLY <1>t, <3>1, EndsMove
      <3>3. /\ Sum(lens2, l) + lens2[l] = Sum(lens, m) + lens[m] + 1
            /\ lens2[l] > 0
        <4>1. CASE l = c + 1
          <5>1. m = c /\ idx < lens[c] BY <1>1, <4>1
          <5> HIDE DEF m
          <5> QED BY <1>1, <1>3, <1>b, <4>1, <5>1
        <4>2. CASE l # c + 1
          <5>1. l \in c + 2 .. n BY <1>1, <2>3, <4>2
          <5>2. Sum(lens2, l) = Sum(lens, m) + 1 /\ lens2[l] = lens[m]
            BY <1>4, <5>1
          <5> HIDE DEF m
          <5> QED BY <3>2, <5>2
        <4> QED BY <4>1, <4>2
      <3> HIDE DEF m
      <3> QED BY <3>2, <3>3, Zenon
    <2> QED BY <1>1, <2>1, <2>2, <2>3
  <1>7. n + 1 = Cardinality(Newlines(txt2)) + 1
    BY ONLY <1>t, NewlinesCounted
  <1> DEFINE nn == n + 1
  <1>8. ASSUME NEW l \in 0 .. nn - 1
        PROVE  starts2[l] = Sum(lens2, l)
    <2>1. l \in 0 .. n BY <1>1
    <2> QED BY <1>5, <2>1, Zenon
  <1>9. ASSUME NEW l \in 0 .. nn - 1, l < nn - 1
        PROVE  /\ lens2[l] > 0
               /\ txt2[Sum(lens2, l) + lens2[l]] = editor!Newline
    <2>1. l \in 0 .. n - 1 BY <1>1, <1>9
    <2> QED BY <1>6, <2>1, Zenon
  <1> HIDE DEF nn
  <1>10. nn = Cardinality(Newlines(txt2)) + 1 BY <1>7 DEF nn
  <1>11. Fits(lens2, starts2, txt2, nn) BY <1>8, <1>9, <1>10, Zenon DEF Fits
  <1> QED BY <1>11 DEF nn

\* Only on the last line can the cursor be behind the last character: a line
\* that ends with a newline has the cursor on it at most.
BehindInv == cur_line < num_lines - 1 => index_in_cur_line < line_len[cur_line]

\* simplevi starts with it.
LEMMA BehindInit == editor!EditorAssumption /\ editor!Init => BehindInv
  BY DEF editor!EditorAssumption, editor!Init, BehindInv

\* Every step keeps it.
LEMMA BehindKept ==
    ASSUME editor!EditorAssumption, EditorInv, BehindInv,
           [editor!Next]_(editor!editorVars)
    PROVE  BehindInv'
  <1> DEFINE n == editor!LinesCounted
  <1>0. MAXLINES \in Nat BY DEF editor!EditorAssumption
  <1>t. /\ text \in Seq(editor!Keys) /\ Len(text) \in Nat
        /\ line_len \in [0 .. MAXLINES - 1 -> Nat]
        /\ num_lines \in 0 .. MAXLINES /\ cur_line \in 0 .. MAXLINES - 1
        /\ index_in_cur_line \in Int
        /\ index_in_cur_line <= line_len[cur_line]
        /\ IF Len(text) = 0 THEN num_lines = 0 /\ cur_line = 0
           ELSE cur_line < num_lines
    BY DEF EditorInv, EditorTypes
  <1>n. /\ cur_line < n - 1 => index_in_cur_line < line_len[cur_line]
        /\ n \in Nat
    BY <1>t DEF BehindInv, editor!LinesCounted, editor!size
  <1> HIDE DEF n
  <1>a. ASSUME UNCHANGED <<line_len, num_lines, cur_line, index_in_cur_line>>
        PROVE  BehindInv'
    BY <1>a DEF BehindInv
  <1>1. CASE UNCHANGED editor!editorVars
    BY <1>1, <1>a DEF editor!editorVars, editor!bufferVars, editor!lineVars
  <1>2. ASSUME NEW key \in editor!Keys, editor!Refuse(key) PROVE BehindInv'
    BY <1>2, <1>a DEF editor!Refuse, editor!bufferVars, editor!lineVars
  <1>3. ASSUME NEW key \in editor!Keys, editor!InsertShown(key)
        PROVE  BehindInv'
    <2>3. CASE key = editor!Newline /\ editor!SplitLine
      <3>1. /\ num_lines' = n + 1 /\ line_len' = editor!SplitLengths
            /\ cur_line' = cur_line + 1 /\ index_in_cur_line' = 0
        BY <2>3, Zenon DEF editor!SplitLine, n
      <3>2. num_lines < MAXLINES
        <4>1. num_lines # MAXLINES
          BY <1>3, <2>3, Zenon DEF editor!InsertShown, editor!TooMany
        <4> QED BY <4>1, <1>0, <1>t
      <3>3. line_len'[cur_line + 1] = line_len[cur_line] - index_in_cur_line
        BY <3>1, <3>2, OneSplit, Zenon
      <3>4. line_len[cur_line] \in Nat BY <1>t
      <3> QED BY <1>n, <1>t, <3>1, <3>3, <3>4 DEF BehindInv
    <2>4. CASE editor!LengthenLine
      <3>1. /\ num_lines' = n /\ line_len' = editor!Counted
            /\ cur_line' = cur_line
            /\ index_in_cur_line' = index_in_cur_line + 1
        BY <2>4, Zenon DEF editor!LengthenLine, n
      <3>2. line_len'[cur_line] = line_len[cur_line] + 1
        BY <1>t, <3>1, OneLonger, Zenon
      <3>3. line_len[cur_line] \in Nat BY <1>t
      <3> QED BY <1>n, <1>t, <3>1, <3>2, <3>3 DEF BehindInv
    <2> QED BY <1>3, <2>3, <2>4, Zenon DEF editor!InsertShown
  <1>4. CASE editor!InsertControl
    <2>3. /\ num_lines' = n /\ line_len' = editor!Counted
          /\ cur_line' = cur_line /\ index_in_cur_line' = index_in_cur_line
      BY <1>4, Zenon DEF editor!InsertControl, n, editor!lineVars
    <2>4. line_len'[cur_line] = line_len[cur_line] + 1
      BY <1>t, <2>3, OneLonger, Zenon
    <2>5. line_len[cur_line] \in Nat BY <1>t
    <2> QED BY <1>n, <1>t, <2>3, <2>4, <2>5 DEF BehindInv
  <1>5. CASE editor!IgnoreErase \/ editor!Ignore \/ editor!Ended
    BY <1>5, <1>a
       DEF editor!IgnoreErase, editor!Ignore, editor!Ended, editor!editorVars,
           editor!bufferVars, editor!lineVars
  <1>6. CASE editor!LeaveInput
    BY <1>6, <1>a DEF editor!LeaveInput, editor!bufferVars, editor!lineVars
  <1>7. CASE editor!EnterInput
    BY <1>7, <1>a DEF editor!EnterInput, editor!lineVars
  <1>8. ASSUME NEW line \in Outcomes, editor!CommandLine(line)
        PROVE  BehindInv'
    BY <1>8, <1>a DEF editor!CommandLine, editor!bufferVars, editor!lineVars
  <1>9. CASE editor!CommandErased
    BY <1>9, <1>a DEF editor!CommandErased, editor!bufferVars, editor!lineVars
  <1>g. ASSUME NEW line \in 0 .. num_lines - 1, NEW top,
               editor!GoTo(line, editor!IndexIn(line), top)
        PROVE  BehindInv'
    <2>1. /\ cur_line' = line /\ index_in_cur_line' = editor!IndexIn(line)
          /\ UNCHANGED line_len
      BY <1>g, Zenon DEF editor!GoTo, editor!bufferVars
    <2>2. line_len[line] \in Nat BY <1>0, <1>t
    <2>3. editor!IndexIn(line) < line_len[line]
      BY <1>t, <2>2 DEF editor!IndexIn
    <2> QED BY <2>1, <2>3 DEF BehindInv
  <1>10. CASE editor!move_up
    <2>1. cur_line - 1 \in 0 .. num_lines - 1
      BY <1>10, <1>t DEF editor!move_up
    <2> QED BY <1>10, <1>g, <2>1, Zenon DEF editor!move_up
  <1>11. CASE editor!move_down
    <2>1. cur_line + 1 \in 0 .. num_lines - 1
      BY <1>11, <1>t DEF editor!move_down
    <2> QED BY <1>11, <1>g, <2>1, Zenon DEF editor!move_down
  <1>12. CASE editor!move_right
    <2>1. /\ index_in_cur_line' = index_in_cur_line + 1
          /\ UNCHANGED <<line_len, num_lines, cur_line>>
          /\ \/ index_in_cur_line < line_len[cur_line] - 1
             \/ cur_line = num_lines - 1
      BY <1>12, Zenon
         DEF editor!move_right, editor!MayMoveRight, editor!bufferVars
    <2>2. line_len[cur_line] \in Nat BY <1>t
    <2> QED BY <1>t, <2>1, <2>2 DEF BehindInv
  <1>13. CASE editor!move_left
    <2>1. /\ index_in_cur_line' = index_in_cur_line - 1
          /\ UNCHANGED <<line_len, num_lines, cur_line>>
      BY <1>13, Zenon DEF editor!move_left, editor!bufferVars
    <2>2. line_len[cur_line] \in Nat BY <1>t
    <2> QED BY <1>t, <2>1, <2>2 DEF BehindInv
  <1> QED
    BY <1>1, <1>2, <1>3, <1>4, <1>5, <1>6, <1>7, <1>8, <1>9, <1>10, <1>11,
       <1>12, <1>13, Zenon
       DEF editor!Next

\* A newline moves the starts of the later lines.
LEMMA StartsSplit ==
    ASSUME MAXLINES \in Nat, DOMAIN line_start = 0 .. MAXLINES - 1,
           cur_line \in Nat, cur_line + 1 \in 0 .. MAXLINES - 1
    PROVE  LET starts == editor!SplitStarts
           IN  /\ \A k \in 0 .. cur_line : starts[k] = line_start[k]
               /\ starts[cur_line + 1]
                     = line_start[cur_line] + index_in_cur_line + 1
               /\ \A k \in cur_line + 2 .. MAXLINES - 1 :
                     starts[k] = line_start[k - 1] + 1
  <1> DEFINE starts == editor!SplitStarts
             c == cur_line
             behind == line_start[c] + index_in_cur_line + 1
             cell(k) == CASE k <= c    -> line_start[k]
                          [] k = c + 1 -> behind
                          [] OTHER     -> line_start[k - 1] + 1
  <1>1. starts = [k \in 0 .. MAXLINES - 1 |-> cell(k)]
    BY Zenon DEF editor!SplitStarts
  <1> HIDE DEF starts
  <1>2. ASSUME NEW k \in 0 .. c PROVE starts[k] = line_start[k]
    <2>1. k \in 0 .. MAXLINES - 1 /\ k <= c /\ k # c + 1 OBVIOUS
    <2> QED BY <1>1, <2>1, Zenon
  <1>3. starts[c + 1] = behind
    <2> DEFINE k == c + 1
    <2>1. k \in 0 .. MAXLINES - 1 /\ ~(k <= c) /\ k = c + 1 OBVIOUS
    <2> HIDE DEF k, behind
    <2>2. starts[k] = behind BY <1>1, <2>1, Zenon
    <2> HIDE DEF cell
    <2> QED BY ONLY <2>1, <2>2
  <1>4. ASSUME NEW k \in c + 2 .. MAXLINES - 1
        PROVE  starts[k] = line_start[k - 1] + 1
    <2>1. k \in 0 .. MAXLINES - 1 /\ ~(k <= c) /\ k # c + 1 OBVIOUS
    <2> HIDE DEF behind
    <2> QED BY <1>1, <2>1, Zenon
  <1> QED BY <1>2, <1>3, <1>4, Zenon DEF starts, behind

\* What the table of TableFits is, before a character is inserted.
LEMMA FromTable ==
    ASSUME editor!EditorAssumption, EditorInv, ViewInv, editor!TableFits,
           editor!CursorsAgree, index_in_cur_line >= 0
    PROVE  /\ Fits(line_len, line_start, text, editor!LinesCounted)
           /\ index = Sum(line_len, cur_line) + index_in_cur_line
           /\ index \in Nat /\ line_start[cur_line] \in Nat
  <1> DEFINE n == editor!LinesCounted
  <1>1. /\ n \in 1 .. MAXLINES /\ cur_line \in 0 .. n - 1
        /\ n = IF Len(text) = 0 THEN 1 ELSE num_lines
    <2>1. n \in 1 .. MAXLINES /\ cur_line \in 0 .. n - 1
      BY LinesThere, Zenon
    <2>2. n = IF Len(text) = 0 THEN num_lines + 1 ELSE num_lines
      BY DEF editor!LinesCounted, editor!size
    <2>3. Len(text) = 0 => num_lines = 0 BY DEF EditorInv
    <2> HIDE DEF n
    <2> QED BY <2>1, <2>2, <2>3
  <1> HIDE DEF n
  <1>2. Fits(line_len, line_start, text, n)
    <2>1. CASE Len(text) = 0
      <3>1. n = 1 BY <1>1, <2>1
      <3>2. ASSUME NEW l \in 0 .. n - 1
            PROVE  line_start[l] = Sum(line_len, l) /\ ~(l < n - 1)
        <4>1. l = 0 BY <3>1
        <4>2. Sum(line_len, 0) = 0 BY SumNext
        <4>3. line_start[0] = 0 BY DEF ViewInv
        <4> QED BY <3>1, <4>1, <4>2, <4>3
      <3>3. Newlines(text) = {} BY <2>1 DEF Newlines
      <3>4. Cardinality({}) = 0 BY FS_EmptySet
      <3>5. n = Cardinality(Newlines(text)) + 1 BY <3>1, <3>3, <3>4
      <3> QED BY <3>2, <3>5, Zenon DEF Fits
    <2>2. CASE Len(text) # 0
      <3>1. /\ \A l \in editor!Lines :
                  /\ line_start[l] = editor!CharactersBefore(l)
                  /\ l < num_lines - 1 =>
                        /\ line_len[l] > 0
                        /\ text[line_start[l] + line_len[l]] = editor!Newline
            /\ num_lines = IF editor!size = 0 THEN 0
                ELSE editor!Cardinality({j \in 1 .. editor!size :
                                           text[j] = editor!Newline}) + 1
        BY Zenon DEF editor!TableFits
      <3>2. n = num_lines BY <1>1, <2>2
      <3>3. n = Cardinality(Newlines(text)) + 1
        <4>1. editor!size = Len(text) BY DEF editor!size
        <4>2. n = editor!Cardinality(Newlines(text)) + 1
          BY <2>2, <3>1, <3>2, <4>1, Zenon DEF Newlines
        <4> QED BY <4>2, Counting, Zenon
      <3>4. ASSUME NEW l \in 0 .. n - 1
            PROVE  /\ line_start[l] = Sum(line_len, l)
                   /\ l < n - 1 =>
                        /\ line_len[l] > 0
                        /\ text[Sum(line_len, l) + line_len[l]]
                              = editor!Newline
        <4>1. l \in editor!Lines BY <3>2, Zenon DEF editor!Lines
        <4>2. editor!CharactersBefore(l) = Sum(line_len, l) BY Before, Zenon
        <4> QED BY <3>1, <3>2, <4>1, <4>2, Zenon
      <3> QED BY <3>3, <3>4, Zenon DEF Fits
    <2> QED BY <2>1, <2>2
  <1>3. line_start[cur_line] = Sum(line_len, cur_line)
    BY <1>1, <1>2, Zenon DEF Fits
  <1>4. index = Sum(line_len, cur_line) + index_in_cur_line
    BY <1>3, Zenon DEF editor!CursorsAgree
  <1>5. Sum(line_len, cur_line) \in Nat
    <2>1. /\ cur_line \in Nat /\ cur_line <= cur_line
          /\ \A k \in 0 .. cur_line - 1 : line_len[k] \in Nat
      BY <1>1, MAXLINES \in Nat
         DEF EditorInv, EditorTypes, editor!EditorAssumption
    <2> QED BY <2>1, SumGrows, Zenon
  <1>6. index \in Nat BY <1>4, <1>5 DEF EditorInv, EditorTypes
  <1> QED BY <1>2, <1>3, <1>4, <1>5, <1>6, Zenon DEF n

\* And after.
LEMMA ToTable ==
    ASSUME Fits(line_len', line_start', text', num_lines'), Len(text') # 0
    PROVE  editor!TableFits'
  <1> DEFINE n == num_lines'
  <1>1. editor!size' = Len(text') /\ editor!size' # 0 BY DEF editor!size
  <1>2. ASSUME NEW l \in editor!Lines'
        PROVE  /\ line_start'[l] = editor!CharactersBefore(l)'
               /\ l < num_lines' - 1 =>
                     /\ line_len'[l] > 0
                     /\ text'[line_start'[l] + line_len'[l]] = editor!Newline
    <2>1. l \in 0 .. num_lines' - 1 BY Zenon DEF editor!Lines
    <2>2. editor!CharactersBefore(l)' = Sum(line_len', l)
      BY Zenon DEF editor!CharactersBefore, Sum
    <2>3. /\ line_start'[l] = Sum(line_len', l)
          /\ l < num_lines' - 1 =>
                /\ line_len'[l] > 0
                /\ text'[Sum(line_len', l) + line_len'[l]] = editor!Newline
      BY <2>1, Zenon DEF Fits
    <2> QED BY <2>2, <2>3, Zenon
  <1>3. num_lines' = editor!Cardinality({j \in 1 .. editor!size' :
                                           text'[j] = editor!Newline}) + 1
    <2>1. num_lines' = Cardinality(Newlines(text')) + 1 BY Zenon DEF Fits
    <2>2. num_lines' = editor!Cardinality(Newlines(text')) + 1
      BY <2>1, Counting, Zenon
    <2> QED BY <1>1, <2>2, Zenon DEF Newlines
  <1> QED BY <1>1, <1>2, <1>3, Zenon DEF editor!TableFits

\* Where a character is stored.
LEMMA StoredAt ==
    ASSUME EditorInv, NEW key \in editor!Keys, editor!StoreCharacter(key),
           index \in Nat
    PROVE  /\ Inserts(text', text, index + 1, key) /\ index' = index + 1
           /\ text'[index'] = key /\ Len(text') # 0
  <1> DEFINE S == editor!Keys
             pos == index + 1
  <1>1. /\ text \in Seq(S) /\ key \in S /\ Len(text) \in Nat
        /\ pos \in 1 .. Len(text) + 1
    BY DEF EditorInv, EditorTypes
  <1>2. index' = pos /\ text' = editor!InsertAt(text, pos, key)
    <2>1. ~(index < 0) OBVIOUS
    <2> QED BY <2>1, Zenon DEF editor!StoreCharacter
  <1> HIDE DEF S, pos
  <1>3. text' = With(text, pos, key) BY <1>2, Zenon DEF editor!InsertAt, With
  <1>4. Inserts(text', text, pos, key) BY <1>1, <1>3, Inserted, Zenon
  <1>5. pos \in 1 .. Len(text') /\ Len(text') = Len(text) + 1 /\ ~(pos < pos)
    BY <1>1, <1>4 DEF Inserts
  <1>6. text'[pos] = key BY <1>4, <1>5, Zenon DEF Inserts
  <1>7. Len(text') # 0 BY <1>1, <1>5
  <1> QED BY <1>2, <1>4, <1>6, <1>7, Zenon DEF pos

\* A character that is shown leaves a table true to the text.
LEMMA TableStep ==
    ASSUME editor!EditorAssumption, EditorInv, ViewInv, BehindInv,
           [editor!Next]_(editor!editorVars)
    PROVE  editor!TableKept
  <1> SUFFICES ASSUME editor!TableFits, editor!CursorsAgree,
                      index_in_cur_line >= 0, editor!size' > editor!size,
                      text'[index'] # editor!Control
               PROVE  (editor!TableFits /\ editor!CursorsAgree)'
    BY Zenon DEF editor!TableKept
  <1> DEFINE n == editor!LinesCounted
             c == cur_line
             idx == index_in_cur_line
  <1>0. MAXLINES \in Nat BY DEF editor!EditorAssumption
  <1>1. /\ Fits(line_len, line_start, text, n)
        /\ index = Sum(line_len, c) + idx /\ index \in Nat
        /\ line_start[c] \in Nat
    BY FromTable, Zenon
  <1>2. /\ n \in 1 .. MAXLINES /\ c \in 0 .. n - 1
        /\ Sum(line_len, n) = Len(text)
        /\ num_lines < MAXLINES => n < MAXLINES
    BY LinesThere, Zenon
  <1>3. /\ line_len \in [0 .. MAXLINES - 1 -> Nat] /\ idx \in Int
        /\ idx <= line_len[c] /\ Len(text) \in Nat
        /\ num_lines \in 0 .. MAXLINES
        /\ DOMAIN line_start = 0 .. MAXLINES - 1
    BY DEF EditorInv, EditorTypes, ViewInv
  <1>4. c < n - 1 => idx < line_len[c]
    <2>1. n = IF Len(text) = 0 THEN num_lines + 1 ELSE num_lines
      BY DEF editor!LinesCounted, editor!size
    <2>2. Len(text) = 0 => num_lines = 0 BY DEF EditorInv
    <2> QED BY <1>2, <2>1, <2>2 DEF BehindInv
  <1>5. index = line_start[c] + idx BY Zenon DEF editor!CursorsAgree
  <1> HIDE DEF n
  <1>6. ASSUME NEW key, Inserts(text', text, index + 1, key)
        PROVE  Types(line_len, line_start, text, n, c, idx, text', key)
    <2>1. /\ n \in Nat /\ idx \in Nat
          /\ \A k \in 0 .. n - 1 : line_len[k] \in Nat
          /\ Len(text) = Sum(line_len, n)
      BY <1>0, <1>2, <1>3
    <2>2. Inserts(text', text, Sum(line_len, c) + idx + 1, key)
      BY <1>1, <1>6, Zenon
    <2> QED BY <1>1, <1>2, <1>3, <1>4, <2>1, <2>2, Zenon DEF Types
  <1>s. ASSUME UNCHANGED text PROVE FALSE
    BY <1>s, <1>3 DEF editor!size
  <1>7. ASSUME NEW key \in editor!Keys, editor!InsertShown(key)
        PROVE  (editor!TableFits /\ editor!CursorsAgree)'
    <2>1. /\ Inserts(text', text, index + 1, key) /\ index' = index + 1
          /\ Len(text') # 0
      BY <1>1, <1>7, StoredAt, Zenon DEF editor!InsertShown
    <2>2. Types(line_len, line_start, text, n, c, idx, text', key)
      BY <1>6, <2>1, Zenon
    <2>3. CASE key = editor!Newline /\ editor!SplitLine
      <3>1. /\ num_lines' = n + 1 /\ line_len' = editor!SplitLengths
            /\ line_start' = editor!SplitStarts
            /\ cur_line' = c + 1 /\ index_in_cur_line' = 0
        BY <2>3, Zenon DEF editor!SplitLine, n
      <3>2. num_lines < MAXLINES
        <4>1. num_lines # MAXLINES
          BY <1>7, <2>3, Zenon DEF editor!InsertShown, editor!TooMany
        <4> QED BY <4>1, <1>0, <1>3
      <3>3. /\ \A k \in 0 .. c - 1 : line_len'[k] = line_len[k]
            /\ c + 1 \in 0 .. MAXLINES - 1
            /\ line_len'[c] = idx + 1 /\ line_len'[c + 1] = line_len[c] - idx
            /\ \A k \in c + 2 .. MAXLINES - 1 : line_len'[k] = line_len[k - 1]
        BY <3>1, <3>2, OneSplit, Zenon
      <3>4. c \in Nat BY <1>2
      <3>5. /\ \A k \in 0 .. c : line_start'[k] = line_start[k]
            /\ line_start'[c + 1] = line_start[c] + idx + 1
            /\ \A k \in c + 2 .. MAXLINES - 1 :
                  line_start'[k] = line_start[k - 1] + 1
        BY <1>0, <1>3, <3>1, <3>3, <3>4, StartsSplit, Zenon
      <3>6. \A k \in c + 2 .. n : k \in c + 2 .. MAXLINES - 1
        BY <1>0, <1>2, <3>2
      <3>7. Types(line_len, line_start, text, n, c, idx, text', editor!Newline)
        BY <2>2, <2>3, Zenon
      <3>8. /\ \A k \in c + 2 .. n : line_len'[k] = line_len[k - 1]
            /\ \A k \in c + 2 .. n : line_start'[k] = line_start[k - 1] + 1
        BY <3>3, <3>5, <3>6, Zenon
      <3>9. Fits(line_len', line_start', text', n + 1)
        <4> HIDE DEF c, idx
        <4> QED BY ONLY <3>3, <3>5, <3>7, <3>8, FitsSplit
      <3>10. Fits(line_len', line_start', text', num_lines')
        BY <3>1, <3>9, Zenon
      <3>11. editor!TableFits' BY <2>1, <3>10, ToTable, Zenon
      <3>12. index' = line_start'[cur_line'] + index_in_cur_line'
        BY <1>1, <1>3, <1>5, <2>1, <3>1, <3>5
      <3>13. editor!CursorsAgree' BY <3>12, Zenon DEF editor!CursorsAgree
      <3> QED BY <3>11, <3>13
    <2>4. CASE key = editor!Printable /\ editor!LengthenLine
      <3>1. /\ num_lines' = n /\ line_len' = editor!Counted
            /\ line_start' = [l \in DOMAIN line_start |->
                                 IF l \in c + 1 .. n - 1
                                 THEN line_start[l] + 1 ELSE line_start[l]]
            /\ cur_line' = c /\ index_in_cur_line' = idx + 1
        BY <2>4, Zenon DEF editor!LengthenLine, n
      <3>2. \A k \in 0 .. MAXLINES - 1 :
               line_len'[k] = IF k = c THEN line_len[k] + 1 ELSE line_len[k]
        BY <3>1, OneLonger, Zenon
      <3>3. \A k \in 0 .. n - 1 : k \in 0 .. MAXLINES - 1 BY <1>0, <1>2
      <3>4. \A k \in 0 .. n - 1 :
               line_len'[k] = IF k = c THEN line_len[k] + 1 ELSE line_len[k]
        BY <3>2, <3>3, Zenon
      <3>5. \A k \in 0 .. n - 1 :
               line_start'[k] = IF k \in c + 1 .. n - 1
                                THEN line_start[k] + 1 ELSE line_start[k]
        BY <1>3, <3>1, <3>3, Zenon
      <3>6. key # editor!Newline
        BY <2>4 DEF editor!Printable, editor!Newline
      <3>7. Fits(line_len', line_start', text', n)
        <4> HIDE DEF c, idx
        <4> QED BY ONLY <2>2, <3>4, <3>5, <3>6, FitsLonger
      <3>8. editor!TableFits' BY <2>1, <3>1, <3>7, ToTable, Zenon
      <3>9. line_start'[c] = line_start[c]
        <4>1. c \in 0 .. n - 1 /\ ~(c \in c + 1 .. n - 1) BY <1>2
        <4> QED BY <3>5, <4>1, Zenon
      <3>10. index' = line_start'[cur_line'] + index_in_cur_line'
        BY <1>1, <1>3, <1>5, <2>1, <3>1, <3>9
      <3>11. editor!CursorsAgree' BY <3>10, Zenon DEF editor!CursorsAgree
      <3> QED BY <3>8, <3>11
    <2> QED BY <1>7, <2>3, <2>4, Zenon DEF editor!InsertShown
  <1>8. CASE editor!InsertControl
    <2>1. editor!Control \in editor!Keys BY DEF editor!Keys
    <2>2. text'[index'] = editor!Control
      BY <1>1, <1>8, <2>1, StoredAt, Zenon DEF editor!InsertControl
    <2> QED BY <2>2
  <1>9. ASSUME NEW key \in editor!Keys, editor!Refuse(key) PROVE FALSE
    BY <1>9, <1>s DEF editor!Refuse, editor!bufferVars
  <1>10. ASSUME NEW line \in Outcomes, editor!CommandLine(line) PROVE FALSE
    BY <1>10, <1>s DEF editor!CommandLine, editor!bufferVars
  <1>11. CASE \/ editor!IgnoreErase \/ editor!Ignore \/ editor!Ended
              \/ UNCHANGED editor!editorVars
    BY <1>11, <1>s
       DEF editor!IgnoreErase, editor!Ignore, editor!Ended, editor!editorVars,
           editor!bufferVars
  <1>12. CASE editor!LeaveInput \/ editor!CommandErased
    BY <1>12, <1>s
       DEF editor!LeaveInput, editor!CommandErased, editor!bufferVars
  <1>13. CASE editor!EnterInput
    BY <1>13, <1>s DEF editor!EnterInput
  <1>14. CASE editor!move_up \/ editor!move_down
    <2>1. \E line, idx2, top : editor!GoTo(line, idx2, top)
      BY <1>14, Zenon DEF editor!move_up, editor!move_down
    <2>2. UNCHANGED text
      BY <2>1, Zenon DEF editor!GoTo, editor!bufferVars
    <2> QED BY <1>s, <2>2
  <1>15. CASE editor!move_right \/ editor!move_left
    <2>1. UNCHANGED text
      BY <1>15, Zenon
         DEF editor!move_right, editor!move_left, editor!bufferVars
    <2> QED BY <1>s, <2>1
  <1> QED
    BY <1>7, <1>8, <1>9, <1>10, <1>11, <1>12, <1>13, <1>14, <1>15, Zenon
       DEF editor!Next

-----------------------------------------------------------------------------
(* Types *)

\* What the automaton keeps: its state, and letters for the name.
Typed(r) == r.state \in 1 .. 9 /\ r.filename \in Seq(Letters)

\* One more character keeps that.
LEMMA OneMoreTyped ==
    ASSUME NEW a, NEW b, NEW c \in lastline!Characters, Step(a, b, c), Typed(a)
    PROVE  Typed(b)
  <1>1. b.state \in 1 .. 9 /\ (b.state = 6 => c \in Letters)
    <2>1. /\ Letters = {"w", "q", "a"} /\ a.state \in 1 .. 9
      BY Kinds DEF Typed
    <2>2. a.state = 1 \/ a.state = 2 \/ a.state = 3 \/ a.state = 4
          \/ a.state \in {5, 8} \/ a.state = 6 \/ a.state = 7 \/ a.state = 9
      BY <2>1
    <2> QED BY <2>2 DEF Step
  <1>2. b.filename = IF b.state = 6 THEN Append(a.filename, c) ELSE a.filename
    BY Zenon DEF Step
  <1>3. b.filename \in Seq(Letters) BY <1>1, <1>2 DEF Typed
  <1> QED BY <1>1, <1>3 DEF Typed

\* So does a whole line.
LEMMA TypedAll ==
    ASSUME tempstr \in Seq(lastline!Characters), NEW p, Reads(p, tempstr)
    PROVE  Typed(p[Len(tempstr)])
  <1> DEFINE n == Len(tempstr)
             T == {k \in 0 .. n : Typed(p[k])}
  <1>0. n \in Nat OBVIOUS
  <1>1. 0 \in T
    <2> DEFINE r == lastline!Begin
    <2>1. r.state = 1 /\ r.filename = <<>> BY Begins
    <2> HIDE DEF r
    <2>2. Typed(r) BY <2>1 DEF Typed
    <2>3. p[0] = r BY Zenon DEF Reads, r
    <2> QED BY <1>0, <2>2, <2>3
  <1>2. ASSUME NEW k0 \in 0 .. n - 1, k0 \in T PROVE k0 + 1 \in T
    <2> DEFINE k == k0 + 1
    <2>1. k \in 1 .. n /\ k - 1 = k0 /\ k \in 0 .. n BY <1>0
    <2>2. Typed(p[k0]) BY <1>2
    <2> HIDE DEF k
    <2>3. Step(p[k - 1], p[k], tempstr[k]) BY <2>1, Steps, Zenon
    <2>4. tempstr[k] \in lastline!Characters BY <2>1
    <2>5. Typed(p[k]) BY <2>1, <2>2, <2>3, <2>4, OneMoreTyped, Zenon
    <2> QED BY <2>1, <2>5 DEF k
  <1> HIDE DEF T
  <1>3. 0 .. n \subseteq T BY <1>0, <1>1, <1>2, UpTo
  <1>4. n \in T BY <1>0, <1>3
  <1> QED BY <1>4, Zenon DEF T

\* A result has a status and a name.
ResultOK(r) == r.status \in -1 .. 1 /\ r.filename \in Seq(Letters)
\* So has what parse_lastline returns.
LEMMA ParsedTyped ==
    ASSUME tempstr \in Seq(lastline!Characters)
    PROVE  ResultOK(lastline!parse_lastline(tempstr))
  <1>1. PICK p : /\ Reads(p, tempstr)
                 /\ lastline!parse_lastline(tempstr) = Result(p[Len(tempstr)])
    BY Parsed
  <1> DEFINE r == p[Len(tempstr)]
  <1>2. Typed(r) BY <1>1, TypedAll, Zenon
  <1> HIDE DEF r
  <1>3. ResultOK(Result(r)) BY <1>2 DEF Typed, Result, ResultOK
  <1> QED BY <1>1, <1>3, Zenon DEF r

\* The prompt starts with its types.
LEMMA PromptTypesInit ==
    lastline!Init /\ MaxCommand \in Nat => lastline!LineTypeOK
  <1> SUFFICES ASSUME lastline!Init, MaxCommand \in Nat
               PROVE  lastline!LineTypeOK
    OBVIOUS
  <1>1. /\ prompt = "open" /\ tempstr = <<>>
        /\ result = [status |-> 0, filename |-> <<>>]
    BY Zenon DEF lastline!Init, lastline!NoResult
  <1>2. result.status = 0 /\ result.filename = <<>> BY <1>1
  <1> QED BY <1>1, <1>2 DEF lastline!LineTypeOK

\* Every step of the prompt keeps them.
LEMMA PromptTypesKept ==
    ASSUME PromptInv, lastline!LineTypeOK, MaxCommand \in Nat,
           [lastline!do_lastline_mode]_(lastline!promptVars)
    PROVE  lastline!LineTypeOK'
  <1>0. /\ prompt \in {"open", "entered", "erased"}
        /\ tempstr \in Seq(lastline!Characters) /\ Len(tempstr) \in Nat
        /\ Len(tempstr) <= MaxCommand /\ ResultOK(result)
    BY DEF lastline!LineTypeOK, ResultOK, Letters
  <1>s. ASSUME prompt' \in {"open", "entered", "erased"},
               tempstr' \in Seq(lastline!Characters),
               Len(tempstr') <= MaxCommand, ResultOK(result')
        PROVE  lastline!LineTypeOK'
    BY <1>s DEF lastline!LineTypeOK, ResultOK, Letters
  <1>1. CASE UNCHANGED <<prompt, tempstr, result>>
    BY <1>0, <1>1, <1>s
  <1>2. ASSUME NEW c \in lastline!Characters, lastline!TypeCharacter(c)
        PROVE  lastline!LineTypeOK'
    <2>1. /\ Len(tempstr) < MaxCommand /\ tempstr' = Append(tempstr, c)
          /\ UNCHANGED <<prompt, result>>
      BY <1>2, Zenon DEF lastline!TypeCharacter
    <2> QED BY <1>0, <1>s, <2>1
  <1>3. CASE lastline!Erase
    <2>1. CASE tempstr # <<>>
      <3>1. /\ tempstr' = lastline!Front(tempstr)
            /\ UNCHANGED <<prompt, result>>
        BY <1>3, <2>1, Zenon DEF lastline!Erase
      <3>2. /\ tempstr' \in Seq(lastline!Characters)
            /\ Len(tempstr') <= Len(tempstr) /\ Len(tempstr') \in Nat
        BY <1>0, <2>1, <3>1 DEF lastline!Front
      <3>3. Len(tempstr') <= MaxCommand BY <1>0, <3>2
      <3> QED BY <1>0, <1>s, <3>1, <3>2, <3>3
    <2>2. CASE tempstr = <<>>
      <3>1. /\ prompt' = "erased" /\ tempstr' = tempstr
            /\ \E garbage \in -1 .. 1 :
                  result' = [status |-> garbage, filename |-> <<>>]
        BY <1>3, <2>2, Zenon DEF lastline!Erase
      <3>2. ResultOK(result') BY <3>1 DEF ResultOK
      <3> QED BY <1>0, <1>s, <3>1, <3>2
    <2> QED BY <2>1, <2>2
  <1>4. CASE lastline!Enter
    <2>1. /\ prompt' = "entered" /\ tempstr' = tempstr
          /\ result' = lastline!parse_lastline(tempstr)
      BY <1>4, Zenon DEF lastline!Enter
    <2>2. ResultOK(result') BY <1>0, <2>1, ParsedTyped
    <2> QED BY <1>0, <1>s, <2>1, <2>2
  <1> QED
    BY <1>1, <1>2, <1>3, <1>4, Zenon
       DEF lastline!do_lastline_mode, lastline!promptVars, lastline!Ended

\* The column of a character on the screen, by its place in its line.
Column(idx) == idx - (IF idx < 0 THEN 0 ELSE idx \div cols) * cols

\* One character to the right is one column to the right, or the first one.
LEMMA ColumnRight ==
    ASSUME editor!EditorAssumption, NEW idx \in Int, idx >= -1
    PROVE  /\ Column(idx) \in -1 .. cols - 1
           /\ Column(idx + 1) = IF Column(idx) + 1 = cols THEN 0
                                ELSE Column(idx) + 1
           /\ (idx + 1) % cols = 0 <=> Column(idx + 1) = 0
           /\ Column(0) = 0
  <1>0. cols \in Nat /\ cols > 1 BY DEF editor!EditorAssumption
  <1>1. ASSUME NEW k \in Nat PROVE Column(k) = Place(0, k).c
    <2>1. ~(k < 0) OBVIOUS
    <2> QED BY <2>1, Zenon DEF Column, Place
  <1>2. Column(0) = 0
    <2>1. Place(0, 0) = [r |-> 0, c |-> 0] BY PlaceZero
    <2> QED BY <1>1, <2>1
  <1>3. CASE idx = -1
    <2>1. 0 * cols = 0 BY <1>0
    <2>2. Column(idx) = -1 BY <1>3, <2>1 DEF Column
    <2>3. idx + 1 = 0 BY <1>3
    <2>4. 0 % cols = 0 BY <1>0
    <2> QED BY <1>0, <1>2, <2>2, <2>3, <2>4
  <1>4. CASE idx >= 0
    <2> DEFINE p == Place(0, idx)
    <2>1. /\ idx \in Nat /\ idx + 1 \in Nat
      BY <1>4
    <2>2. /\ p.c \in 0 .. cols - 1
          /\ Place(0, idx + 1) = IF p.c + 1 = cols
                                 THEN [r |-> p.r + 1, c |-> 0]
                                 ELSE [r |-> p.r, c |-> p.c + 1]
          /\ (idx + 1) % cols = 0 <=> p.c + 1 = cols
      BY <2>1, 0 \in Int, PlaceRight, Zenon
    <2>3. Column(idx) = p.c /\ Column(idx + 1) = Place(0, idx + 1).c
      BY <1>1, <2>1, Zenon
    <2> HIDE DEF p
    <2>4. Column(idx + 1) = IF p.c + 1 = cols THEN 0 ELSE p.c + 1
      BY <2>2, <2>3
    <2> QED BY <1>0, <1>2, <2>2, <2>3, <2>4
  <1> QED BY <1>3, <1>4

\* What EditorInv and ViewInv do not say of the types.  The column of the
\* cursor is always that of its place in its line, also where its row is not
\* (CursorAsComputed): otherwise move_left could leave the screen at the left.
BoundsInv ==
    /\ mode \in {"command", "input", "ended"}
    /\ text \in Seq(editor!Keys \ {editor!EraseKey}) /\ Len(text) <= BUFSIZ
    /\ line_at_top <= MaxTop
    /\ curs.c = Column(index_in_cur_line)

\* simplevi starts with that.
LEMMA BoundsInit == editor!EditorAssumption /\ editor!Init => BoundsInv
  <1> SUFFICES ASSUME editor!EditorAssumption, editor!Init PROVE BoundsInv
    OBVIOUS
  <1>1. /\ mode = "command" /\ text = <<>> /\ line_at_top = 0
        /\ curs = [r |-> 0, c |-> 0] /\ index_in_cur_line = 0
        /\ BUFSIZ \in Nat /\ MaxTop \in Nat
    BY DEF editor!Init, editor!EditorAssumption
  <1>2. Column(0) = 0 BY ColumnRight, 0 \in Int, 0 >= -1
  <1> QED BY <1>1, <1>2 DEF BoundsInv

\* The three invariants imply the types.
LEMMA EditorTypesSafe ==
    ASSUME editor!EditorAssumption, EditorInv, ViewInv, BoundsInv
    PROVE  editor!EditorTypeOK
  <1>0. /\ MAXLINES \in Nat /\ BUFSIZ \in Nat
        /\ line_len \in [0 .. MAXLINES - 1 -> Nat]
        /\ num_lines \in 0 .. MAXLINES /\ cur_line \in 0 .. MAXLINES - 1
        /\ index_in_cur_line \in Int /\ -1 <= index_in_cur_line
        /\ index_in_cur_line <= line_len[cur_line]
        /\ index \in -1 .. Len(text) /\ Len(text) \in Nat
    BY DEF EditorInv, EditorTypes, editor!EditorAssumption
  <1>1. line_len[cur_line] <= Len(text)
    <2>1. CASE Len(text) = 0 BY <1>0, <2>1 DEF EditorInv
    <2>2. CASE Len(text) # 0
      <3>1. /\ cur_line < num_lines /\ Sum(line_len, num_lines) = Len(text)
        BY <2>2 DEF EditorInv
      <3>2. /\ \A k \in 0 .. num_lines - 1 : line_len[k] \in Nat
            /\ cur_line \in Nat /\ num_lines \in Nat
        BY <1>0
      <3>3. /\ Sum(line_len, cur_line) \in Nat
            /\ Sum(line_len, cur_line) + line_len[cur_line]
                  <= Sum(line_len, num_lines)
        BY <3>1, <3>2, SumGrows
      <3>4. line_len[cur_line] \in Nat BY <1>0
      <3> QED BY <1>0, <3>1, <3>3, <3>4
    <2> QED BY <2>1, <2>2
  <1>2. line_len[cur_line] \in Nat BY <1>0
  <1>3. index_in_cur_line \in -1 .. BUFSIZ
    BY <1>0, <1>1, <1>2 DEF BoundsInv
  <1>4. Column(index_in_cur_line) \in -1 .. cols - 1
    BY <1>0, ColumnRight
  <1>5. curs.r \in Int /\ curs.c \in -1 .. cols - 1
    BY <1>4 DEF ViewInv, BoundsInv
  <1>6. line_at_top \in 0 .. MaxTop
    BY DEF ViewInv, BoundsInv, editor!EditorAssumption
  <1> QED
    BY <1>0, <1>3, <1>5, <1>6
       DEF EditorInv, EditorTypes, ViewInv, BoundsInv, editor!EditorTypeOK,
           editor!size

\* A stored character is one that can be in the text.
LEMMA StoredOK ==
    ASSUME EditorInv, NEW S, NEW key \in S, text \in Seq(S),
           S = editor!Keys \ {editor!EraseKey}, editor!StoreCharacter(key)
    PROVE  text' \in Seq(S)
  <1>0. index \in -1 .. Len(text) BY DEF EditorInv, EditorTypes
  <1>2. CASE index >= 0 /\ text' = editor!InsertAt(text, index + 1, key)
    <2> DEFINE pos == index + 1
    <2>1. text' = With(text, pos, key)
      BY <1>2, Zenon DEF editor!InsertAt, With
    <2>2. pos \in 1 .. Len(text) + 1 BY <1>0, <1>2
    <2> HIDE DEF pos
    <2> QED BY <2>1, <2>2, Inserted, Zenon
  <1>3. CASE \E garbage \in S : text' = <<garbage>> \o text
    BY <1>3
  <1> QED BY <1>2, <1>3, Zenon DEF editor!StoreCharacter

\* Every step keeps BoundsInv.
LEMMA BoundsKept ==
    ASSUME editor!EditorAssumption, EditorInv, ViewInv, BoundsInv,
           [editor!Next]_(editor!editorVars)
    PROVE  BoundsInv'
  <1> DEFINE S == editor!Keys \ {editor!EraseKey}
             idx == index_in_cur_line
  <1>0. /\ cols \in Nat /\ cols > 1 /\ BUFSIZ \in Nat /\ MaxTop \in Nat
        /\ idx \in Int /\ idx >= -1
        /\ text \in Seq(S) /\ Len(text) \in Nat /\ Len(text) <= BUFSIZ
        /\ line_at_top <= MaxTop /\ curs.c = Column(idx)
        /\ curs \in [r : Int, c : Int]
    BY DEF editor!EditorAssumption, EditorInv, EditorTypes, BoundsInv, ViewInv
  <1>c. /\ Column(idx) \in -1 .. cols - 1
        /\ Column(idx + 1) = IF Column(idx) + 1 = cols THEN 0
                             ELSE Column(idx) + 1
        /\ (idx + 1) % cols = 0 <=> Column(idx + 1) = 0
        /\ Column(0) = 0
    BY <1>0, ColumnRight
  <1>s. ASSUME mode' \in {"command", "input", "ended"}, text' = text,
               line_at_top' <= MaxTop, curs'.c = Column(index_in_cur_line')
        PROVE  BoundsInv'
    BY <1>0, <1>s DEF BoundsInv, Column
  <1>a. ASSUME mode' \in {"command", "input", "ended"},
               UNCHANGED <<text, index_in_cur_line, line_at_top, curs>>
        PROVE  BoundsInv'
    BY <1>0, <1>a, <1>s
  <1>m. mode \in {"command", "input", "ended"} BY DEF BoundsInv
  <1>l. ASSUME NEW key \in S, editor!StoreCharacter(key),
               Len(text) # BUFSIZ
        PROVE  text' \in Seq(S) /\ Len(text') <= BUFSIZ
    <2>1. text' \in Seq(S) BY <1>0, <1>l, StoredOK
    <2>2. Len(text') = Len(text) + 1 BY <1>l, Stored
    <2> QED BY <1>0, <1>l, <2>1, <2>2
  <1> HIDE DEF S, idx
  <1>1. CASE UNCHANGED editor!editorVars
    BY <1>1, <1>a, <1>m
       DEF editor!editorVars, editor!bufferVars, editor!lineVars,
           editor!viewVars
  <1>2. ASSUME NEW key \in editor!Keys, editor!Refuse(key) PROVE BoundsInv'
    BY <1>2, <1>a
       DEF editor!Refuse, editor!bufferVars, editor!lineVars, editor!viewVars
  <1>3. CASE editor!IgnoreErase \/ editor!Ignore \/ editor!Ended
    BY <1>3, <1>a, <1>m
       DEF editor!IgnoreErase, editor!Ignore, editor!Ended, editor!editorVars,
           editor!bufferVars, editor!lineVars, editor!viewVars
  <1>4. CASE editor!LeaveInput \/ editor!EnterInput
    BY <1>4, <1>a
       DEF editor!LeaveInput, editor!EnterInput, editor!bufferVars,
           editor!lineVars, editor!viewVars
  <1>5. CASE editor!CommandErased
    BY <1>5, <1>a
       DEF editor!CommandErased, editor!AfterCommand, editor!bufferVars,
           editor!lineVars, editor!viewVars
  <1>6. ASSUME NEW line \in Outcomes, editor!CommandLine(line)
        PROVE  BoundsInv'
    <2>1. /\ mode' \in {"command", "input", "ended"}
          /\ UNCHANGED <<text, index_in_cur_line, line_at_top, curs>>
      BY <1>6, Zenon
         DEF editor!CommandLine, editor!AfterCommand, editor!bufferVars,
             editor!lineVars, editor!viewVars
    <2> QED BY <1>a, <2>1
  <1>7. ASSUME NEW key \in editor!Keys, editor!InsertShown(key)
        PROVE  BoundsInv'
    <2> DEFINE at0 == editor!advance_cursor(key)
    <2>1. key \in S /\ Len(text) # BUFSIZ
      BY <1>7
         DEF editor!InsertShown, editor!TooMany, editor!size, S, editor!Keys,
             editor!EraseKey, editor!Newline, editor!Printable
    <2>2. text' \in Seq(S) /\ Len(text') <= BUFSIZ
      BY <1>7, <1>l, <2>1, Zenon DEF editor!InsertShown
    <2>3. mode' = mode /\ editor!redraw_buffer(at0)
      BY <1>7, Zenon DEF editor!InsertShown
    <2>4. at0.c = Column(index_in_cur_line')
      <3>1. CASE key = editor!Newline /\ editor!SplitLine
        <4>1. at0 = [r |-> curs.r + 1, c |-> 0] /\ index_in_cur_line' = 0
          BY <3>1, Zenon DEF editor!advance_cursor, editor!SplitLine
        <4> QED BY <1>c, <4>1
      <3>2. CASE key = editor!Printable /\ editor!LengthenLine
        <4>1. key # editor!Newline
          BY <3>2 DEF editor!Newline, editor!Printable
        <4>2. at0 = IF curs.c + 1 = cols THEN [r |-> curs.r + 1, c |-> 0]
                    ELSE [curs EXCEPT !.c = curs.c + 1]
          BY <4>1, Zenon DEF editor!advance_cursor
        <4>3. at0.c = IF curs.c + 1 = cols THEN 0 ELSE curs.c + 1
          BY <1>0, <4>2
        <4>4. index_in_cur_line' = idx + 1
          BY <3>2, Zenon DEF editor!LengthenLine, idx
        <4> QED BY <1>0, <1>c, <4>3, <4>4
      <3> QED BY <1>7, <3>1, <3>2, Zenon DEF editor!InsertShown
    <2>5. at0 \in [r : Int, c : Int] BY <1>0, Advanced
    <2> HIDE DEF at0
    <2>6. line_at_top' <= MaxTop /\ curs'.c = at0.c
      BY <2>3, <2>5 DEF editor!redraw_buffer
    <2>7. Column(index_in_cur_line)' = Column(index_in_cur_line')
      BY DEF Column
    <2> QED BY <1>m, <2>2, <2>3, <2>4, <2>6, <2>7 DEF BoundsInv, S
  <1>8. CASE editor!InsertControl
    <2>1. /\ editor!Control \in S /\ Len(text) # BUFSIZ
          /\ UNCHANGED <<mode, index_in_cur_line, line_at_top, curs>>
      BY <1>8
         DEF editor!InsertControl, editor!TooMany, editor!size, S, editor!Keys,
             editor!EraseKey, editor!Control, editor!lineVars, editor!viewVars
    <2>2. text' \in Seq(S) /\ Len(text') <= BUFSIZ
      BY <1>8, <1>l, <2>1, Zenon DEF editor!InsertControl
    <2> QED BY <1>0, <1>m, <2>1, <2>2 DEF BoundsInv, Column, S, idx
  <1>g. ASSUME NEW line, NEW k, NEW top, editor!GoTo(line, k, top)
        PROVE  BoundsInv'
    <2>1. /\ index_in_cur_line' = k /\ line_at_top' = top /\ top <= MaxTop
          /\ curs' = editor!get_cursor_at(line_len, top, k, line)
          /\ mode' = mode /\ text' = text
      BY <1>g, Zenon DEF editor!GoTo, editor!bufferVars
    <2>2. curs'.c = Column(k)
      BY <2>1, Zenon DEF editor!get_cursor_at, Column
    <2> QED BY <1>m, <1>s, <2>1, <2>2, Zenon
  <1>9. CASE editor!move_up \/ editor!move_down
    BY <1>9, <1>g, Zenon DEF editor!move_up, editor!move_down
  <1>10. CASE editor!move_right
    <2>1. /\ mode' = mode /\ text' = text /\ index_in_cur_line' = idx + 1
      BY <1>10, Zenon DEF editor!move_right, editor!bufferVars, idx
    <2>2. CASE (idx + 1) % cols = 0
      <3>1. curs' = [r |-> curs.r + 1, c |-> 0] /\ line_at_top' <= MaxTop
        BY <1>10, <2>2, Zenon DEF editor!move_right, idx
      <3>2. curs'.c = Column(index_in_cur_line') BY <1>c, <2>1, <2>2, <3>1
      <3> QED BY <1>m, <1>s, <2>1, <3>1, <3>2
    <2>3. CASE (idx + 1) % cols # 0
      <3>1. /\ curs' = [curs EXCEPT !.c = curs.c + 1]
            /\ line_at_top' = line_at_top
        BY <1>10, <2>3, Zenon DEF editor!move_right, idx
      <3>2. curs'.c = Column(index_in_cur_line')
        BY <1>0, <1>c, <2>1, <2>3, <3>1
      <3> QED BY <1>0, <1>m, <1>s, <2>1, <3>1, <3>2
    <2> QED BY <2>2, <2>3
  <1>11. CASE editor!move_left
    <2> DEFINE left == idx - 1
    <2>1. /\ mode' = mode /\ text' = text /\ index_in_cur_line' = left
          /\ line_at_top' = line_at_top /\ idx > 0
          /\ curs' = IF idx % cols = 0
                     THEN [r |-> curs.r - 1, c |-> cols - 1]
                     ELSE [curs EXCEPT !.c = curs.c - 1]
      BY <1>11, Zenon DEF editor!move_left, editor!bufferVars, idx
    <2>2. left \in Int /\ left >= -1 /\ left + 1 = idx BY <1>0, <2>1
    <2> HIDE DEF left
    <2>3. /\ Column(left) \in -1 .. cols - 1
          /\ Column(idx) = IF Column(left) + 1 = cols THEN 0
                           ELSE Column(left) + 1
          /\ idx % cols = 0 <=> Column(idx) = 0
      BY <2>2, ColumnRight
    <2>4. Column(left) >= 0
      <3>1. left - 1 \in Int /\ left - 1 >= -1 /\ left - 1 + 1 = left
        BY <1>0, <2>1, <2>2
      <3>2. /\ Column(left - 1) \in -1 .. cols - 1
            /\ Column(left) = IF Column(left - 1) + 1 = cols THEN 0
                              ELSE Column(left - 1) + 1
        BY <3>1, ColumnRight
      <3> QED BY <3>2
    <2>5. curs'.c = Column(left) BY <1>0, <2>1, <2>3, <2>4
    <2> QED BY <1>0, <1>m, <1>s, <2>1, <2>5
  <1> QED
    BY <1>1, <1>2, <1>3, <1>4, <1>5, <1>6, <1>7, <1>8, <1>9, <1>10, <1>11,
       Zenon DEF editor!Next
=============================================================================
