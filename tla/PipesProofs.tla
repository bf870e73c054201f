---------------------------- MODULE PipesProofs ----------------------------
(***************************************************************************)
(* The inductive invariants of the programs of MCProcesses that write into *)
(* pipes and FIFOs, for all sizes: pipe_demo_3, upcase_2, select_demo,     *)
(* pipe_size_test and rev_fifo.  For each of them its invariant, what      *)
(* follows from it, and the lemma that the steps of its module keep it.    *)
(* ProcessesProofs draws the conclusions.                                  *)
(***************************************************************************)
EXTENDS MCProcesses, SequenceTheorems, TLAPS

-----------------------------------------------------------------------------
(* pipe_demo_3 *)

\* What the variables of pipe_demo_3 hold.
PipeStates == {"unborn", "forked", "pause", "loop", "write", "exited"}

PipeTypes ==
    /\ pipe \in Seq(pipe_demo!Children)
    /\ pd2_output \in Seq(pipe_demo!Children)
    /\ pc \in [pipe_demo!Children -> PipeStates]
    /\ left \in [pipe_demo!Children -> Int]
    /\ pending \subseteq signalled

\* A child that has no signal has written nothing.
PipeSilent ==
    \A c \in pipe_demo!Children : c \notin signalled =>
        /\ pc[c] \in {"unborn", "forked", "pause"}
        /\ \A j \in DOMAIN pipe_demo!Stream : pipe_demo!Stream[j] # c

\* A child has all of its line to write, since a line that is not longer than
\* PIPE_BUF is written at once, and what was written are whole lines.
PipeWhole ==
    /\ \A c \in pipe_demo!Children :
          pc[c] = "write" => left[c] = pipe_demo!message_length
    /\ pipe_demo!LinesAreWhole

\* The invariant of pipe_demo_3.
PipeInv == PipeTypes /\ PipeSilent /\ PipeWhole

\* m is the length of a line.
Whole(s, m) ==
    /\ Len(s) % m = 0
    /\ \A j \in 1 .. Len(s) : s[j] = s[m * ((j - 1) \div m) + 1]

\* What the provers need to know of division.
LEMMA DivMod ==
    ASSUME NEW m \in Nat \ {0}, NEW a \in Nat
    PROVE  /\ a \div m \in Nat /\ a % m \in 0 .. m - 1
           /\ a = m * (a \div m) + (a % m)
  <1>1. a \div m \in Int /\ a \div m >= 0 BY SMT
  <1>2. a % m \in 0 .. m - 1 BY Z3
  <1>3. a = m * (a \div m) + (a % m) BY Z3
  <1> QED BY <1>1, <1>2, <1>3

\* A quotient and a remainder are the ones.
LEMMA DivUnique ==
    ASSUME NEW m \in Nat \ {0}, NEW q \in Nat, NEW r \in 0 .. m - 1
    PROVE  /\ (m * q + r) \div m = q
           /\ (m * q + r) % m = r
  <1> DEFINE a == m * q + r
             p == a \div m
             t == a % m
  <1>1. a \in Nat OBVIOUS
  <1>2. p \in Nat /\ t \in 0 .. m - 1 /\ a = m * p + t BY <1>1, DivMod
  <1> HIDE DEF p, t
  <1>3. m * (q - p) = t - r BY <1>2
  <1>4. q = p
    <2>1. CASE q > p
      <3>1. m * (q - p) >= m * 1 BY <2>1, <1>2
      <3> QED BY <3>1, <1>3, <1>2
    <2>2. CASE q < p
      <3>1. m * (p - q) >= m * 1 BY <2>2, <1>2
      <3>2. m * (p - q) = r - t BY <1>2
      <3> QED BY <3>1, <3>2, <1>2
    <2> QED BY <2>1, <2>2, <1>2
  <1> QED BY <1>2, <1>4 DEF p, t

\* Whole lines and one line more are whole lines.
LEMMA WholeLine ==
    ASSUME NEW m \in Nat \ {0}, NEW S, NEW s \in Seq(S), Whole(s, m),
           NEW c \in S, NEW t \in Seq(S), Len(t) = Len(s) + m,
           \A j \in 1 .. Len(s) : t[j] = s[j],
           \A j \in 1 .. m : t[Len(s) + j] = c
    PROVE  Whole(t, m)
  <1> DEFINE q == Len(s) \div m
  <1>1. q \in Nat /\ Len(s) = m * q
    <2>1. Len(s) \in Nat OBVIOUS
    <2>2. Len(s) % m = 0 BY DEF Whole
    <2>3. q \in Nat /\ Len(s) = m * q + (Len(s) % m)
      BY ONLY <2>1, DivMod, m \in Nat \ {0}
    <2>4. m * q \in Nat BY <2>3
    <2> QED BY <2>2, <2>3, <2>4
  <1> HIDE DEF q
  <1>2. Len(t) = m * (q + 1) BY <1>1
  <1>3. Len(t) % m = 0 
    <2>1. q + 1 \in Nat /\ 0 \in 0 .. m - 1 BY <1>1
    <2>2. (m * (q + 1) + 0) % m = 0 BY <2>1, DivUnique
    <2>3. m * (q + 1) + 0 = Len(t) BY <1>1, <1>2
    <2> QED BY <2>2, <2>3
  <1>4. ASSUME NEW j \in 1 .. Len(t)
        PROVE  t[j] = t[m * ((j - 1) \div m) + 1]
    <2> DEFINE p == (j - 1) \div m
               r == (j - 1) % m
    <2>1. j - 1 \in Nat BY <1>1, <1>2
    <2>2. p \in Nat /\ r \in 0 .. m - 1 /\ j - 1 = m * p + r BY <2>1, DivMod
    <2>3. CASE j \in 1 .. Len(s)
      <3> HIDE DEF r
      <3>1. s[j] = s[m * p + 1] BY <2>3 DEF Whole
      <3>2. m * p \in Nat BY <2>2
      <3> HIDE DEF p
      <3>3. m * p + 1 \in 1 .. Len(s) BY <2>2, <2>3, <3>2, <1>1
      <3> QED BY <3>1, <3>3, <2>3 DEF p
    <2>4. CASE j > Len(s)
      <3>1. j = Len(s) + (j - Len(s)) /\ j - Len(s) \in 1 .. m
        BY <2>4, <1>1
      <3>2. j - 1 = m * q + (j - Len(s) - 1) /\ j - Len(s) - 1 \in 0 .. m - 1
        BY <3>1, <1>1
      <3>3. p = q BY <3>2, <1>1, DivUnique
      <3>4. m * p + 1 = Len(s) + 1 /\ 1 \in 1 .. m BY <3>3, <1>1
      <3> QED BY <3>1, <3>4
    <2> QED BY <2>3, <2>4, <1>1
  <1> QED BY <1>3, <1>4 DEF Whole

\* A line fits into PIPE_BUF and is not empty.
LEMMA PipeSizes ==
    /\ PipeBuf \in Nat /\ PipeBuf > 2
    /\ pipe_demo!message_length \in Nat \ {0}
    /\ pipe_demo!message_length <= PipeBuf
    /\ RdChunk \in Nat \ {0}
  BY AllSizes DEF AllSizes, pipe_demo!SizesAssumption,
                  pipe_demo!message_length, pipe_demo!chunk_size

\* Nothing has been written at first.
LEMMA PipeInit == pipe_demo!Init => PipeInv
  <1> SUFFICES ASSUME pipe_demo!Init PROVE PipeInv
    OBVIOUS
  <1> USE DEF pipe_demo!Init
  <1>1. PipeTypes BY DEF PipeTypes, PipeStates
  <1>2. pipe_demo!Stream = <<>> BY DEF pipe_demo!Stream
  <1>3. PipeSilent BY <1>2 DEF PipeSilent
  <1>4. PipeWhole
    <2>1. 0 % pipe_demo!message_length = 0 BY PipeSizes, DivMod
    <2> QED BY <1>2, <2>1 DEF PipeWhole, pipe_demo!LinesAreWhole
  <1> QED BY <1>1, <1>3, <1>4 DEF PipeInv

\* The two properties are in the invariant.
LEMMA PipeSafe == PipeInv => /\ pipe_demo!LinesAreWhole
                             /\ pipe_demo!NoWriteBeforeSignal
  BY DEF PipeInv, PipeWhole, PipeSilent, pipe_demo!NoWriteBeforeSignal

\* Bytes only move.
LEMMA PipeQuiet ==
    ASSUME PipeInv, pipe_demo!Stream' = pipe_demo!Stream,
           pipe' \in Seq(pipe_demo!Children),
           pd2_output' \in Seq(pipe_demo!Children),
           left' = left,
           pending' \subseteq signalled', signalled \subseteq signalled',
           pc' \in [pipe_demo!Children -> PipeStates],
           \A c \in pipe_demo!Children :
              \/ pc'[c] = pc[c]
              \/ pc'[c] \in {"unborn", "forked", "pause"}
              \/ c \in signalled /\ pc'[c] # "write"
    PROVE  PipeInv'
  <1> USE DEF PipeInv
  <1>1. PipeTypes' BY DEF PipeTypes
  <1>2. PipeSilent' BY DEF PipeSilent, PipeTypes
  <1>3. PipeWhole'
    BY DEF PipeWhole, pipe_demo!LinesAreWhole
  <1> QED BY <1>1, <1>2, <1>3

\* A step that leaves the pipe and the output alone leaves the stream alone.
LEMMA PipeStill ==
    ASSUME UNCHANGED <<pipe, pd2_output>>, PipeInv
    PROVE  /\ pipe_demo!Stream' = pipe_demo!Stream
           /\ pipe' \in Seq(pipe_demo!Children)
           /\ pd2_output' \in Seq(pipe_demo!Children)
  BY DEF pipe_demo!Stream, PipeInv, PipeTypes

\* A child that begins to write has a line to write.
LEMMA PipeStartWrite ==
    ASSUME PipeInv, NEW c \in pipe_demo!Children, pipe_demo!StartWrite(c)
    PROVE  PipeInv'
  <1> USE DEF PipeInv, pipe_demo!StartWrite, pipe_demo!Goto
  <1>1. /\ pipe' = pipe /\ pd2_output' = pd2_output
        /\ pending' = pending /\ signalled' = signalled
    BY DEF pipe_demo!ends, pipe_demo!signals
  <1>2. PipeTypes'
    BY <1>1, PipeSizes DEF PipeTypes, PipeStates
  <1>3. pipe_demo!Stream' = pipe_demo!Stream BY <1>1 DEF pipe_demo!Stream
  <1>4. PipeSilent'
    BY <1>1, <1>3 DEF PipeSilent, PipeTypes
  <1>5. PipeWhole'
    BY <1>3 DEF PipeWhole, pipe_demo!LinesAreWhole, PipeTypes
  <1> QED BY <1>2, <1>4, <1>5

\* A line goes into the pipe as a whole.
LEMMA PipeWrite ==
    ASSUME PipeInv, NEW c \in pipe_demo!Children, pipe_demo!WritePiece(c)
    PROVE  PipeInv'
  <1> DEFINE m == pipe_demo!message_length
             new == [j \in 1 .. m |-> c]
             s == pipe_demo!Stream
             t == s \o new
  <1> USE DEF PipeInv
  <1>1. pc[c] = "write" /\ left[c] = m
    BY DEF PipeWhole, pipe_demo!WritePiece
  <1>2. pipe_demo!PieceSizes(c) = {m}
    BY <1>1, PipeSizes DEF pipe_demo!PieceSizes
  <1>3. /\ pipe' = pipe \o new /\ left' = [left EXCEPT ![c] = @ - m]
        /\ pd2_output' = pd2_output
        /\ pending' = pending /\ signalled' = signalled
    BY <1>2 DEF pipe_demo!signals, pipe_demo!WritePiece
  <1>4. left'[c] = 0
    BY <1>1, <1>3, PipeSizes DEF PipeTypes
  <1>5. pc' = [pc EXCEPT ![c] = "loop"]
    BY <1>4 DEF pipe_demo!WritePiece, pipe_demo!Goto
  <1>6. /\ new \in Seq(pipe_demo!Children) /\ Len(new) = m
        /\ \A j \in 1 .. m : new[j] = c
    BY PipeSizes
  <1>7. c \in signalled BY <1>1 DEF PipeSilent
  <1> HIDE DEF new, m
  <1>8. PipeTypes'
    <2>1. pipe' \in Seq(pipe_demo!Children)
      BY <1>3, <1>6, ConcatProperties DEF PipeTypes
    <2>2. left' \in [pipe_demo!Children -> Int]
      BY <1>3, PipeSizes DEF PipeTypes, m
    <2> QED BY <1>3, <1>5, <2>1, <2>2 DEF PipeTypes, PipeStates
  <1>9. s' = t
    <2>1. /\ pipe \in Seq(pipe_demo!Children)
          /\ pd2_output \in Seq(pipe_demo!Children)
      BY DEF PipeTypes
    <2>2. (pd2_output \o pipe) \o new = pd2_output \o (pipe \o new)
      BY ONLY <1>6, <2>1, ConcatAssociative
    <2> QED BY <1>3, <2>2 DEF pipe_demo!Stream
  <1>10. s \in Seq(pipe_demo!Children)
    BY ConcatProperties DEF pipe_demo!Stream, PipeTypes
  <1> HIDE DEF s, PipeInv
  <1>11. /\ t \in Seq(pipe_demo!Children) /\ Len(t) = Len(s) + m
         /\ \A j \in 1 .. Len(t) : t[j] = IF j <= Len(s) THEN s[j] ELSE c
    <2>1. /\ t \in Seq(pipe_demo!Children) /\ Len(t) = Len(s) + Len(new)
          /\ \A j \in 1 .. Len(s) + Len(new) :
                t[j] = IF j <= Len(s) THEN s[j] ELSE new[j - Len(s)]
      BY ONLY <1>6, <1>10, ConcatProperties
    <2> HIDE DEF t
    <2>2. ASSUME NEW j \in 1 .. Len(t), j > Len(s)
          PROVE  new[j - Len(s)] = c
      <3>1. j - Len(s) \in 1 .. m BY <1>6, <1>10, <2>1, <2>2
      <3> QED BY <1>6, <3>1
    <2>3. Len(s) \in Nat BY <1>10
    <2> QED BY <1>6, <2>1, <2>2, <2>3
  <1> HIDE DEF t
  <1>12. PipeSilent'
    <2>1. ASSUME NEW d \in pipe_demo!Children, d \notin signalled,
                 NEW j \in DOMAIN t
          PROVE  t[j] # d
      <3>1. d # c BY <2>1, <1>7
      <3>2. j \in 1 .. Len(t) BY <1>11
      <3>3. CASE j <= Len(s)
        <4>1. j \in DOMAIN s BY <3>2, <3>3, <1>10
        <4> QED BY <3>2, <3>3, <4>1, <1>11, <2>1 DEF PipeInv, PipeSilent, s
      <3>4. CASE ~(j <= Len(s)) BY <3>1, <3>2, <3>4, <1>11
      <3> QED BY <3>3, <3>4
    <2> QED
      BY <1>3, <1>5, <1>7, <1>9, <2>1
         DEF PipeInv, PipeInv, PipeSilent, PipeTypes, s
  <1>13. PipeWhole'
    <2>1. Whole(s, m)
      BY DEF PipeInv, Whole, PipeWhole, pipe_demo!LinesAreWhole, m, s
    <2>2. /\ \A j \in 1 .. Len(s) : t[j] = s[j]
          /\ \A j \in 1 .. m : t[Len(s) + j] = c
      <3>1. Len(s) \in Nat /\ m \in Nat BY <1>10, PipeSizes DEF m
      <3> QED BY <1>11, <3>1
    <2>6. m \in Nat \ {0} /\ c \in pipe_demo!Children BY PipeSizes DEF m
    <2>3. Whole(t, m)
      BY ONLY <1>10, <1>11, <2>1, <2>2, <2>6, WholeLine
    <2>4. pipe_demo!LinesAreWhole'
      BY <2>3, <1>9 DEF Whole, pipe_demo!LinesAreWhole, s, m
    <2>5. \A d \in pipe_demo!Children :
             pc'[d] = "write" => left'[d] = pipe_demo!message_length
      BY <1>3, <1>5 DEF PipeInv, PipeWhole, PipeTypes
    <2> QED BY <2>4, <2>5 DEF PipeWhole
  <1> QED BY <1>8, <1>12, <1>13 DEF PipeInv

\* A read moves bytes from the pipe to the output.
LEMMA PipeRead ==
    ASSUME PipeInv, pipe_demo!Read
    PROVE  PipeInv'
  <1> USE DEF pipe_demo!Read
  <1>1. /\ pending' = pending /\ signalled' = signalled /\ pc' = pc
        /\ left' = left
    BY DEF pipe_demo!signals, pipe_demo!child
  <1>2. CASE UNCHANGED <<pipe, pd2_output>>
    BY <1>1, <1>2, PipeStill, PipeQuiet DEF PipeInv, PipeTypes
  <1>3. CASE pipe # <<>>
    <2> DEFINE n == IF Len(pipe) < RdChunk THEN Len(pipe) ELSE RdChunk
               first == SubSeq(pipe, 1, n)
               second == SubSeq(pipe, n + 1, Len(pipe))
    <2> USE DEF PipeInv, PipeTypes
    <2>1. pd2_output' = pd2_output \o first /\ pipe' = second
      BY <1>3
    <2>2. n \in 0 .. Len(pipe) /\ n + 1 \in Int BY PipeSizes
    <2> HIDE DEF n
    <2>9. /\ pipe \in Seq(pipe_demo!Children)
          /\ pd2_output \in Seq(pipe_demo!Children)
      OBVIOUS
    <2>10. /\ 1 \in 1 .. Len(pipe) + 1 /\ n \in 1 - 1 .. Len(pipe)
           /\ Len(pipe) \in n .. Len(pipe)
      BY <2>2, <2>9
    <2>3. first \in Seq(pipe_demo!Children)
      BY <2>2, SubSeqProperties
    <2>4. second \in Seq(pipe_demo!Children)
      BY <2>2, SubSeqProperties
    <2>5. first \o second = pipe
      <3>1. first \o second = SubSeq(pipe, 1, Len(pipe))
        BY ONLY <2>2, <2>9, <2>10, ConcatAdjacentSubSeq DEF first, second
      <3> QED BY <3>1, SubSeqFull
    <2> HIDE DEF first, second
    <2>6. (pd2_output \o first) \o second = pd2_output \o (first \o second)
      <3>1. \A s, t, u \in Seq(pipe_demo!Children) :
                (s \o t) \o u = s \o (t \o u)
        BY ONLY ConcatAssociative
      <3> QED BY ONLY <2>3, <2>4, <2>9, <3>1
    <2>7. pipe_demo!Stream' = pipe_demo!Stream
      BY <2>1, <2>5, <2>6 DEF pipe_demo!Stream
    <2>8. pd2_output' \in Seq(pipe_demo!Children)
      BY <2>1, <2>3, ConcatProperties
    <2> QED BY <1>1, <2>1, <2>4, <2>7, <2>8, PipeQuiet
  <1> QED BY <1>2, <1>3

\* Every step of pipe_demo_3 keeps its invariant.
LEMMA PipeKept ==
    ASSUME PipeInv, [pipe_demo!Next]_(pipe_demo!vars)
    PROVE  PipeInv'
  <1> USE DEF pipe_demo!Goto, pipe_demo!signals, pipe_demo!child,
              pipe_demo!ends
  <1>1. CASE UNCHANGED pipe_demo!vars
    BY <1>1, PipeStill, PipeQuiet DEF pipe_demo!vars, PipeInv, PipeTypes
  <1>2. ASSUME NEW c \in pipe_demo!Children, pipe_demo!Child(c) PROVE PipeInv'
    <2>1. CASE pipe_demo!Pause(c)
      BY <2>1, PipeStill, PipeQuiet
         DEF pipe_demo!Pause, PipeInv, PipeTypes, PipeStates
    <2>2. CASE pipe_demo!HandleSignal(c)
      <3>1. /\ pc' \in [pipe_demo!Children -> PipeStates]
            /\ \A d \in pipe_demo!Children :
                  pc'[d] = pc[d] \/ (d = c /\ pc'[c] = "loop")
        BY <2>2 DEF pipe_demo!HandleSignal, PipeInv, PipeTypes, PipeStates
      <3> QED
        BY <2>2, <3>1, PipeStill, PipeQuiet
           DEF pipe_demo!HandleSignal, PipeInv, PipeTypes
    <2>3. CASE pipe_demo!StartWrite(c) BY <2>3, PipeStartWrite
    <2>4. CASE pipe_demo!WritePiece(c) BY <2>4, PipeWrite
    <2>5. CASE pipe_demo!CloseAndExit(c)
      BY <2>5, PipeStill, PipeQuiet
         DEF pipe_demo!CloseAndExit, PipeInv, PipeTypes, PipeStates, PipeSilent
    <2> QED BY <1>2, <2>1, <2>2, <2>3, <2>4, <2>5 DEF pipe_demo!Child
  <1>3. ASSUME NEW c \in pipe_demo!Children, NEW from, NEW to,
               pipe_demo!Fork(c, from, to)
        PROVE  PipeInv'
    BY <1>3, PipeStill, PipeQuiet
       DEF pipe_demo!Fork, PipeInv, PipeTypes, PipeStates
  <1>4. ASSUME NEW c \in pipe_demo!Children, NEW from, NEW to,
               pipe_demo!Kill(c, from, to)
        PROVE  PipeInv'
    BY <1>4, PipeStill, PipeQuiet DEF pipe_demo!Kill, PipeInv, PipeTypes
  <1>5. CASE pipe_demo!CloseWriteEnd \/ pipe_demo!Wait
    BY <1>5, PipeStill, PipeQuiet
       DEF pipe_demo!CloseWriteEnd, pipe_demo!Wait, PipeInv,
                           PipeTypes
  <1>6. CASE pipe_demo!Read BY <1>6, PipeRead
  <1> QED
    BY <1>1, <1>2, <1>3, <1>4, <1>5, <1>6
       DEF pipe_demo!Next, pipe_demo!Parent, pipe_demo!Children

-----------------------------------------------------------------------------
(* upcase_2 *)

\* The invariant of upcase_2: the name in the file system is that of the FIFO
\* the server reads, or there is none.
UpcaseInv ==
    /\ generation \in Nat
    /\ public \in {0, generation}
    /\ upcase!NameKept

\* There is no FIFO at first.
LEMMA UpcaseInit == upcase!Init => UpcaseInv
  BY DEF upcase!Init, UpcaseInv, upcase!NameKept, upcase!ParentReads

\* The server makes and removes the FIFO; its children and its clients do not.
LEMMA UpcaseKept == UpcaseInv /\ [upcase!Next]_(upcase!vars) => UpcaseInv'
  <1> SUFFICES ASSUME UpcaseInv, [upcase!Next]_(upcase!vars) PROVE UpcaseInv'
    OBVIOUS
  <1> USE DEF UpcaseInv, upcase!NameKept, upcase!ParentReads, upcase!fifos
  <1>1. CASE UNCHANGED upcase!vars
    BY <1>1 DEF upcase!vars, upcase!serverVars
  <1>2. CASE upcase!MakePublic BY <1>2 DEF upcase!MakePublic
  <1>3. CASE upcase!StartServer BY <1>3 DEF upcase!StartServer
  <1>4. CASE upcase!on_signal_server
    <2>1. public' \in {0, public} /\ generation' = generation
      BY <1>4 DEF upcase!on_signal_server
    <2> QED BY <1>4, <2>1 DEF upcase!on_signal_server
  <1>5. CASE upcase!OpenPublic \/ upcase!StorePid \/ upcase!ReadMessage
             \/ upcase!Fork \/ upcase!Deliver \/ upcase!on_sigchld
    BY <1>5 DEF upcase!OpenPublic, upcase!StorePid, upcase!ReadMessage,
                upcase!Fork, upcase!Deliver, upcase!on_sigchld, upcase!Reap,
                upcase!HandlerReturns, upcase!serverVars
  <1>6. ASSUME NEW c \in Clients,
               upcase!Child(c) \/ upcase!on_signal_child(c)
        PROVE  UpcaseInv'
    BY <1>6 DEF upcase!Child, upcase!OpenRaw, upcase!EndOfText,
                upcase!on_signal_child
  <1>7. ASSUME NEW c \in Clients,
               upcase!Client(c) \/ upcase!User(c) \/ upcase!on_signal_client(c)
        PROVE  UpcaseInv'
    BY <1>7 DEF upcase!Client, upcase!User, upcase!on_signal_client,
                upcase!MakePrivate, upcase!Connect, upcase!SendMessage,
                upcase!on_sigpipe, upcase!OpenRawForWriting,
                upcase!WriteChunk, upcase!ReadReply, upcase!TypeLine,
                upcase!EndOfInput, upcase!serverVars
  <1> QED
    BY <1>1, <1>2, <1>3, <1>4, <1>5, <1>6, <1>7
       DEF upcase!Next, upcase!Server

-----------------------------------------------------------------------------
(* select_demo *)

\* The parent forks one child after the other, and a child has the read ends of
\* the pipes that were made before it was: KilledLastFirst is about who holds
\* them.
SelectHolds ==
    /\ d1 < 4 => d4[3] = "running"
    /\ \A j \in select_demo!Pipes : d4[j] = "unborn" <=> d1 <= j
    /\ \A j \in select_demo!Pipes :
          d1 < 4 /\ j < d1 => <<j, 0>> \in d2[3]
    /\ \A j, k \in select_demo!Pipes :
          j < k /\ d4[k] = "running" => <<j, 0>> \in d2[k]

\* The invariant of select_demo.
SelectInv ==
    /\ select_demo!SelectTypeOK
    /\ SelectHolds
    /\ select_demo!KilledLastFirst

\* Nobody but the parent is there at first.
LEMMA SelectInit ==
    ASSUME select_demo!SelectAssumption, select_demo!Init
    PROVE  SelectInv
  BY DEF select_demo!Init, SelectInv, SelectHolds, select_demo!SelectTypeOK,
         select_demo!KilledLastFirst, select_demo!SelectAssumption,
         select_demo!Pipes, select_demo!Procs, select_demo!Parent,
         select_demo!Ends

\* A child ends by itself, or is killed when the later ones have ended.
LEMMA SelectEnd ==
    ASSUME SelectInv, NEW j \in select_demo!Pipes, d4[j] = "running",
           NEW how \in {"exited", "killed"},
           how = "killed" => /\ d1 = 4
                             /\ \A p \in select_demo!Pipes :
                                   p > j => d4[p] \in {"exited", "killed"},
           select_demo!End(j, how), UNCHANGED <<d1, d3>>
    PROVE  SelectInv'
  <1> USE DEF select_demo!End, SelectInv, select_demo!Pipes,
              select_demo!Procs, select_demo!Parent
  <1>1. select_demo!SelectTypeOK' BY DEF select_demo!SelectTypeOK
  <1>2. /\ \A p \in select_demo!Procs \ {j} : d4'[p] = d4[p] /\ d2'[p] = d2[p]
        /\ d4'[j] = how /\ d1' = d1
    BY DEF select_demo!SelectTypeOK
  <1>3. SelectHolds' BY <1>2 DEF SelectHolds, select_demo!SelectTypeOK
  <1>4. select_demo!KilledLastFirst'
    BY <1>2 DEF select_demo!KilledLastFirst
  <1> QED BY <1>1, <1>3, <1>4

\* Every step of select_demo keeps its invariant.
LEMMA SelectKept ==
    ASSUME select_demo!SelectAssumption, SelectInv,
           [select_demo!Next]_(select_demo!selectVars)
    PROVE  SelectInv'
  <1> USE DEF select_demo!Pipes, select_demo!Procs, select_demo!Parent
  <1>1. CASE UNCHANGED select_demo!selectVars
    BY <1>1 DEF select_demo!selectVars, SelectInv, select_demo!SelectTypeOK,
                SelectHolds, select_demo!KilledLastFirst
  <1>2. CASE select_demo!Fork
    <2> DEFINE both == d2[3] \union {<<d1, 0>>, <<d1, 1>>}
    <2>1. /\ d1 \in 0 .. 2 /\ d1' = d1 + 1
          /\ d2' = [d2 EXCEPT ![3] = both, ![d1] = both \ {<<d1, 0>>}]
          /\ d4' = [d4 EXCEPT ![d1] = "running"] /\ d3' = d3
      BY <1>2 DEF select_demo!Fork
    <2>2. both \subseteq select_demo!Ends
      BY <2>1 DEF SelectInv, select_demo!SelectTypeOK, select_demo!Ends
    <2>3. select_demo!SelectTypeOK'
      BY <2>1, <2>2 DEF SelectInv, select_demo!SelectTypeOK
    <2>4. /\ d2'[3] = both /\ d2'[d1] = both \ {<<d1, 0>>}
          /\ d4'[d1] = "running"
          /\ \A p \in 0 .. 2 : p # d1 => d2'[p] = d2[p]
          /\ \A p \in 0 .. 3 : p # d1 => d4'[p] = d4[p]
      BY <2>1 DEF SelectInv, select_demo!SelectTypeOK
    <2>5. SelectHolds'
      <3>1. d1' < 4 => d4'[3] = "running"
        BY <2>1, <2>4 DEF SelectInv, SelectHolds
      <3>2. \A j \in 0 .. 2 : d4'[j] = "unborn" <=> d1' <= j
        BY <2>1, <2>4 DEF SelectInv, SelectHolds
      <3>3. \A j \in 0 .. 2 : d1' < 4 /\ j < d1' => <<j, 0>> \in d2'[3]
        <4> SUFFICES ASSUME NEW j \in 0 .. 2, d1' < 4, j < d1'
                     PROVE  <<j, 0>> \in both
          BY <2>4
        <4>1. CASE j = d1 BY <4>1
        <4>2. CASE j < d1 BY <2>1, <4>2 DEF SelectInv, SelectHolds
        <4> QED BY <2>1, <4>1, <4>2
      <3>4. ASSUME NEW j \in 0 .. 2, NEW k \in 0 .. 2,
                   j < k, d4'[k] = "running"
            PROVE  <<j, 0>> \in d2'[k]
        <4>1. CASE k = d1
          <5>1. <<j, 0>> \in d2[3]
            BY <2>1, <3>4, <4>1 DEF SelectInv, SelectHolds
          <5>2. <<j, 0>> # <<d1, 0>> BY <3>4, <4>1
          <5> QED BY <2>4, <4>1, <5>1, <5>2
        <4>2. CASE k # d1
          BY <2>4, <3>4, <4>2 DEF SelectInv, SelectHolds
        <4> QED BY <4>1, <4>2
      <3> QED BY <3>1, <3>2, <3>3, <3>4 DEF SelectHolds
    <2>6. select_demo!KilledLastFirst'
      BY <2>1, <2>4 DEF SelectInv, select_demo!KilledLastFirst
    <2> QED BY <2>3, <2>5, <2>6 DEF SelectInv
  <1>3. CASE select_demo!CloseDiagonal
    <2>1. PICK hit \in SUBSET d2[3] :
             d2' = [d2 EXCEPT ![3] = @ \ ({<<0, 0>>, <<1, 1>>} \union hit)]
      BY <1>3 DEF select_demo!CloseDiagonal
    <2>2. d1 = 3 /\ d1' = 4 /\ d3' = d3 /\ d4' = d4
      BY <1>3 DEF select_demo!CloseDiagonal
    <2>3. select_demo!SelectTypeOK'
      BY <2>1, <2>2 DEF SelectInv, select_demo!SelectTypeOK
    <2>4. \A p \in 0 .. 2 : d2'[p] = d2[p]
      BY <2>1 DEF SelectInv, select_demo!SelectTypeOK
    <2>5. SelectHolds'
      BY <2>2, <2>4 DEF SelectInv, SelectHolds
    <2>6. select_demo!KilledLastFirst'
      BY <2>2 DEF SelectInv, select_demo!KilledLastFirst
    <2> QED BY <2>3, <2>5, <2>6 DEF SelectInv
  <1>4. CASE select_demo!Select
    <2>1. /\ d1 = 4 /\ d1' = d1 /\ d3' = d3
          /\ d4' = [d4 EXCEPT ![3] = "exited"] /\ d2' = [d2 EXCEPT ![3] = {}]
      BY <1>4 DEF select_demo!Select, select_demo!End
    <2>2. \A p \in 0 .. 2 : d4'[p] = d4[p] /\ d2'[p] = d2[p]
      BY <2>1 DEF SelectInv, select_demo!SelectTypeOK
    <2>3. select_demo!SelectTypeOK'
      BY <2>1 DEF SelectInv, select_demo!SelectTypeOK
    <2>4. SelectHolds' BY <2>1, <2>2 DEF SelectInv, SelectHolds
    <2>5. select_demo!KilledLastFirst'
      BY <2>1, <2>2 DEF SelectInv, select_demo!KilledLastFirst
    <2> QED BY <2>3, <2>4, <2>5 DEF SelectInv
  <1>5. ASSUME NEW j \in select_demo!Pipes, select_demo!Exit(j)
        PROVE  SelectInv'
    BY <1>5, SelectEnd DEF select_demo!Exit
  <1>6. ASSUME NEW j \in select_demo!Pipes, select_demo!Write(j)
        PROVE  SelectInv'
    <2>1. CASE \E p \in select_demo!Procs : <<j, 0>> \in d2[p]
      <3>1. /\ d3' = [d3 EXCEPT ![j] = @ + 1] /\ UNCHANGED <<d1, d2, d4>>
            /\ d3[j] < Writes
        BY <1>6, <2>1 DEF select_demo!Write
      <3> QED
        BY <3>1 DEF SelectInv, select_demo!SelectTypeOK, SelectHolds,
                    select_demo!KilledLastFirst, select_demo!SelectAssumption
    <2>2. CASE ~\E p \in select_demo!Procs : <<j, 0>> \in d2[p]
      <3>1. /\ d4[j] = "running" /\ select_demo!End(j, "killed")
            /\ UNCHANGED <<d1, d3>>
        BY <1>6, <2>2 DEF select_demo!Write
      <3>2. d1 = 4
        BY <3>1, <2>2 DEF SelectInv, SelectHolds, select_demo!SelectTypeOK
      <3>3. ASSUME NEW p \in select_demo!Pipes, p > j
            PROVE  d4[p] \in {"exited", "killed"}
        BY <3>2, <3>3, <2>2
           DEF SelectInv, SelectHolds, select_demo!SelectTypeOK
      <3> QED BY <3>1, <3>2, <3>3, SelectEnd
    <2> QED BY <2>1, <2>2
  <1> QED
    BY <1>1, <1>2, <1>3, <1>4, <1>5, <1>6
       DEF select_demo!Next, select_demo!parent, select_demo!child

-----------------------------------------------------------------------------
(* pipe_size_test *)

\* An element is appended.
LEMMA AppendIs ==
    ASSUME NEW S, NEW s \in Seq(S), NEW e \in S, NEW t \in Seq(S),
           Len(t) = Len(s) + 1, t[Len(t)] = e,
           \A k \in 1 .. Len(s) : t[k] = s[k]
    PROVE  Append(s, e) = t
  <1>1. /\ Append(s, e) \in Seq(S) /\ Len(Append(s, e)) = Len(t)
        /\ \A k \in 1 .. Len(s) : Append(s, e)[k] = s[k]
        /\ Append(s, e)[Len(s) + 1] = e
    BY AppendProperties
  <1>2. \A k \in 1 .. Len(t) : Append(s, e)[k] = t[k]
    BY <1>1
  <1> QED BY <1>1, <1>2, SeqEqual

\* What pipe_size_test reports, one after the other.
Printed == Int \union BOOLEAN

\* The second of the three.
LEMMA AppendSecond ==
    ASSUME NEW n \in Printed, NEW b \in Printed
    PROVE Append(<<n>>, b) = <<n, b>>
  <1> DEFINE s == <<n>>
             t == <<n, b>>
  <1>1. /\ s \in Seq(Printed) /\ t \in Seq(Printed) /\ Len(s) = 1 /\ Len(t) = 2
        /\ t[2] = b /\ t[1] = s[1]
    OBVIOUS
  <1> HIDE DEF s, t
  <1>2. Append(s, b) = t
   <2>1. \A k \in 1 .. Len(s) : t[k] = s[k] BY <1>1
   <2>2. Len(t) = Len(s) + 1 /\ t[Len(t)] = b BY <1>1
   <2> QED BY <2>1, <2>2, <1>1, AppendIs
  <1> QED BY <1>2 DEF s, t

\* The third of them.
LEMMA AppendThird ==
    ASSUME NEW n \in Printed, NEW b \in Printed, NEW c \in Printed
    PROVE Append(<<n, b>>, c) = <<n, b, c>>
  <1> DEFINE s == <<n, b>>
             t == <<n, b, c>>
  <1>1. /\ s \in Seq(Printed) /\ t \in Seq(Printed) /\ Len(s) = 2 /\ Len(t) = 3
        /\ t[3] = c /\ t[1] = s[1] /\ t[2] = s[2]
    OBVIOUS
  <1> HIDE DEF s, t
  <1>2. Append(s, c) = t
    <2>1. \A k \in 1 .. Len(s) : t[k] = s[k] BY <1>1
    <2>2. Len(t) = Len(s) + 1 /\ t[Len(t)] = c BY <1>1
    <2> QED BY <2>1, <2>2, <1>1, AppendIs
  <1> QED BY <1>2 DEF s, t

\* More pages have more room.
LEMMA Multiples ==
    ASSUME NEW p \in Nat, NEW m \in Nat, NEW n \in Nat, m <= n
    PROVE  p * m <= p * n
  <1>1. p * (n - m) >= 0 OBVIOUS
  <1>2. p * (n - m) = p * n - p * m OBVIOUS
  <1> QED BY <1>1, <1>2

\* The bytes that were written into the pages, if none was read.
Full == pipe_size!Full
Bytes == IF d4 = <<>> THEN 0 ELSE PageSize * (Len(d4) - 1) + d4[Len(d4)]
AllPagesFull == \A k \in DOMAIN d4 : d4[k] = PageSize

\* What has been reported after each of the three parts of the test.  The
\* provers are not shown the tuples, which mix numbers and truth values.
Counted(n) == <<n>>
Tried(n, b) == <<n, b>>
TriedTwice(n, b, c) == <<n, b, c>>
StillBlocked(n) == Tried(n, FALSE)
AsItIs(n) == TriedTwice(n, FALSE, TRUE)

\* What the variables of pipe_size_test hold.
SizeTypes ==
    /\ d1 \in BOOLEAN
    /\ d2 \in {"alarm", "write", "unset", "read", "over"}
    /\ d3 \in 1 .. 4
    /\ d4 \in Seq(1 .. PageSize) /\ Len(d4) <= Pages
    /\ d5 \in 0 .. PageSize - 1
    /\ d6 \in [count : Int, full : BOOLEAN, armed : BOOLEAN]

\* Where the alarm can be armed, and where a signal can have come.
SizeControl ==
    /\ d6.armed => d2 \in {"write", "unset"}
    /\ d2 = "over" <=> d3 = 4
    /\ d2 = "read" => d3 # 1
    /\ d6.full => d2 \in {"write", "unset"}

\* In the first part the count is of the bytes in the pages, one behind while
\* the program has yet to count the one it wrote.
SizeFilling ==
    d3 = 1 => /\ d5 = 0 /\ d6.count >= 0
              /\ \A k \in DOMAIN d4 : k < Len(d4) => d4[k] = PageSize
              /\ d2 \in {"alarm", "write"} => d6.count = Bytes
              /\ d2 = "unset" =>
                    /\ d6.count <= Bytes
                    /\ ~d6.full => d6.count + 1 = Bytes

\* The reports so far.
SizeFound ==
    /\ d3 = 1 => d7 = <<>>
    /\ d3 = 2 => \E n \in 0 .. Full : d7 = Counted(n)
    /\ d3 = 3 => \E n \in 0 .. Full, b \in BOOLEAN : d7 = Tried(n, b)
    /\ d3 = 4 =>
          \E n \in 0 .. Full, b \in BOOLEAN, c \in BOOLEAN :
             d7 = TriedTwice(n, b, c)

\* What holds as long as no alarm came too early: the test stops counting with
\* all pages full, is blocked when a byte has been taken out of a page, and is
\* not when a whole page has.
SizePrompt ==
    d1 => /\ d3 = 1 =>
               /\ d2 = "write" => ~d6.full
               /\ d2 = "unset" /\ d6.full =>
                     d6.count = Bytes /\ Len(d4) = Pages /\ AllPagesFull
          /\ d3 = 2 =>
               /\ d7 = Counted(Full) /\ Len(d4) = Pages /\ AllPagesFull
               /\ d5 = IF d2 = "read" THEN 0 ELSE PageSize - 1
               /\ d2 = "unset" <=> d6.full
          /\ d3 = 3 =>
               /\ d7 = StillBlocked(Full) /\ ~d6.full
               /\ IF d2 = "read"
                  THEN Len(d4) = Pages /\ AllPagesFull /\ d5 = PageSize - 1
                  ELSE d2 # "unset" => Len(d4) < Pages
          /\ d3 = 4 => d7 = AsItIs(Full)

\* The invariant of pipe_size_test.
SizeInv == SizeTypes /\ SizeControl /\ SizeFilling /\ SizeFound /\ SizePrompt

\* The pipe is empty at first.
LEMMA SizeInit == pipe_size!PipeSizeAssumption /\ pipe_size!Init => SizeInv
  <1> SUFFICES ASSUME pipe_size!PipeSizeAssumption, pipe_size!Init
               PROVE  SizeInv
    OBVIOUS
  <1> USE DEF pipe_size!PipeSizeAssumption, pipe_size!Init
  <1>1. SizeTypes BY DEF SizeTypes
  <1>2. SizeControl /\ SizeFilling /\ SizePrompt
    BY DEF SizeControl, SizeFilling, SizePrompt, Bytes
  <1>3. PageSize * Pages \in Nat OBVIOUS
  <1>4. SizeFound BY <1>3 DEF SizeFound, Full, pipe_size!Full
  <1> QED BY <1>1, <1>2, <1>4 DEF SizeInv

\* The reports are true.
LEMMA SizeSafe == SizeInv => pipe_size!PipeSizeIsTrue
  <1> SUFFICES ASSUME SizeInv PROVE pipe_size!PipeSizeIsTrue
    OBVIOUS
  <1>1. d7 # <<>> => d7[1] <= Full
    BY DEF SizeInv, SizeTypes, SizeFound, Counted, Tried, TriedTwice
  <1>2. d1 /\ d2 = "over" => d7 = <<Full, FALSE, TRUE>>
    BY DEF SizeInv, SizeControl, SizePrompt, AsItIs, TriedTwice
  <1> QED BY <1>1, <1>2 DEF pipe_size!PipeSizeIsTrue, Full

\* One page more.
LEMMA OnePageMore ==
    ASSUME pipe_size!PipeSizeAssumption, NEW n \in Int
    PROVE  /\ PageSize * n \in Int
           /\ PageSize * (n + 1) = PageSize * n + PageSize
           /\ PageSize * (n - 1) + PageSize = PageSize * n
  BY DEF pipe_size!PipeSizeAssumption

\* There are not more bytes than the pages hold.
LEMMA BytesFit ==
    ASSUME pipe_size!PipeSizeAssumption, SizeTypes
    PROVE  Bytes \in 0 .. Full
  <1> USE DEF pipe_size!PipeSizeAssumption, SizeTypes
  <1>1. PageSize * 0 = 0 /\ Full \in Nat BY DEF Full, pipe_size!Full
  <1>2. CASE d4 = <<>> BY <1>1, <1>2 DEF Bytes
  <1>3. CASE d4 # <<>>
    <2>1. Len(d4) \in 1 .. Pages /\ d4[Len(d4)] \in 1 .. PageSize BY <1>3
    <2>2. PageSize * (Len(d4) - 1) + PageSize = PageSize * Len(d4)
      BY <2>1, OnePageMore
    <2>3. PageSize * Len(d4) <= PageSize * Pages
      <3>1. PageSize \in Nat /\ Len(d4) \in Nat /\ Pages \in Nat BY <2>1
      <3> QED BY ONLY <3>1, <2>1, Multiples
    <2>4. PageSize * (Len(d4) - 1) >= 0 BY <2>1
    <2>5. PageSize * (Len(d4) - 1) \in Int BY <2>1
    <2>6. Bytes = PageSize * (Len(d4) - 1) + d4[Len(d4)] BY <1>3 DEF Bytes
    <2>7. /\ d4[Len(d4)] \in Int /\ PageSize \in Int
          /\ PageSize * Len(d4) \in Int /\ PageSize * Pages \in Int
      BY <2>1
    <2> DEFINE a == PageSize * (Len(d4) - 1)
               b == PageSize * Len(d4)
               f == PageSize * Pages
               e == d4[Len(d4)]
    <2>8. a \in Int /\ b \in Int /\ f \in Int /\ e \in 1 .. PageSize
          /\ a + PageSize = b /\ b <= f /\ a >= 0 /\ Bytes = a + e
      BY <2>1, <2>2, <2>3, <2>4, <2>5, <2>6, <2>7
    <2> HIDE DEF a, b, f, e
    <2>9. Bytes \in 0 .. f BY ONLY <2>8, <2>7
    <2> QED BY <2>9 DEF f, Full, pipe_size!Full
  <1> QED BY <1>2, <1>3

\* There is no room when all pages are full.
LEMMA NoRoom ==
    ASSUME pipe_size!PipeSizeAssumption, SizeTypes, ~pipe_size!Room,
           \A k \in DOMAIN d4 : k < Len(d4) => d4[k] = PageSize
    PROVE  Bytes = Full /\ Len(d4) = Pages /\ AllPagesFull
  <1> USE DEF pipe_size!PipeSizeAssumption, SizeTypes
  <1>1. Len(d4) = Pages /\ d4 # <<>> /\ d4[Len(d4)] = PageSize
    BY DEF pipe_size!Room
  <1>2. AllPagesFull BY <1>1 DEF AllPagesFull
  <1>3. PageSize * (Pages - 1) + PageSize = PageSize * Pages
    BY OnePageMore
  <1> QED BY <1>1, <1>2, <1>3 DEF Bytes, Full, pipe_size!Full

\* A byte that is written goes into the last page or a new one.
LEMMA ByteAdded ==
    ASSUME pipe_size!PipeSizeAssumption, SizeTypes, pipe_size!Room,
           pipe_size!AddByte
    PROVE  /\ d4' \in Seq(1 .. PageSize) /\ Len(d4') <= Pages
           /\ Bytes' = Bytes + 1
           /\ (\A k \in DOMAIN d4 : k < Len(d4) => d4[k] = PageSize)
                => \A k \in DOMAIN d4' : k < Len(d4') => d4'[k] = PageSize
  <1> USE DEF pipe_size!PipeSizeAssumption, SizeTypes
  <1>1. CASE d4 # <<>> /\ d4[Len(d4)] < PageSize
    <2>1. d4' = [d4 EXCEPT ![Len(d4)] = @ + 1]
      BY <1>1 DEF pipe_size!AddByte
    <2>2. Len(d4) \in 1 .. Pages /\ d4[Len(d4)] + 1 \in 1 .. PageSize BY <1>1
    <2>3. d4' \in Seq(1 .. PageSize) /\ Len(d4') = Len(d4)
      BY <2>1, <2>2
    <2>4. d4'[Len(d4)] = d4[Len(d4)] + 1 BY <2>1, <2>2
    <2>5. d4' # <<>> BY <2>2, <2>3
    <2>6. PageSize * (Len(d4) - 1) \in Int BY <2>2
    <2>7. Bytes' = Bytes + 1
      BY <1>1, <2>2, <2>3, <2>4, <2>5, <2>6 DEF Bytes
    <2> QED BY <2>1, <2>2, <2>3, <2>7
  <1>2. CASE ~(d4 # <<>> /\ d4[Len(d4)] < PageSize)
    <2>1. d4' = Append(d4, 1) /\ Len(d4) < Pages
      BY <1>2 DEF pipe_size!AddByte, pipe_size!Room
    <2>2. /\ d4' \in Seq(1 .. PageSize) /\ Len(d4') = Len(d4) + 1
          /\ d4'[Len(d4')] = 1 /\ \A k \in DOMAIN d4 : d4'[k] = d4[k]
      BY <2>1
    <2>3. d4' # <<>> BY <2>2
    <2>4. Bytes' = PageSize * Len(d4) + 1
      <3>1. Len(d4') - 1 = Len(d4) BY <2>2
      <3>2. Bytes' = PageSize * (Len(d4') - 1) + d4'[Len(d4')]
        BY <2>3 DEF Bytes
      <3> QED BY <2>2, <3>1, <3>2
    <2>5. Bytes = PageSize * Len(d4)
      <3>1. CASE d4 = <<>> BY <3>1 DEF Bytes
      <3>2. CASE d4 # <<>>
        <4>1. d4[Len(d4)] = PageSize /\ Len(d4) \in Nat BY <3>2, <1>2
        <4>2. PageSize * (Len(d4) - 1) + PageSize = PageSize * Len(d4)
          BY <4>1, OnePageMore
        <4> QED BY <3>2, <4>1, <4>2 DEF Bytes
      <3> QED BY <3>1, <3>2
    <2>6. (\A k \in DOMAIN d4 : k < Len(d4) => d4[k] = PageSize)
                => \A k \in DOMAIN d4' : k < Len(d4') => d4'[k] = PageSize
      <3> SUFFICES ASSUME \A k \in DOMAIN d4 : k < Len(d4) => d4[k] = PageSize,
                          NEW k \in DOMAIN d4', k < Len(d4')
                   PROVE  d4'[k] = PageSize
        OBVIOUS
      <3>1. k \in DOMAIN d4 /\ d4'[k] = d4[k] /\ d4 # <<>> BY <2>2
      <3>2. CASE k = Len(d4) BY <1>2, <3>1, <3>2
      <3> QED BY <2>2, <3>1, <3>2
    <2> QED BY <2>1, <2>2, <2>4, <2>5, <2>6
  <1> QED BY <1>1, <1>2

\* A read takes bytes of the first page, which goes when it is empty.
LEMMA SizeRead ==
    ASSUME pipe_size!PipeSizeAssumption, SizeInv, pipe_size!Read
    PROVE  SizeInv'
  <1> USE DEF pipe_size!PipeSizeAssumption
  <1> DEFINE there == Head(d4) - d5
             bytes_read == IF there < pipe_size!amount_to_remove THEN there
                           ELSE pipe_size!amount_to_remove
  <1>1. /\ d2 = "read" /\ d4 # <<>>
        /\ d6' = [d6 EXCEPT !.count = @ - bytes_read]
        /\ d4' = IF bytes_read = there THEN Tail(d4) ELSE d4
        /\ d5' = IF bytes_read = there THEN 0 ELSE d5 + bytes_read
        /\ d2' = "alarm" /\ d1' = d1 /\ d3' = d3 /\ d7' = d7
    BY DEF pipe_size!Read
  <1>2. d3 \in {2, 3}
    BY <1>1 DEF SizeInv, SizeTypes, SizeControl
  <1>3. /\ Head(d4) = d4[1] /\ Head(d4) \in 1 .. PageSize /\ Len(d4) >= 1
        /\ Tail(d4) \in Seq(1 .. PageSize) /\ Len(Tail(d4)) = Len(d4) - 1
    BY <1>1 DEF SizeInv, SizeTypes
  <1>4. pipe_size!amount_to_remove = IF d3 = 2 THEN PageSize - 1 ELSE 1
    BY DEF pipe_size!amount_to_remove
  <1>5. bytes_read \in Int /\ there \in Int
    BY <1>3, <1>4 DEF SizeInv, SizeTypes
  <1>6. SizeTypes'
    <2>1. d5' \in 0 .. PageSize - 1
      <3>1. CASE bytes_read = there BY <1>1, <3>1
      <3>2. CASE bytes_read # there
        <4>1. bytes_read = pipe_size!amount_to_remove /\ bytes_read < there
          BY <1>4, <1>5, <3>2 
        <4> QED BY <1>1, <1>3, <1>4, <3>2, <4>1 DEF SizeInv, SizeTypes
      <3> QED BY <3>1, <3>2
    <2>2. d6' \in [count : Int, full : BOOLEAN, armed : BOOLEAN]
      <3> HIDE DEF bytes_read
      <3>1. d6 \in [count : Int, full : BOOLEAN, armed : BOOLEAN]
        BY DEF SizeInv, SizeTypes
      <3>2. d6' = [d6 EXCEPT !.count = d6.count - bytes_read] BY <1>1
      <3> QED BY <1>5, <3>1, <3>2
    <2>3. d4' \in Seq(1 .. PageSize) /\ Len(d4') <= Pages
      <3>1. CASE bytes_read = there
        <4>1. d4' = Tail(d4) BY <1>1, <3>1
        <4> QED BY <1>3, <4>1 DEF SizeInv, SizeTypes
      <3>2. CASE bytes_read # there
        <4>1. d4' = d4 BY <1>1, <3>2
        <4> QED BY <4>1 DEF SizeInv, SizeTypes
      <3> QED BY <3>1, <3>2
    <2> QED BY <1>1, <2>1, <2>2, <2>3 DEF SizeInv, SizeTypes
  <1>7. d6'.full = d6.full /\ d6'.armed = d6.armed
    BY <1>1 DEF SizeInv, SizeTypes
  <1>8. SizeControl' BY <1>1, <1>2, <1>7 DEF SizeInv, SizeControl
  <1>9. SizeFilling' BY <1>1, <1>2 DEF SizeFilling
  <1>10. SizeFound'
    BY <1>1, <1>2 DEF SizeInv, SizeFound, Full, pipe_size!Full
  <1>11. SizePrompt'
    <2> SUFFICES ASSUME d1 PROVE SizePrompt'
      BY <1>1 DEF SizePrompt
    <2>1. CASE d3 = 2
      <3>1. /\ d7 = Counted(Full) /\ Len(d4) = Pages /\ AllPagesFull /\ d5 = 0
            /\ ~d6.full
        BY <1>1, <2>1 DEF SizeInv, SizePrompt
      <3>2. Head(d4) = PageSize BY <1>3, <3>1 DEF AllPagesFull
      <3>3. there = PageSize /\ bytes_read = PageSize - 1
        BY <1>4, <2>1, <3>1, <3>2
      <3>4. d4' = d4 /\ d5' = PageSize - 1 BY <1>1, <3>1, <3>3
      <3> QED BY <1>1, <1>7, <2>1, <3>1, <3>4
              DEF SizePrompt, AllPagesFull, Full, pipe_size!Full
    <2>2. CASE d3 = 3
      <3>1. /\ d7 = StillBlocked(Full) /\ Len(d4) = Pages /\ AllPagesFull
            /\ d5 = PageSize - 1 /\ ~d6.full
        BY <1>1, <2>2 DEF SizeInv, SizePrompt
      <3>2. Head(d4) = PageSize BY <1>3, <3>1 DEF AllPagesFull
      <3>3. there = 1 /\ bytes_read = 1
        BY <1>4, <2>2, <3>1, <3>2
      <3>4. d4' = Tail(d4) BY <1>1, <3>3
      <3>5. Len(d4') < Pages BY <1>3, <3>1, <3>4
      <3> QED BY <1>1, <1>7, <2>2, <3>1, <3>5
              DEF SizePrompt, Full, pipe_size!Full
    <2> QED BY <1>2, <2>1, <2>2
  <1> QED BY <1>6, <1>8, <1>9, <1>10, <1>11 DEF SizeInv

\* The alarm is unset and the part of the test is over, or the byte counted.
LEMMA SizeUnset ==
    ASSUME pipe_size!PipeSizeAssumption, SizeInv, pipe_size!Unset
    PROVE  SizeInv'
  <1> USE DEF pipe_size!PipeSizeAssumption
  <1> DEFINE counted == d3 = 1 /\ ~d6.full
  <1>1. /\ d2 = "unset" /\ d1' = d1 /\ d4' = d4 /\ d5' = d5
        /\ d6' = [count |-> d6.count + (IF counted THEN 1 ELSE 0),
                  full |-> FALSE, armed |-> FALSE]
        /\ d2' = CASE counted -> "alarm" [] d3 = 3 -> "over" [] OTHER -> "read"
        /\ d7' = CASE counted -> d7 [] d3 = 1 /\ d6.full -> <<d6.count>>
                   [] OTHER -> Append(d7, ~d6.full)
        /\ d3' = IF counted THEN 1 ELSE d3 + 1
    BY DEF pipe_size!Unset
  <1>2. /\ d6'.full = FALSE /\ d6'.armed = FALSE
        /\ d6'.count = d6.count + (IF counted THEN 1 ELSE 0)
    BY <1>1
  <1>3. d3 \in 1 .. 3 /\ d6.count \in Int /\ d6.full \in BOOLEAN
    BY <1>1 DEF SizeInv, SizeTypes, SizeControl
  <1>4. Bytes \in 0 .. Full /\ Full \in Nat
    <2>1. Full \in Nat BY DEF Full, pipe_size!Full
    <2> QED BY BytesFit, <2>1 DEF SizeInv
  <1>5. Bytes' = Bytes /\ AllPagesFull' = AllPagesFull /\ Full' = Full
    BY <1>1 DEF Bytes, AllPagesFull, Full, pipe_size!Full
  <1>6. CASE counted
    <2>1. d2' = "alarm" /\ d7' = d7 /\ d3' = 1 /\ d6'.count = d6.count + 1
      <3>1. d2' = "alarm" /\ d3' = 1 /\ d6'.count = d6.count + 1
        BY <1>1, <1>2, <1>6
      <3>2. d7' = d7 BY <1>1, <1>6
      <3> QED BY <3>1, <3>2
    <2>2. d6.count + 1 = Bytes /\ d5 = 0 /\ d6.count >= 0
          /\ \A k \in DOMAIN d4 : k < Len(d4) => d4[k] = PageSize
      BY <1>1, <1>6 DEF SizeInv, SizeFilling
    <2>3. SizeTypes' BY <1>1, <1>3, <2>1 DEF SizeInv, SizeTypes
    <2>4. SizeControl' BY <1>2, <2>1 DEF SizeControl
    <2>5. SizeFilling'
      BY <1>1, <1>3, <1>5, <2>1, <2>2 DEF SizeFilling
    <2>6. SizeFound' BY <1>5, <1>6, <2>1 DEF SizeInv, SizeFound
    <2>7. SizePrompt' BY <2>1 DEF SizePrompt
    <2> QED BY <2>3, <2>4, <2>5, <2>6, <2>7 DEF SizeInv
  <1>7. CASE d3 = 1 /\ d6.full
    <2>1. d2' = "read" /\ d7' = <<d6.count>> /\ d3' = 2
      BY <1>1, <1>7
    <2>2. d6.count <= Bytes /\ d5 = 0 /\ d6.count >= 0
      BY <1>1, <1>7 DEF SizeInv, SizeFilling
    <2>3. SizeTypes' BY <1>1, <1>3, <2>1 DEF SizeInv, SizeTypes
    <2>4. SizeControl' BY <1>2, <2>1 DEF SizeControl
    <2>5. SizeFilling' BY <2>1 DEF SizeFilling
    <2>6. SizeFound'
      <3>1. d6.count \in 0 .. Full BY <1>3, <1>4, <2>2
      <3>2. \E n \in 0 .. Full : d7' = Counted(n) BY <2>1, <3>1 DEF Counted
      <3> QED BY <1>5, <2>1, <3>2 DEF SizeFound
    <2>7. SizePrompt'
      <3> SUFFICES ASSUME d1 PROVE SizePrompt'
        BY <1>1 DEF SizePrompt
      <3>1. d6.count = Bytes /\ Len(d4) = Pages /\ AllPagesFull
        BY <1>1, <1>7 DEF SizeInv, SizePrompt
      <3>2. Bytes = Full
        <4>1. d4 # <<>> /\ d4[Len(d4)] = PageSize
          BY <3>1 DEF AllPagesFull, SizeInv, SizeTypes
        <4>2. PageSize * (Pages - 1) + PageSize = PageSize * Pages
          BY OnePageMore
        <4> QED BY <3>1, <4>1, <4>2 DEF Bytes, Full, pipe_size!Full
      <3>3. d7' = Counted(Full) BY <2>1, <3>1, <3>2 DEF Counted
      <3> QED BY <1>1, <1>2, <1>5, <2>1, <2>2, <3>1, <3>3 DEF SizePrompt
    <2> QED BY <2>3, <2>4, <2>5, <2>6, <2>7 DEF SizeInv
  <1>8. CASE d3 = 2
    <2>1. d2' = "read" /\ d7' = Append(d7, ~d6.full) /\ d3' = 3
      BY <1>1, <1>8
    <2>2. SizeTypes' BY <1>1, <1>3, <1>8, <2>1 DEF SizeInv, SizeTypes
    <2>3. SizeControl' BY <1>2, <2>1 DEF SizeControl
    <2>4. SizeFilling' BY <2>1 DEF SizeFilling
    <2>5. SizeFound'
      <3>1. PICK n \in 0 .. Full : d7 = Counted(n)
        BY <1>8 DEF SizeInv, SizeFound
      <3>2. d7' = Tried(n, ~d6.full)
        <4>1. n \in Printed /\ (~d6.full) \in Printed
          BY <1>4 DEF Printed
        <4> QED BY <2>1, <3>1, <4>1, AppendSecond DEF Counted, Tried
      <3>3. (~d6.full) \in BOOLEAN OBVIOUS
      <3>4. \E e \in BOOLEAN : d7' = Tried(n, e) BY ONLY <3>2, <3>3, Zenon
      <3> QED BY <1>5, <2>1, <3>4 DEF SizeFound
    <2>6. SizePrompt'
      <3> SUFFICES ASSUME d1 PROVE SizePrompt'
        BY <1>1 DEF SizePrompt
      <3>1. /\ d7 = Counted(Full) /\ Len(d4) = Pages /\ AllPagesFull
            /\ d5 = PageSize - 1 /\ d6.full
        BY <1>1, <1>8 DEF SizeInv, SizePrompt
      <3>2. d7' = StillBlocked(Full)
        <4>1. d7' = Tried(Full, ~d6.full)
          <5>1. Full \in Printed /\ (~d6.full) \in Printed
            BY <1>4 DEF Printed
          <5> QED BY <2>1, <3>1, <5>1, AppendSecond DEF Counted, Tried
        <4>2. (~d6.full) = FALSE BY <3>1
        <4> QED BY <4>1, <4>2 DEF StillBlocked
      <3> QED BY <1>1, <1>2, <1>5, <2>1, <3>1, <3>2 DEF SizePrompt
    <2> QED BY <2>2, <2>3, <2>4, <2>5, <2>6 DEF SizeInv
  <1>9. CASE d3 = 3
    <2>1. d2' = "over" /\ d7' = Append(d7, ~d6.full) /\ d3' = 4
      BY <1>1, <1>9
    <2>2. SizeTypes' BY <1>1, <1>3, <1>9, <2>1 DEF SizeInv, SizeTypes
    <2>3. SizeControl' BY <1>2, <2>1 DEF SizeControl
    <2>4. SizeFilling' BY <2>1 DEF SizeFilling
    <2>5. SizeFound'
      <3>1. PICK n \in 0 .. Full, b \in BOOLEAN : d7 = Tried(n, b)
        BY <1>9 DEF SizeInv, SizeFound
      <3>2. d7' = TriedTwice(n, b, ~d6.full)
        <4>1. n \in Printed /\ b \in Printed /\ (~d6.full) \in Printed
          BY <1>4 DEF Printed
        <4> QED
          BY <2>1, <3>1, <4>1, AppendThird DEF Tried, TriedTwice, StillBlocked
      <3>3. (~d6.full) \in BOOLEAN OBVIOUS
      <3>4. \E e \in BOOLEAN : d7' = TriedTwice(n, b, e)
        BY ONLY <3>2, <3>3, Zenon
      <3> QED BY <1>5, <2>1, <3>4 DEF SizeFound
    <2>6. SizePrompt'
      <3> SUFFICES ASSUME d1 PROVE SizePrompt'
        BY <1>1 DEF SizePrompt
      <3>1. d7 = StillBlocked(Full) /\ ~d6.full
        BY <1>9 DEF SizeInv, SizePrompt
      <3>2. d7' = AsItIs(Full)
        <4>1. d7' = TriedTwice(Full, FALSE, ~d6.full)
          <5>1. /\ Full \in Printed /\ FALSE \in Printed
                /\ (~d6.full) \in Printed
            BY <1>4 DEF Printed
          <5> QED
            BY <2>1, <3>1, <5>1, AppendThird
               DEF Tried, TriedTwice, StillBlocked
        <4>2. (~d6.full) = TRUE BY <3>1
        <4> QED BY <4>1, <4>2 DEF AsItIs
      <3> QED BY <1>5, <2>1, <3>2 DEF SizePrompt
    <2> QED BY <2>2, <2>3, <2>4, <2>5, <2>6 DEF SizeInv
  <1> QED BY <1>3, <1>6, <1>7, <1>8, <1>9

\* Every step of pipe_size_test keeps its invariant.
LEMMA SizeKept ==
    ASSUME pipe_size!PipeSizeAssumption, SizeInv,
           [pipe_size!Next]_(pipe_size!sizeVars)
    PROVE  SizeInv'
  <1>1. CASE UNCHANGED pipe_size!sizeVars
    <2>1. UNCHANGED <<d1, d2, d3, d4, d5, d6, d7>>
      BY <1>1 DEF pipe_size!sizeVars
    <2>2. Bytes' = Bytes /\ AllPagesFull' = AllPagesFull /\ Full' = Full
      BY <2>1 DEF Bytes, AllPagesFull, Full, pipe_size!Full
    <2>3. SizeTypes' BY <2>1 DEF SizeInv, SizeTypes
    <2>4. SizeControl' BY <2>1 DEF SizeInv, SizeControl
    <2>5. SizeFilling' BY <2>1, <2>2 DEF SizeInv, SizeFilling
    <2>6. SizeFound' BY <2>1, <2>2 DEF SizeInv, SizeFound
    <2>7. SizePrompt' BY <2>1, <2>2 DEF SizeInv, SizePrompt
    <2> QED BY <2>3, <2>4, <2>5, <2>6, <2>7 DEF SizeInv
  <1>2. CASE pipe_size!Alarm
    <2>1. /\ d2 = "alarm" /\ d2' = "write" /\ d6' = [d6 EXCEPT !.armed = TRUE]
          /\ UNCHANGED <<d1, d3, d4, d5, d7>>
      BY <1>2 DEF pipe_size!Alarm
    <2>2. d6'.armed /\ d6'.count = d6.count /\ d6'.full = d6.full /\ ~d6.full
      BY <2>1 DEF SizeInv, SizeTypes, SizeControl
    <2>3. Bytes' = Bytes /\ AllPagesFull' = AllPagesFull /\ Full' = Full
      BY <2>1 DEF Bytes, AllPagesFull, Full, pipe_size!Full
    <2>4. SizeTypes' BY <2>1 DEF SizeInv, SizeTypes
    <2>5. SizeControl' BY <2>1, <2>2 DEF SizeInv, SizeControl
    <2>6. SizeFilling' BY <2>1, <2>2, <2>3 DEF SizeInv, SizeFilling
    <2>7. SizeFound' BY <2>1, <2>3 DEF SizeInv, SizeFound
    <2>8. SizePrompt' BY <2>1, <2>2, <2>3 DEF SizeInv, SizePrompt
    <2> QED BY <2>4, <2>5, <2>6, <2>7, <2>8 DEF SizeInv
  <1>3. CASE pipe_size!Write
    <2>1. /\ d2 = "write" /\ pipe_size!Room /\ pipe_size!AddByte
          /\ d2' = "unset" /\ UNCHANGED <<d1, d3, d5, d6, d7>>
      BY <1>3 DEF pipe_size!Write
    <2>2. /\ d4' \in Seq(1 .. PageSize) /\ Len(d4') <= Pages
          /\ Bytes' = Bytes + 1
          /\ (\A k \in DOMAIN d4 : k < Len(d4) => d4[k] = PageSize)
                => \A k \in DOMAIN d4' : k < Len(d4') => d4'[k] = PageSize
      BY <2>1, ByteAdded DEF SizeInv
    <2>3. Bytes \in 0 .. Full BY BytesFit DEF SizeInv
    <2>4. SizeTypes' BY <2>1, <2>2 DEF SizeInv, SizeTypes
    <2>5. SizeControl' BY <2>1 DEF SizeInv, SizeControl
    <2>6. SizeFilling'
      BY <2>1, <2>2, <2>3 DEF SizeInv, SizeFilling, SizeTypes, Full,
         pipe_size!Full, pipe_size!PipeSizeAssumption
    <2>7. Full' = Full BY DEF Full, pipe_size!Full
    <2>8. SizeFound' BY <2>1, <2>7 DEF SizeInv, SizeFound
    <2>9. SizePrompt'
      <3> SUFFICES ASSUME d1 PROVE SizePrompt'
        BY <2>1 DEF SizePrompt
      <3>1. d3 # 2
        <4> SUFFICES ASSUME d3 = 2 PROVE FALSE
          OBVIOUS
        <4>1. Len(d4) = Pages /\ AllPagesFull
          BY DEF SizeInv, SizePrompt
        <4> QED BY <2>1, <4>1 DEF pipe_size!Room, AllPagesFull, SizeInv,
                SizeTypes, pipe_size!PipeSizeAssumption
      <3>2. d3 # 4 BY <2>1 DEF SizeInv, SizeControl
      <3>3. d3 = 1 \/ d3 = 3
        BY <3>1, <3>2 DEF SizeInv, SizeTypes
      <3>4. ~d6.full BY <2>1, <3>3 DEF SizeInv, SizePrompt
      <3> QED BY <2>1, <2>7, <3>3, <3>4 DEF SizeInv, SizePrompt
    <2> QED BY <2>4, <2>5, <2>6, <2>8, <2>9 DEF SizeInv
  <1>4. CASE pipe_size!on_alarm
    <2>1. /\ d6.armed
          /\ \/ d2 = "write" /\ ~pipe_size!Room /\ d2' = "unset"
             \/ ~d1 /\ d2' = d2
          /\ d6' = [d6 EXCEPT !.armed = FALSE, !.full = TRUE]
          /\ UNCHANGED <<d1, d3, d4, d5, d7>>
      BY <1>4 DEF pipe_size!on_alarm
    <2>2. ~d6'.armed /\ d6'.count = d6.count /\ d6'.full
      BY <2>1 DEF SizeInv, SizeTypes
    <2>3. Bytes' = Bytes /\ AllPagesFull' = AllPagesFull /\ Full' = Full
      BY <2>1 DEF Bytes, AllPagesFull, Full, pipe_size!Full
    <2>4. SizeTypes' BY <2>1 DEF SizeInv, SizeTypes
    <2>5. d2 \in {"write", "unset"} /\ d2' \in {"write", "unset"}
      BY <2>1 DEF SizeInv, SizeControl
    <2>6. SizeControl' BY <2>1, <2>2, <2>5 DEF SizeInv, SizeControl
    <2>7. SizeFilling'
      <3>1. d3 = 1 /\ d2 = "unset" => d2' = "unset" BY <2>1
      <3>2. Bytes \in Int /\ d6.count \in Int
        BY BytesFit DEF SizeInv, SizeTypes
      <3> QED
        BY <2>1, <2>2, <2>3, <2>5, <3>1, <3>2 DEF SizeInv, SizeFilling
    <2>8. SizeFound' BY <2>1, <2>3 DEF SizeInv, SizeFound
    <2>9. SizePrompt'
      <3> SUFFICES ASSUME d1 PROVE SizePrompt'
        BY <2>1 DEF SizePrompt
      <3>1. d2 = "write" /\ ~pipe_size!Room /\ d2' = "unset" BY <2>1
      <3>2. d3 = 1 => d6.count = Bytes /\ Len(d4) = Pages /\ AllPagesFull
        BY <3>1, NoRoom DEF SizeInv, SizeFilling
      <3>3. d3 # 3
        BY <3>1 DEF SizeInv, SizePrompt, pipe_size!Room
      <3>4. d3 # 4 BY <3>1 DEF SizeInv, SizeControl
      <3> QED BY <2>1, <2>2, <2>3, <3>1, <3>2, <3>3, <3>4
              DEF SizeInv, SizePrompt
    <2> QED BY <2>4, <2>6, <2>7, <2>8, <2>9 DEF SizeInv
  <1>5. CASE pipe_size!Unset BY <1>5, SizeUnset
  <1>6. CASE pipe_size!Read BY <1>6, SizeRead
  <1> QED BY <1>1, <1>2, <1>3, <1>4, <1>5, <1>6 DEF pipe_size!Next

-----------------------------------------------------------------------------
(* rev_fifo *)

\* What the variables of rev_fifo hold.
Messages == Clients \X Nat

FifoTypes ==
    /\ d1 \in [at : {"mkfifo", "open", "dummy", "read", "interrupted"},
               reads : BOOLEAN, dummy : BOOLEAN, count : Nat,
               printed : Seq(Messages)]
    /\ d2 \in [named : BOOLEAN, held : Seq(Messages), sent : Seq(Messages)]

\* The invariant of rev_fifo: what was sent is what was printed and then what
\* the FIFO holds, and while the server reads it has a write end itself.
FifoInv ==
    /\ FifoTypes
    /\ d2.sent = d1.printed \o d2.held
    /\ d1.at = "read" => d1.dummy

\* Nothing was sent at first.
LEMMA FifoInit == rev_fifo!Init => FifoInv
  <1> SUFFICES ASSUME rev_fifo!Init PROVE FifoInv
    OBVIOUS
  <1>1. /\ d1 = [at |-> "mkfifo", reads |-> FALSE, dummy |-> FALSE,
                 count |-> 0, printed |-> <<>>]
        /\ \E b \in BOOLEAN : d2 = [named |-> b, held |-> <<>>, sent |-> <<>>]
    BY DEF rev_fifo!Init
  <1>2. FifoTypes BY <1>1 DEF FifoTypes
  <1>3. d2.sent = <<>> /\ d1.printed = <<>> /\ d2.held = <<>> BY <1>1
  <1>4. <<>> \o <<>> = <<>> OBVIOUS
  <1>5. d1.at # "read" BY <1>1
  <1> QED BY <1>2, <1>3, <1>4, <1>5 DEF FifoInv

\* The stream of rev_fifo is the only one of its module.
LEMMA OneStream ==
    ASSUME NEW x, NEW y
    PROVE  /\ <<x>>[1] = x /\ DOMAIN <<x>> = {1}
           /\ <<y>> = [<<x>> EXCEPT ![1] = y]
  <1>1. <<x>>[1] = x /\ DOMAIN <<x>> = {1} OBVIOUS
  <1>2. <<y>> = [<<x>> EXCEPT ![1] = y] OBVIOUS
  <1> QED BY <1>1, <1>2

\* Concatenation is associative.
LEMMA JoinMessages ==
    \A x, y, z \in Seq(Messages) : (x \o y) \o z = x \o (y \o z)
  BY ONLY ConcatAssociative

\* What the reader's read does: the first n messages of s go behind those of p,
\* which they leave as they were, and the rest of s stays.
Taken(p, s, n) ==
    /\ p \o SubSeq(s, 1, n) \in Seq(Messages)
    /\ SubSeq(s, n + 1, Len(s)) \in Seq(Messages)
    /\ (p \o SubSeq(s, 1, n)) \o SubSeq(s, n + 1, Len(s)) = p \o s
    /\ Len(p \o SubSeq(s, 1, n)) > Len(p)
    /\ SubSeq(p \o SubSeq(s, 1, n), 1, Len(p)) = p
    /\ SubSeq(p \o s, 1, Len(p \o SubSeq(s, 1, n))) = p \o SubSeq(s, 1, n)

\* The first n messages are taken out of those that are held.
LEMMA TakenOut ==
    ASSUME NEW s \in Seq(Messages), NEW n \in 1 .. Len(s),
           NEW p \in Seq(Messages)
    PROVE  Taken(p, s, n)
  <1> DEFINE a == SubSeq(s, 1, n)
             b == SubSeq(s, n + 1, Len(s))
  <1>1. /\ a \in Seq(Messages) /\ Len(a) = n
        /\ \A k \in 1 .. n : a[k] = s[k]
    OBVIOUS
  <1>2. /\ b \in Seq(Messages) /\ Len(b) = Len(s) - n
        /\ \A k \in 1 .. Len(s) - n : b[k] = s[n + k]
    OBVIOUS
  <1>3. a \o b = s
    <2>1. /\ a \o b \in Seq(Messages) /\ Len(a \o b) = Len(a) + Len(b)
          /\ \A k \in 1 .. Len(a) + Len(b) :
                (a \o b)[k] = IF k <= Len(a) THEN a[k] ELSE b[k - Len(a)]
      BY <1>1, <1>2, ConcatProperties, Zenon
    <2> DEFINE ab == a \o b
    <2> HIDE DEF a, b, ab
    <2>2. ab \in Seq(Messages) /\ Len(ab) = Len(s)
      BY <1>1, <1>2, <2>1 DEF ab
    <2>3. ASSUME NEW k \in 1 .. Len(s) PROVE ab[k] = s[k]
      <3>1. CASE k <= n BY <1>1, <1>2, <2>1, <3>1 DEF ab
      <3>2. CASE k > n
        <4>1. k - n \in 1 .. Len(s) - n BY <3>2
        <4>2. ab[k] = b[k - n] BY <1>1, <1>2, <2>1, <3>2 DEF ab
        <4> QED BY <1>2, <4>1, <4>2
      <3> QED BY <3>1, <3>2
    <2>4. ab = s BY <2>2, <2>3, SeqEqual
    <2> QED BY <2>4 DEF ab
  <1> DEFINE pa == p \o a
  <1>4. (p \o a) \o b = p \o s
    <2>1. (p \o a) \o b = p \o (a \o b)
      <3> HIDE DEF a, b
      <3> QED BY ONLY <1>1, <1>2, JoinMessages, p \in Seq(Messages)
    <2> QED BY <1>3, <2>1
  <1>5. /\ pa \in Seq(Messages) /\ Len(pa) = Len(p) + Len(a)
        /\ \A k \in 1 .. Len(p) + Len(a) :
              pa[k] = IF k <= Len(p) THEN p[k] ELSE a[k - Len(p)]
    BY <1>1, ConcatProperties, Zenon
  <1> DEFINE ps == p \o s
  <1>6. /\ ps \in Seq(Messages) /\ Len(ps) = Len(p) + Len(s)
        /\ \A k \in 1 .. Len(p) + Len(s) :
              ps[k] = IF k <= Len(p) THEN p[k] ELSE s[k - Len(p)]
    BY ConcatProperties, Zenon
  <1> HIDE DEF a, b, pa, ps
  <1>7. Len(pa) > Len(p) BY <1>1, <1>5
  <1>8. SubSeq(pa, 1, Len(p)) = p
    <2> DEFINE q == SubSeq(pa, 1, Len(p))
    <2>1. /\ q \in Seq(Messages) /\ Len(q) = Len(p)
          /\ \A k \in 1 .. Len(p) : q[k] = pa[k]
      <3>1. Len(p) \in Nat /\ Len(p) <= Len(pa) BY <1>7, <1>5
      <3> QED BY <1>5, <3>1
    <2> HIDE DEF q
    <2>2. \A k \in 1 .. Len(p) : q[k] = p[k] BY <1>1, <1>5, <2>1
    <2>3. q = p BY <2>1, <2>2, SeqEqual
    <2> QED BY <2>3 DEF q
  <1>9. SubSeq(ps, 1, Len(pa)) = pa
    <2> DEFINE q == SubSeq(ps, 1, Len(pa))
    <2>1. /\ q \in Seq(Messages) /\ Len(q) = Len(pa)
          /\ \A k \in 1 .. Len(pa) : q[k] = ps[k]
      <3>1. Len(pa) \in Nat /\ Len(pa) <= Len(ps) BY <1>1, <1>5, <1>6
      <3> QED BY <1>6, <3>1
    <2> HIDE DEF q
    <2>2. ASSUME NEW k \in 1 .. Len(pa) PROVE q[k] = pa[k]
      <3>1. CASE k <= Len(p)
        <4>1. pa[k] = p[k] BY <1>1, <1>5, <3>1
        <4>2. ps[k] = p[k] BY <1>1, <1>5, <1>6, <3>1
        <4> QED BY <2>1, <4>1, <4>2
      <3>2. CASE k > Len(p)
        <4>1. k - Len(p) \in 1 .. n BY <1>1, <1>5, <3>2
        <4>2. pa[k] = a[k - Len(p)] BY <1>1, <1>5, <3>2
        <4>3. ps[k] = s[k - Len(p)] BY <1>1, <1>5, <1>6, <3>2
        <4> QED BY <1>1, <2>1, <4>1, <4>2, <4>3
      <3> QED BY <3>1, <3>2
    <2>3. q = pa BY <1>5, <2>1, <2>2, SeqEqual
    <2> QED BY <2>3 DEF q
  <1> QED BY <1>1, <1>2, <1>4, <1>5, <1>7, <1>8, <1>9
          DEF a, b, pa, ps, Taken

\* A message is sent.
LEMMA OneSent ==
    ASSUME NEW s \in Seq(Messages), NEW m \in Messages
    PROVE  /\ Append(s, m) \in Seq(Messages)
           /\ Len(Append(s, m)) > Len(s)
           /\ SubSeq(Append(s, m), 1, Len(s)) = s
           /\ \A p \in Seq(Messages) :
                 Append(p \o s, m) = p \o Append(s, m)
  <1> DEFINE t == Append(s, m)
  <1>1. /\ t \in Seq(Messages) /\ Len(t) = Len(s) + 1 /\ Len(s) \in Nat
        /\ \A k \in 1 .. Len(s) : t[k] = s[k]
    OBVIOUS
  <1> HIDE DEF t
  <1>2. SubSeq(t, 1, Len(s)) = s
    <2> DEFINE q == SubSeq(t, 1, Len(s))
    <2>1. /\ q \in Seq(Messages) /\ Len(q) = Len(s)
          /\ \A k \in 1 .. Len(s) : q[k] = t[k]
      <3>1. Len(s) \in Nat /\ Len(s) <= Len(t) BY <1>1
      <3> QED BY <1>1, <3>1
    <2> HIDE DEF q
    <2>2. \A k \in 1 .. Len(s) : q[k] = s[k] BY <1>1, <2>1
    <2>3. q = s BY <2>1, <2>2, SeqEqual
    <2> QED BY <2>3 DEF q
  <1>3. ASSUME NEW p \in Seq(Messages)
        PROVE  Append(p \o s, m) = p \o t
    <2>1. p \o s \in Seq(Messages) BY ConcatProperties
    <2>2. Append(p \o s, m) = (p \o s) \o <<m>>
      BY ONLY <2>1, m \in Messages, AppendIsConcat
    <2>3. Append(s, m) = s \o <<m>>
      BY ONLY s \in Seq(Messages), m \in Messages, AppendIsConcat
    <2>4. <<m>> \in Seq(Messages) OBVIOUS
    <2>6. (p \o s) \o <<m>> = p \o (s \o <<m>>)
      BY ONLY <2>4, JoinMessages, p \in Seq(Messages), s \in Seq(Messages)
    <2> QED BY <2>2, <2>3, <2>6 DEF t
  <1>4. Len(t) > Len(s) BY <1>1
  <1> QED BY <1>1, <1>2, <1>3, <1>4 DEF t

\* What a step can do to the messages: some are read, one is written, none
\* moves, or the server is interrupted.
FifoReads ==
    /\ rev_fifo!Read
    /\ \E n \in 1 .. Len(d2.held) :
          /\ d1' = [d1 EXCEPT !.count = @ + 1,
                              !.printed = @ \o SubSeq(d2.held, 1, n)]
          /\ d2' = [d2 EXCEPT !.held = SubSeq(@, n + 1, Len(@))]

\* A read of the server takes a message at least: the FIFO has a writer, the
\* server, so that a read of the empty FIFO waits.
LEMMA FifoRead ==
    ASSUME rev_fifo!RevFifoAssumption, FifoInv, rev_fifo!Read
    PROVE  FifoReads
  <1> DEFINE n == IF Len(d2.held) < ReadSize THEN Len(d2.held) ELSE ReadSize
  <1>1. ReadSize \in Nat \ {0} BY DEF rev_fifo!RevFifoAssumption
  <1>2. d1.at = "read" /\ d1.dummy BY DEF rev_fifo!Read, FifoInv
  <1>3. /\ n > 0
        /\ d1' = [d1 EXCEPT !.count = @ + 1,
                            !.printed = @ \o SubSeq(d2.held, 1, n)]
        /\ d2' = [d2 EXCEPT !.held = SubSeq(@, n + 1, Len(@))]
    BY <1>2 DEF rev_fifo!Read
  <1>4. Len(d2.held) \in Nat BY DEF FifoInv, FifoTypes
  <1>5. n \in 1 .. Len(d2.held)
    <2>1. n > 0 BY <1>3
    <2> QED BY ONLY <1>1, <1>4, <2>1
  <1> HIDE DEF n
  <1> QED BY <1>3, <1>5, Zenon DEF FifoReads

FifoWrites ==
    \E m \in Messages :
        /\ d2' = [d2 EXCEPT !.held = Append(@, m), !.sent = Append(@, m)]
        /\ d1' = d1

FifoQuiet ==
    /\ d2'.held = d2.held /\ d2'.sent = d2.sent /\ d1'.printed = d1.printed
    /\ FifoTypes' /\ (d1'.at = "read" => d1'.dummy)
    /\ d1'.at = "interrupted" <=> d1.at = "interrupted"

FifoInterrupted ==
    /\ d2'.held = d2.held /\ d2'.sent = d2.sent /\ d1'.printed = d1.printed
    /\ FifoTypes' /\ d1.at # "interrupted" /\ d1'.at = "interrupted"

\* What the streams of the program see of a step.
LEMMA FifoSteps ==
    ASSUME rev_fifo!RevFifoAssumption, FifoInv,
           [rev_fifo!Next]_(rev_fifo!revVars)
    PROVE  FifoReads \/ FifoWrites \/ FifoQuiet \/ FifoInterrupted
  <1> USE DEF FifoTypes
  <1>1. CASE UNCHANGED rev_fifo!revVars
    BY <1>1 DEF rev_fifo!revVars, FifoInv, FifoQuiet
  <1>2. CASE rev_fifo!mkfifo
    BY <1>2 DEF rev_fifo!mkfifo, FifoInv, FifoQuiet
  <1>3. CASE rev_fifo!OpenForReading
    BY <1>3 DEF rev_fifo!OpenForReading, FifoInv, FifoQuiet
  <1>4. CASE rev_fifo!OpenDummy
    BY <1>4 DEF rev_fifo!OpenDummy, FifoInv, FifoQuiet
  <1>5. CASE rev_fifo!Read BY <1>5, FifoRead
  <1>6. CASE rev_fifo!on_signal
    BY <1>6 DEF rev_fifo!on_signal, FifoInv, FifoInterrupted
  <1>7. ASSUME NEW c \in Clients, rev_fifo!Client(c)
        PROVE  FifoWrites \/ FifoQuiet
    <2>1. CASE rev_fifo!Open(c) \/ rev_fifo!Quit(c) \/ rev_fifo!EndOfInput(c)
      BY <2>1, Zenon DEF rev_fifo!Open, rev_fifo!Quit, rev_fifo!EndOfInput,
                  FifoInv, FifoQuiet
    <2>2. CASE rev_fifo!Write(c)
      <3>1. CASE d1.reads
        <4>1. <<c, Len(d2.sent)>> \in Messages
          BY DEF Messages, FifoInv
        <4>2. /\ d2' = [d2 EXCEPT !.held = Append(@, <<c, Len(d2.sent)>>),
                                  !.sent = Append(@, <<c, Len(d2.sent)>>)]
              /\ d1' = d1
          BY <2>2, <3>1 DEF rev_fifo!Write
        <4> QED BY <4>1, <4>2, Zenon DEF FifoWrites
      <3>2. CASE ~d1.reads
        BY <2>2, <3>2 DEF rev_fifo!Write, FifoInv, FifoQuiet
      <3> QED BY <3>1, <3>2
    <2> QED BY <1>7, <2>1, <2>2 DEF rev_fifo!Client
  <1> QED BY <1>1, <1>2, <1>3, <1>4, <1>5, <1>6, <1>7
          DEF rev_fifo!Next, rev_fifo!Server

\* Every step of rev_fifo keeps its invariant.
LEMMA FifoKept ==
    ASSUME rev_fifo!RevFifoAssumption, FifoInv,
           [rev_fifo!Next]_(rev_fifo!revVars)
    PROVE  FifoInv'
  <1>1. CASE FifoReads
    <2>1. PICK n \in 1 .. Len(d2.held) :
             /\ d1' = [d1 EXCEPT !.count = @ + 1,
                                 !.printed = @ \o SubSeq(d2.held, 1, n)]
             /\ d2' = [d2 EXCEPT !.held = SubSeq(@, n + 1, Len(@))]
      BY <1>1, Zenon DEF FifoReads
    <2> DEFINE a == d1.printed \o SubSeq(d2.held, 1, n)
               b == SubSeq(d2.held, n + 1, Len(d2.held))
    <2>2. /\ d1.printed \in Seq(Messages) /\ d2.held \in Seq(Messages)
          /\ n \in 1 .. Len(d2.held)
      BY <2>1 DEF FifoInv, FifoTypes
    <2>3. a \in Seq(Messages) /\ b \in Seq(Messages)
          /\ a \o b = d1.printed \o d2.held
      <3>1. Taken(d1.printed, d2.held, n) BY ONLY <2>2, TakenOut
      <3> QED BY <3>1, Zenon DEF Taken
    <2>4. /\ d1' = [d1 EXCEPT !.count = @ + 1, !.printed = a]
          /\ d2' = [d2 EXCEPT !.held = b]
      BY <2>1
    <2> HIDE DEF a, b
    <2>5. FifoTypes'
      <3>1. FifoTypes BY DEF FifoInv
      <3>2. d1' \in [at : {"mkfifo", "open", "dummy", "read", "interrupted"},
                     reads : BOOLEAN, dummy : BOOLEAN, count : Nat,
                     printed : Seq(Messages)]
        <4>1. d1.count + 1 \in Nat BY <3>1 DEF FifoTypes
        <4> QED BY ONLY <2>3, <2>4, <3>1, <4>1 DEF FifoTypes
      <3>3. d2' \in [named : BOOLEAN, held : Seq(Messages),
                     sent : Seq(Messages)]
        BY ONLY <2>3, <2>4, <3>1 DEF FifoTypes
      <3> QED BY <3>2, <3>3 DEF FifoTypes
    <2>6. d2'.sent = d2.sent /\ d1'.printed = a /\ d2'.held = b
          /\ d1'.at = d1.at /\ d1'.dummy = d1.dummy
      BY <2>4 DEF FifoInv, FifoTypes
    <2> QED BY <2>3, <2>5, <2>6 DEF FifoInv
  <1>2. CASE FifoWrites
    <2>1. PICK m \in Messages :
             /\ d2' = [d2 EXCEPT !.held = Append(@, m), !.sent = Append(@, m)]
             /\ d1' = d1
      BY <1>2, Zenon DEF FifoWrites
    <2>2. /\ d1.printed \in Seq(Messages) /\ d2.held \in Seq(Messages)
          /\ d2.sent \in Seq(Messages)
      BY DEF FifoInv, FifoTypes
    <2>3. /\ Append(d2.held, m) \in Seq(Messages)
          /\ Append(d2.sent, m) \in Seq(Messages)
          /\ Append(d1.printed \o d2.held, m)
                = d1.printed \o Append(d2.held, m)
      BY <2>2, OneSent, Zenon
    <2>4. FifoTypes' BY <2>1, <2>3 DEF FifoInv, FifoTypes
    <2>5. d2'.sent = Append(d2.sent, m) /\ d2'.held = Append(d2.held, m)
      BY <2>1 DEF FifoInv, FifoTypes
    <2>6. d2.sent = d1.printed \o d2.held BY DEF FifoInv
    <2>7. d2'.sent = d1'.printed \o d2'.held BY <2>1, <2>3, <2>5, <2>6
    <2> QED BY <2>1, <2>4, <2>7 DEF FifoInv
  <1>3. CASE FifoQuiet BY <1>3 DEF FifoInv, FifoQuiet
  <1>4. CASE FifoInterrupted BY <1>4 DEF FifoInv, FifoInterrupted
  <1> QED BY <1>1, <1>2, <1>3, <1>4, FifoSteps

\* At first the stream is empty.
LEMMA FifoStreamInit ==
    ASSUME rev_fifo!Init
    PROVE  rev_fifo!fifoStream!Init
  <1>1. d2.sent = <<>> /\ d1.printed = <<>> /\ d1.at = "mkfifo"
    BY DEF rev_fifo!Init
  <1>2. rev_fifo!Reader = "reading" BY <1>1 DEF rev_fifo!Reader
  <1> QED BY <1>1, <1>2, OneStream DEF rev_fifo!fifoStream!Init

\* A step of rev_fifo is one of the stream, or leaves it alone.
LEMMA FifoStreamNext ==
    ASSUME rev_fifo!RevFifoAssumption, FifoInv,
           [rev_fifo!Next]_(rev_fifo!revVars)
    PROVE  [rev_fifo!fifoStream!Next]_(rev_fifo!fifoStream!streamVars)
  <1> USE DEF rev_fifo!fifoStream!Next, rev_fifo!fifoStream!streamVars,
              rev_fifo!fifoStream!At, rev_fifo!fifoStream!Longer
  <1>1. rev_fifo!Reader = IF d1.at = "interrupted" THEN "left" ELSE "reading"
    BY DEF rev_fifo!Reader, FifoInv, FifoTypes
  <1>2. rev_fifo!Reader' = IF d1'.at = "interrupted" THEN "left" ELSE "reading"
    <2>1. FifoInv' BY FifoKept
    <2> QED BY <2>1 DEF rev_fifo!Reader, FifoInv, FifoTypes
  <1>3. CASE FifoReads
    <2>1. PICK n \in 1 .. Len(d2.held) :
             /\ d1' = [d1 EXCEPT !.count = @ + 1,
                                 !.printed = @ \o SubSeq(d2.held, 1, n)]
             /\ d2' = [d2 EXCEPT !.held = SubSeq(@, n + 1, Len(@))]
      BY <1>3, Zenon DEF FifoReads
    <2> DEFINE a == d1.printed \o SubSeq(d2.held, 1, n)
    <2>2. /\ d1.printed \in Seq(Messages) /\ d2.held \in Seq(Messages)
          /\ n \in 1 .. Len(d2.held)
      BY <2>1 DEF FifoInv, FifoTypes
    <2>3. /\ a \in Seq(Messages) /\ Len(a) > Len(d1.printed)
          /\ SubSeq(a, 1, Len(d1.printed)) = d1.printed
          /\ SubSeq(d1.printed \o d2.held, 1, Len(a)) = a
      <3>1. Taken(d1.printed, d2.held, n) BY ONLY <2>2, TakenOut
      <3> QED BY <3>1, Zenon DEF Taken
    <2>4. d1'.printed = a /\ d2'.sent = d2.sent /\ d1'.at = d1.at
      BY <2>1 DEF FifoInv, FifoTypes
    <2>5. d2.sent = d1.printed \o d2.held /\ d1.at = "read"
      BY <1>3 DEF FifoInv, FifoReads, rev_fifo!Read
    <2> HIDE DEF a
    <2>6. rev_fifo!Reader = "reading" /\ rev_fifo!Reader' = "reading"
      BY <1>1, <1>2, <2>4, <2>5
    <2>7. rev_fifo!fifoStream!Receive(1)
      <3>1. <<d1.printed>>[1] = d1.printed /\ <<d1'.printed>>[1] = a
            /\ <<d1'.printed>>
                  = [<<d1.printed>> EXCEPT ![1] = <<d1'.printed>>[1]]
            /\ <<d2.sent>>[1] = d2.sent /\ <<rev_fifo!Reader>>[1] = "reading"
        BY <2>4, <2>6, OneStream
      <3> QED BY <2>3, <2>4, <2>5, <2>6, <3>1 DEF rev_fifo!fifoStream!Receive
    <2> QED BY <2>7, OneStream
  <1>4. CASE FifoWrites
    <2>1. PICK m \in Messages :
             /\ d2' = [d2 EXCEPT !.held = Append(@, m), !.sent = Append(@, m)]
             /\ d1' = d1
      BY <1>4, Zenon DEF FifoWrites
    <2>2. d2.sent \in Seq(Messages) BY DEF FifoInv, FifoTypes
    <2>3. /\ Len(Append(d2.sent, m)) > Len(d2.sent)
          /\ SubSeq(Append(d2.sent, m), 1, Len(d2.sent)) = d2.sent
      BY <2>2, OneSent, Zenon
    <2>4. d2'.sent = Append(d2.sent, m) BY <2>1 DEF FifoInv, FifoTypes
    <2>5. rev_fifo!Reader' = rev_fifo!Reader BY <1>1, <1>2, <2>1
    <2>6. rev_fifo!fifoStream!Send(1)
      <3>1. <<d2.sent>>[1] = d2.sent /\ <<d2'.sent>>[1] = d2'.sent
            /\ <<d2'.sent>> = [<<d2.sent>> EXCEPT ![1] = <<d2'.sent>>[1]]
            /\ <<"open">>[1] = "open"
            /\ <<"open">> = [<<"open">> EXCEPT ![1] = <<"open">>[1]]
        BY OneStream
      <3> QED BY <2>1, <2>3, <2>4, <2>5, <3>1 DEF rev_fifo!fifoStream!Send
    <2> QED BY <2>6, OneStream
  <1>5. CASE FifoQuiet
    BY <1>1, <1>2, <1>5 DEF FifoQuiet
  <1>6. CASE FifoInterrupted
    <2>1. rev_fifo!Reader = "reading" /\ rev_fifo!Reader' = "left"
      BY <1>1, <1>2, <1>6 DEF FifoInterrupted
    <2>2. d2'.sent = d2.sent /\ d1'.printed = d1.printed
      BY <1>6 DEF FifoInterrupted
    <2>3. rev_fifo!fifoStream!Leave(1)
      <3>1. <<rev_fifo!Reader>>[1] = "reading"
            /\ <<"left">> = [<<"reading">> EXCEPT ![1] = "left"]
            /\ <<"open">>[1] = "open"
            /\ <<"open">> = [<<"open">> EXCEPT ![1] = <<"open">>[1]]
        BY <2>1, OneStream
      <3> QED BY <2>1, <2>2, <3>1 DEF rev_fifo!fifoStream!Leave
    <2> QED BY <2>3, OneStream
  <1> QED BY <1>3, <1>4, <1>5, <1>6, FifoSteps
=============================================================================
