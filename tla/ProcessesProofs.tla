-------------------------- MODULE ProcessesProofs --------------------------
(***************************************************************************)
(* What the run of MCProcesses checks on small instances, for all sizes.   *)
(* One program runs, so the invariant is one for each program: those of    *)
(* the programs on pipes are in PipesProofs, those of rabbits2, of the     *)
(* demonstrations of signals and waits and of synch_demo_1 are here.       *)
(* OneProgram says that a step of MCProcesses is one of the program that   *)
(* runs.  The theorems are at the end.                                     *)
(***************************************************************************)
EXTENDS PipesProofs, FiniteSetTheorems

-----------------------------------------------------------------------------
(* rabbits2 *)

\* The activations of the handler that have not called wait, the children that
\* can be waited for, and the two flags that matter.
RabbitWaiting == {f \in DOMAIN frames : frames[f].at = "wait"}
RabbitDead == {c \in rabbits!Children : child[c] = "zombie"}
NoCldWait == "SA_NOCLDWAIT" \in sa_flags
NoDefer == "SA_NODEFER" \in sa_flags

\* What the variables of rabbits2 hold.
RabbitFrames ==
    [at : {"wait", "interrupted", "store"},
     child_status : rabbits!Statuses \union {rabbits!NoStatus}]
RabbitTypes ==
    /\ child \in [rabbits!Children ->
                     {"unborn", "alive", "stopped", "zombie", "gone"}]
    /\ death \in [rabbits!Children ->
                     rabbits!Statuses \union {rabbits!NoStatus}]
    /\ pending \in BOOLEAN
    /\ stops \in Nat
    /\ frames \in Seq(RabbitFrames)

\* Before the handler is installed nothing of it can be seen.
RabbitMain ==
    /\ ~rabbits!Installed => /\ disposition = "default" /\ ~pending
                             /\ frames = <<>>
    /\ ~rabbits!Installed => ~child_terminated

\* Each activation that has not called wait, and the pending signal, has a
\* zombie of its own or is due to a child that was stopped or continued.
RabbitZombies ==
    ~NoCldWait =>
       Cardinality(RabbitWaiting) + (IF pending THEN 1 ELSE 0)
          <= Cardinality(RabbitDead) + stops

\* One activation runs at a time when SIGCHLD is blocked in its handler, so pid
\* and status are of the child it found, if any, until main has reset the flag.
RabbitStatus ==
    ~NoDefer /\ ~NoCldWait =>
       /\ Len(frames) <= 1
       /\ frames # <<>> /\ frames[1].at = "store" /\ pid # -1 =>
             /\ pid \in rabbits!Children /\ child[pid] = "gone"
             /\ frames[1].child_status = death[pid]
       /\ frames = <<>> /\ child_terminated /\ pid # -1 =>
             /\ pid \in rabbits!Children /\ child[pid] = "gone"
             /\ status = death[pid]

\* The invariant of rabbits2.
RabbitInv == RabbitTypes /\ RabbitMain /\ RabbitZombies /\ RabbitStatus

\* Rabbits counts with a Cardinality of its own instance.
LEMMA RabbitCardinality == \A S : rabbits!Cardinality(S) = Cardinality(S)
  BY DEF rabbits!Cardinality, Cardinality

\* Sets of children are finite.
LEMMA RabbitSets ==
    \A S \in SUBSET rabbits!Children : IsFiniteSet(S) /\ Cardinality(S) \in Nat
  <1>1. rabbits!Children = 1 .. NumChildren /\ NumChildren \in Int
    BY AllSizes DEF rabbits!Children, AllSizes, rabbits!NumChildrenAssumption
  <1>2. IsFiniteSet(rabbits!Children) BY <1>1, FS_Interval
  <1> QED BY <1>2, FS_Subset, FS_CardinalityType

\* The two sets that RabbitZombies compares are finite.
LEMMA RabbitCounts ==
    ASSUME RabbitTypes
    PROVE  /\ IsFiniteSet(RabbitWaiting) /\ IsFiniteSet(RabbitDead)
           /\ Cardinality(RabbitWaiting) \in Nat
           /\ Cardinality(RabbitDead) \in Nat
  <1>1. RabbitWaiting \in SUBSET (1 .. Len(frames)) /\ Len(frames) \in Int
    BY DEF RabbitWaiting, RabbitTypes
  <1>2. RabbitDead \in SUBSET rabbits!Children BY DEF RabbitDead
  <1>3. IsFiniteSet(1 .. Len(frames)) BY <1>1, FS_Interval
  <1>4. IsFiniteSet(RabbitWaiting) /\ IsFiniteSet(RabbitDead)
    BY <1>1, <1>2, <1>3, FS_Subset, RabbitSets
  <1> QED BY <1>4, FS_CardinalityType

\* Before main forks nobody is dead.
LEMMA RabbitInit == rabbits!Init => RabbitInv
  <1> SUFFICES ASSUME rabbits!Init PROVE RabbitInv
    OBVIOUS
  <1> USE DEF rabbits!Init
  <1>1. RabbitTypes
    <2>1. frames \in Seq(RabbitFrames) BY EmptySeq
    <2> QED BY <2>1 DEF RabbitTypes, rabbits!Statuses, rabbits!NoStatus
  <1>2. RabbitMain BY DEF RabbitMain, rabbits!Installed
  <1>3. RabbitZombies
    <2>1. RabbitWaiting = {} BY DEF RabbitWaiting
    <2> QED BY <1>1, <2>1, RabbitCounts, FS_EmptySet DEF RabbitZombies
  <1>4. RabbitStatus BY DEF RabbitStatus
  <1> QED BY <1>1, <1>2, <1>3, <1>4 DEF RabbitInv

\* The invariant is what HandlersAreSafe says, and more.
LEMMA RabbitSafe ==
    RabbitInv => rabbits!WaitsAreAccountedFor /\ rabbits!PidMatchesStatus
  <1> SUFFICES ASSUME RabbitInv
               PROVE  rabbits!WaitsAreAccountedFor /\ rabbits!PidMatchesStatus
    OBVIOUS
  <1>1. rabbits!WaitsAreAccountedFor
    BY RabbitCardinality
       DEF RabbitInv, RabbitZombies, RabbitWaiting, RabbitDead, NoCldWait,
           rabbits!WaitsAreAccountedFor, rabbits!Zombies
  <1>2. rabbits!PidMatchesStatus
    BY DEF RabbitInv, RabbitStatus, NoCldWait, NoDefer,
           rabbits!PidMatchesStatus
  <1> QED BY <1>1, <1>2

\* main runs only when no activation of the handler does.
LEMMA RabbitMainStep ==
    ASSUME RabbitInv, rabbits!main
    PROVE  RabbitInv'
  <1> USE DEF rabbits!main, rabbits!Poll, rabbits!Fork, rabbits!InstallHandler,
              rabbits!ResetFlag, rabbits!TestFlag, rabbits!TestStatus,
              rabbits!LayToRest, rabbits!kernel, rabbits!shared
  <1>1. /\ frames' = frames /\ frames = <<>> /\ pending' = pending
        /\ death' = death /\ sa_flags' = sa_flags /\ stops' = stops
    OBVIOUS
  <1>2. rabbits!Fork \/ child' = child
    OBVIOUS
  <1>3. RabbitTypes'
    BY <1>1, <1>2 DEF RabbitInv, RabbitTypes
  <1>4. RabbitMain'
    BY <1>1 DEF RabbitInv, RabbitMain, rabbits!Installed
  <1>5. RabbitZombies'
    <2>1. CASE child' = child
      BY <1>1, <2>1 DEF RabbitInv, RabbitZombies, RabbitWaiting, RabbitDead,
                        NoCldWait
    <2>2. CASE rabbits!Fork
      <3>1. RabbitWaiting' = {} BY <1>1 DEF RabbitWaiting
      <3>2. ~pending'
        BY <1>1, <2>2 DEF RabbitInv, RabbitMain, rabbits!Installed
      <3>3. Cardinality(RabbitDead') \in Nat
        <4>1. RabbitDead' \in SUBSET rabbits!Children BY DEF RabbitDead
        <4> QED BY <4>1, RabbitSets
      <3>4. Cardinality(RabbitWaiting') = 0 /\ stops' \in Nat
        BY <1>3, <3>1, FS_EmptySet DEF RabbitTypes
      <3> QED BY <3>2, <3>3, <3>4 DEF RabbitZombies
    <2> QED BY <1>2, <2>1, <2>2
  <1>6. RabbitStatus'
    <2>1. CASE ~child_terminated'
      BY <1>1, <2>1 DEF RabbitInv, RabbitStatus, NoCldWait, NoDefer
    <2>2. CASE child_terminated'
      <3>1. child_terminated
        BY <2>2
      <3>2. /\ child' = child /\ pid' = pid /\ status' = status
        BY <2>2, <3>1 DEF RabbitInv, RabbitMain, rabbits!Installed
      <3> QED
        BY <1>1, <3>1, <3>2 DEF RabbitInv, RabbitStatus, NoCldWait, NoDefer
    <2> QED BY <2>1, <2>2
  <1> QED BY <1>3, <1>4, <1>5, <1>6 DEF RabbitInv

\* A death adds a zombie, and a pending signal at most.
LEMMA RabbitDie ==
    ASSUME RabbitInv, NEW c \in rabbits!Children, rabbits!Die(c)
    PROVE  RabbitInv'
  <1> USE DEF rabbits!Die, rabbits!shared
  <1>1. PICK how \in rabbits!Statuses : death' = [death EXCEPT ![c] = how]
    OBVIOUS
  <1>2. PICK fate \in {"gone", "zombie"} :
           /\ child' = [child EXCEPT ![c] = fate]
           /\ ~NoCldWait => fate = "zombie"
    BY DEF NoCldWait
  <1>3. /\ pending' = (pending \/ disposition = "handler")
        /\ child[c] \in {"alive", "stopped"}
        /\ UNCHANGED <<sa_flags, disposition, stops, pc, frames, pid, status,
                       child_terminated>>
    OBVIOUS
  <1>4. RabbitTypes'
    <2>1. pending' \in BOOLEAN BY <1>3
    <2> QED BY <1>1, <1>2, <1>3, <2>1 DEF RabbitInv, RabbitTypes
  <1>5. RabbitMain'
    <2>1. rabbits!Installed' <=> rabbits!Installed
      BY <1>3 DEF rabbits!Installed
    <2>2. ASSUME ~rabbits!Installed PROVE ~pending'
      BY <1>3, <2>2 DEF RabbitInv, RabbitMain
    <2> QED BY <1>3, <2>1, <2>2 DEF RabbitInv, RabbitMain
  <1>6. RabbitZombies'
    <2> SUFFICES ASSUME ~NoCldWait
                PROVE  Cardinality(RabbitWaiting')
                              + (IF pending' THEN 1 ELSE 0)
                           <= Cardinality(RabbitDead') + stops'
      BY <1>3 DEF RabbitZombies, NoCldWait
    <2>1. RabbitWaiting' = RabbitWaiting BY <1>3 DEF RabbitWaiting
    <2>2. RabbitDead' = RabbitDead \union {c} /\ c \notin RabbitDead
      BY <1>2, <1>3 DEF RabbitInv, RabbitTypes, RabbitDead
    <2>3. Cardinality(RabbitDead') = Cardinality(RabbitDead) + 1
      BY <2>2, RabbitCounts, FS_AddElement DEF RabbitInv
    <2> QED
      BY <1>3, <2>1, <2>3, RabbitCounts
         DEF RabbitInv, RabbitTypes, RabbitZombies
  <1>7. RabbitStatus'
    BY <1>1, <1>2, <1>3
       DEF RabbitInv, RabbitTypes, RabbitStatus, NoCldWait, NoDefer
  <1> QED BY <1>4, <1>5, <1>6, <1>7 DEF RabbitInv

\* A child that stops or goes on leaves no zombie, and a pending signal at most.
LEMMA RabbitStop ==
    ASSUME RabbitInv, NEW c \in rabbits!Children, rabbits!StopOrContinue(c)
    PROVE  RabbitInv'
  <1> USE DEF rabbits!StopOrContinue, rabbits!shared
  <1>1. PICK from, to \in {"alive", "stopped"} :
           child[c] = from /\ child' = [child EXCEPT ![c] = to]
    OBVIOUS
  <1>2. /\ pending' \in BOOLEAN /\ stops' = stops + 1
        /\ pending' => pending \/ disposition = "handler"
        /\ UNCHANGED <<death, sa_flags, disposition, pc, frames, pid, status,
                       child_terminated>>
    BY DEF RabbitInv, RabbitTypes
  <1>3. RabbitTypes' BY <1>1, <1>2 DEF RabbitInv, RabbitTypes
  <1>4. RabbitMain'
    BY <1>2 DEF RabbitInv, RabbitMain, rabbits!Installed
  <1>5. RabbitZombies'
    <2>1. RabbitWaiting' = RabbitWaiting BY <1>2 DEF RabbitWaiting
    <2>2. RabbitDead' = RabbitDead
      BY <1>1 DEF RabbitInv, RabbitTypes, RabbitDead
    <2> QED BY <1>2, <2>1, <2>2, RabbitCounts
            DEF RabbitInv, RabbitTypes, RabbitZombies, NoCldWait
  <1>6. RabbitStatus'
    BY <1>1, <1>2
       DEF RabbitInv, RabbitTypes, RabbitStatus, NoCldWait, NoDefer
  <1> QED BY <1>3, <1>4, <1>5, <1>6 DEF RabbitInv

\* What an activation interrupts is as deep as before, and waits no more than
\* before.
LEMMA RabbitInterrupted ==
    ASSUME RabbitTypes, NEW below \in rabbits!Interrupted
    PROVE  /\ below \in Seq(RabbitFrames) /\ Len(below) = Len(frames)
           /\ \A k \in 1 .. Len(frames) :
                 below[k].at = "wait" => frames[k].at = "wait"
  <1>1. frames \in Seq(RabbitFrames) BY DEF RabbitTypes
  <1>2. CASE below = frames BY <1>1, <1>2
  <1>3. CASE below # frames
    <2> DEFINE n == Len(frames)
               new == [frames[n] EXCEPT !.at = "interrupted"]
    <2>1. /\ frames # <<>>
          /\ below = [frames EXCEPT ![n] = new]
      BY <1>3 DEF rabbits!Interrupted, rabbits!Running
    <2>2. n \in 1 .. Len(frames) /\ frames[n] \in RabbitFrames
      BY <1>1, <2>1
    <2>3. new \in RabbitFrames /\ new.at = "interrupted"
      BY <2>2 DEF RabbitFrames
    <2> HIDE DEF new
    <2> QED BY <1>1, <2>1, <2>2, <2>3, ExceptSeq
  <1> QED BY <1>2, <1>3

\* The pending signal becomes an activation.
LEMMA RabbitDeliver ==
    ASSUME RabbitInv, rabbits!Deliver
    PROVE  RabbitInv'
  <1> DEFINE new == [at |-> "wait", child_status |-> rabbits!NoStatus]
             n == Len(frames)
  <1> USE DEF rabbits!Deliver, rabbits!shared
  <1>1. /\ pending /\ ~pending'
        /\ UNCHANGED <<child, death, sa_flags, stops, pc, pid, status,
                       child_terminated>>
        /\ frames = <<>> \/ NoDefer
    BY DEF NoDefer
  <1>2. rabbits!Installed /\ rabbits!Installed'
    BY <1>1 DEF RabbitInv, RabbitMain, rabbits!Installed
  <1>3. RabbitMain' BY <1>2 DEF RabbitMain
  <1>4. CASE frames' = frames
    <2>1. RabbitTypes' BY <1>1, <1>4 DEF RabbitInv, RabbitTypes
    <2>2. RabbitZombies'
      BY <1>1, <1>4, RabbitCounts
         DEF RabbitInv, RabbitTypes, RabbitZombies, RabbitWaiting, RabbitDead,
             NoCldWait
    <2>3. RabbitStatus'
      BY <1>1, <1>4 DEF RabbitInv, RabbitStatus, NoCldWait, NoDefer
    <2> QED BY <1>3, <2>1, <2>2, <2>3 DEF RabbitInv
  <1>5. ASSUME NEW below \in rabbits!Interrupted,
               frames' = Append(below, new)
        PROVE  RabbitInv'
    <2>1. /\ new \in RabbitFrames /\ new.at = "wait"
          /\ frames \in Seq(RabbitFrames) /\ n \in Nat /\ DOMAIN frames = 1 .. n
      BY DEF RabbitFrames, RabbitInv, RabbitTypes
    <2>2. /\ below \in Seq(RabbitFrames) /\ Len(below) = n
          /\ \A k \in 1 .. n : below[k].at = "wait" => frames[k].at = "wait"
      BY RabbitInterrupted DEF RabbitInv
    <2>3. /\ Len(frames') = n + 1 /\ frames' \in Seq(RabbitFrames)
          /\ frames'[n + 1] = new
          /\ \A k \in 1 .. n : frames'[k] = below[k]
          /\ DOMAIN frames' = 1 .. n + 1
      <3> HIDE DEF new
      <3> QED BY ONLY <1>5, <2>1, <2>2, AppendProperties
    <2>4. RabbitTypes' BY <1>1, <2>3 DEF RabbitInv, RabbitTypes
    <2>5. RabbitZombies'
      <3>1. /\ RabbitWaiting' \subseteq RabbitWaiting \union {n + 1}
            /\ n + 1 \notin RabbitWaiting
        BY <2>1, <2>2, <2>3 DEF RabbitWaiting
      <3>2. /\ Cardinality(RabbitWaiting \union {n + 1})
                  = Cardinality(RabbitWaiting) + 1
            /\ IsFiniteSet(RabbitWaiting \union {n + 1})
        BY <3>1, RabbitCounts, FS_AddElement DEF RabbitInv
      <3>3. /\ Cardinality(RabbitWaiting') <= Cardinality(RabbitWaiting) + 1
            /\ Cardinality(RabbitWaiting') \in Nat
        BY <3>1, <3>2, FS_Subset, FS_CardinalityType
      <3>4. RabbitDead' = RabbitDead BY <1>1 DEF RabbitDead
      <3> QED
        BY <1>1, <3>3, <3>4, RabbitCounts
           DEF RabbitInv, RabbitTypes, RabbitZombies, NoCldWait
    <2>6. RabbitStatus'
      <3> SUFFICES ASSUME ~NoDefer
                   PROVE  /\ Len(frames') <= 1 /\ frames' # <<>>
                          /\ frames'[1].at = "wait"
        BY <1>1 DEF RabbitStatus, NoDefer
      <3>1. n = 0 BY <1>1
      <3>2. Len(frames') = 1 /\ frames'[1] = new BY <2>3, <3>1
      <3>3. frames' # <<>> BY <3>2, <2>3
      <3> QED BY <2>1, <3>2, <3>3
    <2> QED BY <1>3, <2>4, <2>5, <2>6 DEF RabbitInv
  <1> QED BY <1>4, <1>5

\* An activation waits no more: it has taken a zombie, or its wait has failed.
LEMMA RabbitWait ==
    ASSUME RabbitInv, rabbits!WaitInHandler
    PROVE  RabbitInv'
  <1> DEFINE n == Len(frames)
  <1> USE DEF rabbits!WaitInHandler
  <1>1. /\ frames # <<>> /\ frames[n].at \in {"wait", "interrupted"}
        /\ UNCHANGED <<death, sa_flags, disposition, pending, stops, pc, status,
                       child_terminated>>
    BY DEF rabbits!Running, rabbits!Top
  <1>2. /\ frames \in Seq(RabbitFrames) /\ n \in Nat \ {0}
        /\ n \in DOMAIN frames /\ DOMAIN frames = 1 .. n
    BY <1>1 DEF RabbitInv, RabbitTypes
  <1>3. \E s \in rabbits!Statuses \union {rabbits!NoStatus} :
           frames' = [frames EXCEPT ![n] = [at |-> "store",
                                            child_status |-> s]]
    BY DEF RabbitInv, RabbitTypes, rabbits!Zombies
  <1>4. /\ frames' \in Seq(RabbitFrames) /\ Len(frames') = n
        /\ frames'[n].at = "store" /\ DOMAIN frames' = 1 .. n
        /\ \A k \in 1 .. n : k # n => frames'[k] = frames[k]
    <2> DEFINE new(s) == [at |-> "store", child_status |-> s]
    <2>1. PICK s \in rabbits!Statuses \union {rabbits!NoStatus} :
             frames' = [frames EXCEPT ![n] = new(s)]
      BY <1>3
    <2>2. new(s) \in RabbitFrames /\ new(s).at = "store"
      BY DEF RabbitFrames
    <2> HIDE DEF new
    <2>3. n \in 1 .. Len(frames) BY <1>2
    <2>4. /\ frames' \in Seq(RabbitFrames) /\ Len(frames') = Len(frames)
          /\ \A k \in 1 .. Len(frames) :
                frames'[k] = IF k = n THEN new(s) ELSE frames[k]
      BY <1>2, <2>1, <2>2, <2>3, ExceptSeq
    <2> QED BY <1>2, <2>2, <2>3, <2>4, Zenon
  <1>5. frames' # <<>> BY <1>2, <1>4, Zenon
  <1>6. RabbitMain'
    BY <1>1 DEF RabbitInv, RabbitMain, rabbits!Installed
  <1>7. RabbitWaiting' = RabbitWaiting \ {n}
    BY <1>2, <1>4, Zenon DEF RabbitWaiting
  <1>8. ASSUME NEW c \in rabbits!Zombies, frames[n].at = "wait",
               child' = [child EXCEPT ![c] = "gone"], pid' = c,
               frames' = [frames EXCEPT ![n] =
                              [at |-> "store", child_status |-> death[c]]]
        PROVE  RabbitInv'
    <2>1. c \in rabbits!Children /\ child[c] = "zombie"
      BY DEF rabbits!Zombies
    <2>2. RabbitTypes'
      BY <1>1, <1>4, <1>8, Zenon DEF RabbitInv, RabbitTypes
    <2>3. RabbitZombies'
      <3>1. n \in RabbitWaiting BY <1>2, <1>8 DEF RabbitWaiting
      <3>2. Cardinality(RabbitWaiting') = Cardinality(RabbitWaiting) - 1
        BY <1>7, <3>1, RabbitCounts, FS_RemoveElement DEF RabbitInv
      <3>3. RabbitDead' = RabbitDead \ {c} /\ c \in RabbitDead
        BY <1>8, <2>1 DEF RabbitInv, RabbitTypes, RabbitDead
      <3>4. Cardinality(RabbitDead') = Cardinality(RabbitDead) - 1
        BY <3>3, RabbitCounts, FS_RemoveElement DEF RabbitInv
      <3> QED
        BY <1>1, <3>2, <3>4, RabbitCounts
           DEF RabbitInv, RabbitTypes, RabbitZombies, NoCldWait
    <2>4. RabbitStatus'
      <3> SUFFICES ASSUME ~NoDefer, ~NoCldWait
                   PROVE  /\ Len(frames') <= 1
                          /\ pid' \in rabbits!Children /\ child'[pid'] = "gone"
                          /\ frames'[1].child_status = death'[pid']
        BY <1>1, <1>5 DEF RabbitStatus, NoDefer, NoCldWait
      <3>1. n = 1 BY <1>2 DEF RabbitInv, RabbitStatus
      <3> QED
        BY <1>1, <1>2, <1>4, <1>8, <2>1, <3>1 DEF RabbitInv, RabbitTypes
    <2> QED BY <1>6, <2>2, <2>3, <2>4 DEF RabbitInv
  <1>9. ASSUME child' = child, pid' = -1
        PROVE  RabbitInv'
    <2>1. RabbitTypes' BY <1>1, <1>4, <1>9, Zenon DEF RabbitInv, RabbitTypes
    <2>2. RabbitZombies'
      <3>1. /\ Cardinality(RabbitWaiting') <= Cardinality(RabbitWaiting)
            /\ Cardinality(RabbitWaiting') \in Nat
        BY <1>7, RabbitCounts, FS_Subset, FS_CardinalityType DEF RabbitInv
      <3>2. RabbitDead' = RabbitDead BY <1>9 DEF RabbitDead
      <3> QED
        BY <1>1, <3>1, <3>2, RabbitCounts
           DEF RabbitInv, RabbitTypes, RabbitZombies, NoCldWait
    <2>3. RabbitStatus'
      BY <1>1, <1>4, <1>5, <1>9
         DEF RabbitInv, RabbitStatus, NoDefer, NoCldWait
    <2> QED BY <1>6, <2>1, <2>2, <2>3 DEF RabbitInv
  <1> QED BY <1>8, <1>9 DEF rabbits!Running, rabbits!Top

\* The activation that returns has stored the status of the child it found.
LEMMA RabbitStore ==
    ASSUME RabbitInv, rabbits!StoreInHandler
    PROVE  RabbitInv'
  <1> DEFINE n == Len(frames)
  <1> USE DEF rabbits!StoreInHandler, rabbits!kernel
  <1>1. /\ frames # <<>> /\ frames[n].at = "store"
        /\ child_terminated' /\ status' = frames[n].child_status
        /\ frames' = SubSeq(frames, 1, n - 1)
        /\ UNCHANGED <<child, death, sa_flags, disposition, pending, stops, pc,
                       pid>>
    BY DEF rabbits!Running, rabbits!Top, rabbits!Front
  <1>2. /\ frames \in Seq(RabbitFrames) /\ n \in Nat \ {0}
        /\ DOMAIN frames = 1 .. n
    BY <1>1 DEF RabbitInv, RabbitTypes
  <1>3. /\ frames' \in Seq(RabbitFrames) /\ Len(frames') = n - 1
        /\ DOMAIN frames' = 1 .. n - 1
        /\ \A k \in 1 .. n - 1 : frames'[k] = frames[k]
    BY <1>1, <1>2
  <1>4. RabbitTypes' BY <1>1, <1>3 DEF RabbitInv, RabbitTypes
  <1>5. RabbitMain'
    BY <1>1 DEF RabbitInv, RabbitMain, rabbits!Installed
  <1>6. RabbitZombies'
    <2>1. RabbitWaiting' = RabbitWaiting
      BY <1>1, <1>2, <1>3 DEF RabbitWaiting
    <2>2. RabbitDead' = RabbitDead BY <1>1 DEF RabbitDead
    <2> QED BY <1>1, <2>1, <2>2 DEF RabbitInv, RabbitZombies, NoCldWait
  <1>7. RabbitStatus'
    <2> SUFFICES ASSUME ~NoDefer, ~NoCldWait
                 PROVE  /\ Len(frames') <= 1 /\ frames' = <<>>
                        /\ pid' # -1 =>
                              /\ pid' \in rabbits!Children
                              /\ child'[pid'] = "gone"
                              /\ status' = death'[pid']
      BY <1>1 DEF RabbitStatus, NoDefer, NoCldWait
    <2>1. n = 1 BY <1>2 DEF RabbitInv, RabbitStatus
    <2>2. frames' = <<>> BY <1>3, <2>1
    <2> QED
      BY <1>1, <1>3, <2>1, <2>2 DEF RabbitInv, RabbitStatus
  <1> QED BY <1>4, <1>5, <1>6, <1>7 DEF RabbitInv

\* Every step of rabbits2 keeps its invariant.
LEMMA RabbitKept ==
    ASSUME RabbitInv, [rabbits!Next]_(rabbits!vars)
    PROVE  RabbitInv'
  <1>1. CASE UNCHANGED rabbits!vars
    BY <1>1 DEF rabbits!vars, rabbits!kernel, rabbits!shared, RabbitInv,
                RabbitTypes, RabbitMain, RabbitZombies, RabbitStatus,
                RabbitWaiting, RabbitDead, NoCldWait, NoDefer,
                rabbits!Installed
  <1>2. CASE rabbits!Next
    BY <1>2, RabbitDie, RabbitStop, RabbitDeliver, RabbitWait, RabbitStore,
       RabbitMainStep
       DEF rabbits!Next, rabbits!on_sigchld
  <1> QED BY <1>1, <1>2

-----------------------------------------------------------------------------
(* synch_demos *)

\* What synch_demo_1 does.
SynchTypes ==
    /\ d2 \in [synch_demos!Family -> {"started", "pause", "pausing", "working",
                                      "waiting", "exited", "killed"}]
    /\ d3 \in [synch_demos!Family -> BOOLEAN]
    /\ d4 \in [synch_demos!Family -> BOOLEAN]
    /\ d6 \in [synch_demos!Family -> Nat]
    /\ d8 \in [synch_demos!Family -> Nat]

\* The parent has sent its notice before the child gets a signal of it, and the
\* child works on nothing before that.
SynchNotice ==
    /\ d2["child"] \in {"pause", "pausing"} => d3["child"]
    /\ d2["parent"] = "started" <=> d8["parent"] = 0
    /\ d8["parent"] \in {0, 1}
    /\ ~d4["parent"]
    /\ d4["child"] => d8["parent"] = 1
    /\ d2["child"] = "working" => d8["parent"] = 1
    /\ d6["child"] > 0 => d8["parent"] = 1

\* The invariant of the programs of SynchDemos: only synch_demo_1 makes the
\* promise.
SynchInv == d1 = "synch_demo_1" => SynchTypes /\ SynchNotice

\* When they start, no notice has been sent.
LEMMA SynchInit == synch_demos!Init => SynchInv
  BY DEF synch_demos!Init, SynchInv, SynchTypes, SynchNotice,
         synch_demos!Family

\* The child computes after the notice.
LEMMA SynchSafe == SynchInv => synch_demos!ComputesAfterNotice
  BY DEF SynchInv, SynchNotice, synch_demos!ComputesAfterNotice

\* Every step of the demonstrations keeps the invariant.
LEMMA SynchKept ==
    ASSUME SynchInv, [synch_demos!Next]_(synch_demos!synchVars)
    PROVE  SynchInv'
  <1> USE DEF synch_demos!Goto, synch_demos!Family, synch_demos!Alive,
              synch_demos!Ended
  <1>1. d1' = d1
    BY DEF synch_demos!Next, synch_demos!Parent, synch_demos!Child,
           synch_demos!synchVars, synch_demos!Deliver, synch_demos!SetAction,
           synch_demos!Pause, synch_demos!Compute, synch_demos!Notice,
           synch_demos!wait, synch_demos!OnSigint, synch_demos!WriteLine,
           synch_demos!SendSignal, synch_demos!EndRound,
           synch_demos!Interrupt
  <1> SUFFICES ASSUME d1 = "synch_demo_1", SynchTypes, SynchNotice
               PROVE  SynchTypes' /\ SynchNotice'
    BY <1>1 DEF SynchInv
  <1>2. CASE UNCHANGED synch_demos!synchVars
    BY <1>2 DEF synch_demos!synchVars, SynchTypes, SynchNotice
  <1>3. CASE synch_demos!Deliver("parent")
    BY <1>3 DEF synch_demos!Deliver, SynchNotice
  <1>4. CASE synch_demos!Deliver("child")
    <2>1. /\ d4' = [d4 EXCEPT !["child"] = FALSE] /\ d6' = d6 /\ d8' = d8
          /\ d4["child"] /\ d3' = d3
      BY <1>4 DEF synch_demos!Deliver
    <2>2. \/ d2' = [d2 EXCEPT !["child"] = "killed"]
          \/ d2' = [d2 EXCEPT !["child"] = "working"]
          \/ d2' = [d2 EXCEPT !["child"] = @]
      <3>1. CASE ~d3["child"]
        <4>1. d2["child"] # "pausing" BY <3>1 DEF SynchNotice
        <4> QED BY <1>4, <3>1, <4>1 DEF synch_demos!Deliver
      <3>2. CASE d3["child"] /\ d2["child"] = "pausing"
        BY <1>4, <3>2 DEF synch_demos!Deliver
      <3>3. CASE d3["child"] /\ d2["child"] # "pausing"
        BY <1>4, <3>3 DEF synch_demos!Deliver
      <3> QED BY <3>1, <3>2, <3>3
    <2> QED BY <2>1, <2>2 DEF SynchTypes, SynchNotice
  <1>5. CASE synch_demos!SetAction("child")
    BY <1>5 DEF synch_demos!SetAction, SynchTypes, SynchNotice
  <1>6. CASE synch_demos!Pause
    BY <1>6 DEF synch_demos!Pause, SynchTypes, SynchNotice
  <1>7. CASE synch_demos!Compute
    BY <1>7 DEF synch_demos!Compute, SynchTypes, SynchNotice
  <1>8. CASE synch_demos!Notice
    <2>1. /\ d2["parent"] = "started"
          /\ d2' = [d2 EXCEPT !["parent"] = "waiting"]
          /\ d8' = [d8 EXCEPT !["parent"] = @ + 1] /\ d6' = d6 /\ d3' = d3
      BY <1>8 DEF synch_demos!Notice, synch_demos!KillOther
    <2>2. d4' = [d4 EXCEPT !["child"] =
                        d4["child"] \/ synch_demos!Alive("child")]
      BY <1>8 DEF synch_demos!Notice, synch_demos!KillOther, synch_demos!Other
    <2>3. /\ d4' \in [synch_demos!Family -> BOOLEAN]
          /\ d4'["parent"] = d4["parent"]
      BY <2>2 DEF SynchTypes
    <2> QED BY <2>1, <2>3 DEF SynchTypes, SynchNotice
  <1>9. CASE synch_demos!wait
    BY <1>9 DEF synch_demos!wait, SynchTypes, SynchNotice
  <1> QED
    BY <1>2, <1>3, <1>4, <1>5, <1>6, <1>7, <1>8, <1>9
       DEF synch_demos!Next, synch_demos!Parent, synch_demos!Child,
           synch_demos!SetAction, synch_demos!OnSigint, synch_demos!WriteLine,
           synch_demos!SendSignal, synch_demos!EndRound, synch_demos!Interrupt

-----------------------------------------------------------------------------
(* wait_demos *)

\* What the variables of the wait demonstrations hold.
WaitKinds == {"exited", "killed", "stopped", "continued"}
WaitTypes ==
    /\ d2 \in {"running", "stopped", "zombie", "reaped"}
    /\ d4 \in Seq(WaitKinds \X Nat)
    /\ d3 \in 0 .. Len(d4)
    /\ d5 \in {"waiting", "ended"}
    /\ d6 \in Seq([number : Nat, what : WaitKinds \X Nat])

\* The kernel keeps the last change of the child until it is waited for, and a
\* child that has ended changes no more.
WaitKernel ==
    /\ d3 # 0 => d3 = Len(d4)
    /\ d2 = "zombie" => d3 # 0
    /\ d2 \in {"zombie", "reaped"} <=> d4 # <<>> /\ wait_demos!Final(Len(d4))
    /\ d5 = "ended" => d2 = "reaped"

\* What was printed is what happened, in order, and at the end the last of it.
WaitReports ==
    /\ \A j \in DOMAIN d6 :
          /\ d6[j].number \in 1 .. Len(d4)
          /\ d6[j].what = d4[d6[j].number]
          /\ d3 # 0 => d6[j].number < d3
          /\ \A k \in DOMAIN d6 : j < k => d6[j].number < d6[k].number
    /\ d5 = "ended" => d6 # <<>> /\ d6[Len(d6)].number = Len(d4)

\* The invariant of the wait demonstrations.
WaitInv == WaitTypes /\ WaitKernel /\ WaitReports

\* Nothing has happened at first.
LEMMA WaitInit == wait_demos!Init => WaitInv
  BY DEF wait_demos!Init, WaitInv, WaitTypes, WaitKernel, WaitReports

\* The reports are true.
LEMMA WaitSafe == WaitInv => wait_demos!ReportsAreTrue
  BY DEF wait_demos!ReportsAreTrue, WaitInv, WaitTypes, WaitKernel, WaitReports

\* A change of the child takes the place of the one before.
LEMMA WaitChange ==
    ASSUME WaitInv, NEW state \in {"running", "stopped", "zombie"},
           NEW kind \in WaitKinds, NEW n \in Nat,
           d2 \in {"running", "stopped"},
           state = "zombie" <=> kind \in {"exited", "killed"},
           d2' = state, d4' = Append(d4, <<kind, n>>), d3' = Len(d4) + 1,
           UNCHANGED <<d5, d6>>
    PROVE  WaitInv'
  <1> USE DEF WaitInv
  <1>1. /\ d4' = Append(d4, <<kind, n>>) /\ d3' = Len(d4) + 1 /\ d2' = state
        /\ d5' = d5 /\ d6' = d6 /\ <<kind, n>> \in WaitKinds \X Nat
    OBVIOUS
  <1>2. /\ Len(d4') = Len(d4) + 1 /\ d4' \in Seq(WaitKinds \X Nat)
        /\ d4'[Len(d4')] = <<kind, n>>
        /\ \A k \in 1 .. Len(d4) : d4'[k] = d4[k]
    BY <1>1 DEF WaitTypes
  <1>3. WaitTypes' BY <1>1, <1>2 DEF WaitTypes
  <1>4. d5 = "waiting" BY DEF WaitTypes, WaitKernel
  <1>5. WaitKernel'
    <2>1. wait_demos!Final(Len(d4))' <=> kind \in {"exited", "killed"}
      BY <1>2 DEF wait_demos!Final
    <2>2. d4' # <<>>
      <3>1. Len(d4') # 0 BY <1>2 DEF WaitTypes
      <3> QED BY <3>1, <1>2
    <2> QED BY <1>1, <1>2, <1>4, <2>1, <2>2 DEF WaitKernel, WaitTypes
  <1>6. WaitReports'
    <2>1. ASSUME NEW j \in DOMAIN d6
          PROVE  /\ d6[j].number \in 1 .. Len(d4')
                 /\ d6[j].what = d4'[d6[j].number]
                 /\ d6[j].number < d3'
      <3>1. d6[j].number \in 1 .. Len(d4) /\ d6[j].what = d4[d6[j].number]
        BY <2>1 DEF WaitReports
      <3>2. Len(d4) \in Nat BY DEF WaitTypes
      <3> QED BY ONLY <1>1, <1>2, <3>1, <3>2
    <2>2. \A j, k \in DOMAIN d6 : j < k => d6[j].number < d6[k].number
      BY DEF WaitReports
    <2> QED BY <1>1, <1>4, <2>1, <2>2 DEF WaitReports
  <1> QED BY <1>3, <1>5, <1>6

\* What is reported is the last change, later than all that was reported.
LEMMA WaitReport ==
    ASSUME WaitInv, d3 # 0, d5 = "waiting", wait_demos!Report(d3)
    PROVE  WaitInv'
  <1> DEFINE new == [number |-> d3, what |-> d4[d3]]
  <1> USE DEF wait_demos!Report, WaitInv
  <1>1. /\ d3 = Len(d4) /\ d4 # <<>>
        /\ new \in [number : Nat, what : WaitKinds \X Nat]
    BY DEF WaitTypes, WaitKernel
  <1>2. /\ Len(d6') = Len(d6) + 1 /\ d6'[Len(d6')] = new
        /\ \A k \in 1 .. Len(d6) : d6'[k] = d6[k]
        /\ d6' \in Seq([number : Nat, what : WaitKinds \X Nat])
    BY <1>1 DEF WaitTypes
  <1>3. WaitTypes' BY <1>1, <1>2 DEF WaitTypes
  <1>4. WaitKernel'
    BY <1>1 DEF WaitTypes, WaitKernel, wait_demos!Final
  <1>5. WaitReports'
    <2>1. d4' = d4 /\ d3' = 0 OBVIOUS
    <2>2. DOMAIN d6 = 1 .. Len(d6) /\ DOMAIN d6' = 1 .. (Len(d6) + 1)
      BY <1>2 DEF WaitTypes
    <2>3. new.number = d3 /\ new.what = d4[d3] OBVIOUS
    <2>4. ASSUME NEW j \in DOMAIN d6'
          PROVE  /\ d6'[j].number \in 1 .. Len(d4)
                 /\ d6'[j].what = d4[d6'[j].number]
      <3>1. CASE j \in DOMAIN d6 BY <3>1, <1>2, <2>2 DEF WaitReports
      <3>2. CASE j = Len(d6) + 1
        BY <3>2, <1>1, <1>2, <2>2, <2>3 DEF WaitTypes
      <3> QED BY <3>1, <3>2, <2>2
    <2>5. ASSUME NEW j \in DOMAIN d6', NEW k \in DOMAIN d6', j < k
          PROVE  d6'[j].number < d6'[k].number
      <3>1. CASE k \in DOMAIN d6
        <4>1. j \in DOMAIN d6 BY ONLY <2>2, <2>5, <3>1, Len(d6) \in Nat
        <4>2. d6'[j] = d6[j] /\ d6'[k] = d6[k]
          BY ONLY <1>2, <2>2, <3>1, <4>1
        <4> QED BY <2>5, <3>1, <4>1, <4>2 DEF WaitReports
      <3>2. CASE k = Len(d6) + 1
        BY <3>2, <2>5, <1>1, <1>2, <2>2, <2>3 DEF WaitReports, WaitTypes
      <3> QED BY <3>1, <3>2, <2>2
    <2>6. d6' # <<>> /\ d6'[Len(d6')].number = Len(d4')
      <3>1. Len(d6') # 0 BY <1>2 DEF WaitTypes
      <3>2. d6' # <<>> BY <3>1, <1>2
      <3> QED BY <1>1, <1>2, <2>1, <2>3, <3>2
    <2> QED BY <2>1, <2>4, <2>5, <2>6 DEF WaitReports
  <1> QED BY <1>3, <1>4, <1>5

\* Every step of the wait demonstrations keeps the invariant.
LEMMA WaitKept ==
    ASSUME wait_demos!WaitAssumption, WaitInv,
           [wait_demos!Next]_(wait_demos!waitVars)
    PROVE  WaitInv'
  <1>1. CASE UNCHANGED wait_demos!waitVars
    BY <1>1 DEF wait_demos!waitVars, WaitInv, WaitTypes, WaitKernel,
                WaitReports, wait_demos!Final
  <1>2. CASE wait_demos!Exit
    <2>1. PICK code \in ExitCodes :
             wait_demos!Change("zombie", <<"exited", code % 256>>)
      BY <1>2 DEF wait_demos!Exit
    <2>2. code % 256 \in Nat BY DEF wait_demos!WaitAssumption
    <2>3. d2 = "running" BY <1>2 DEF wait_demos!Exit
    <2> QED BY <2>1, <2>2, <2>3, WaitChange DEF wait_demos!Change, WaitKinds
  <1>3. CASE wait_demos!Killed
    BY <1>3, WaitChange DEF wait_demos!Killed, wait_demos!Change, WaitKinds
  <1>4. CASE wait_demos!Stopped
    BY <1>4, WaitChange DEF wait_demos!Stopped, wait_demos!Change, WaitKinds
  <1>5. CASE wait_demos!Continued
    BY <1>5, WaitChange DEF wait_demos!Continued, wait_demos!Change, WaitKinds
  <1>6. CASE wait_demos!WaitForEnd
    BY <1>6, WaitReport DEF wait_demos!WaitForEnd, WaitInv, WaitKernel
  <1>7. CASE wait_demos!waitid
    BY <1>7, WaitReport DEF wait_demos!waitid
  <1> QED BY <1>1, <1>2, <1>3, <1>4, <1>5, <1>6, <1>7 DEF wait_demos!Next

-----------------------------------------------------------------------------
(* signal_demos *)

\* The two signals, and the calls that the programs are made of.
TwoSignals == {"INT", "QUIT"}
Made == ({"catch", "ignore", "block", "unblock"} \X TwoSignals)
            \union {<<"sleep", "">>, <<"read", "">>}
Block == <<"block", "INT">>
Unblock == <<"unblock", "INT">>

\* What the variables of the signal demonstrations hold.
SignalTypes ==
    /\ d1 \in [program : signal_demos!Programs,
               words : SUBSET signal_demos!Words, sa_mask : SUBSET TwoSignals]
    /\ d2 \in Seq(Made)
    /\ d3 \in [disposition : [TwoSignals -> {"default", "catch", "ignore"}],
               mask : SUBSET TwoSignals, pending : SUBSET TwoSignals]
    /\ d4 \in Seq(TwoSignals)
    /\ d5 \in {"running", "ended"} \union TwoSignals
    /\ d6 \in [number : Nat, caught : SUBSET TwoSignals]

\* Only sigaction_demo_v2 has flags.
SignalFlags == d1.program # "sigaction_demo_v2" => d1.words = {}

\* A signal has its default action only where the program has yet to ask for
\* another, never asks for it, or had it reset.  The property speaks of what
\* signals have done; this is of what they would do.
SignalHandled ==
    \A s \in TwoSignals :
        d3.disposition[s] = "default" =>
            \/ signal_demos!Waiting("catch", s)
            \/ signal_demos!Waiting("ignore", s)
            \/ d1.program = "sigaction_demo_v1" /\ s = "QUIT"
            \/ d1.program = "procmask_demo"
            \/ /\ d1.program = "sigaction_demo_v2"
               /\ "reset" \in d1.words /\ s \in d6.caught

\* Calls that block SIGINT first if at all, and unblock it once.
Masking(calls) ==
    /\ \A k \in DOMAIN calls :
          /\ calls[k] \in {Block, Unblock, <<"sleep", "">>}
          /\ calls[k] = Block =>
                k = 1 /\ \E j \in DOMAIN calls : calls[j] = Unblock
    /\ \A j, k \in DOMAIN calls :
          calls[j] = Unblock /\ calls[k] = Unblock => j = k

\* procmask_demo has SIGINT blocked from its first call to the one that
\* unblocks it.
SignalMask ==
    d1.program = "procmask_demo" =>
        /\ Masking(d2)
        /\ ~signal_demos!Waiting("block", "INT") =>
              d3.mask = IF signal_demos!Waiting("unblock", "INT")
                        THEN {"INT"} ELSE {}

\* The invariant of the signal demonstrations.
SignalInv ==
    /\ SignalTypes /\ SignalFlags /\ SignalHandled /\ SignalMask
    /\ signal_demos!SignalsFollowFlags

\* Definitions of the module in the terms of this one.
LEMMA SignalNames ==
    /\ signal_demos!Signals = TwoSignals
    /\ \A name, s : signal_demos!Waiting(name, s)
                        <=> \E k \in DOMAIN d2 : d2[k] = <<name, s>>
  BY DEF signal_demos!Signals, TwoSignals, signal_demos!Waiting,
         signal_demos!ToSet

\* Calls one after the other.
LEMMA JoinedCalls ==
    ASSUME NEW s \in Seq(Made), NEW t \in Seq(Made)
    PROVE  /\ s \o t \in Seq(Made) /\ Len(s \o t) = Len(s) + Len(t)
           /\ \A k \in 1 .. Len(s) : (s \o t)[k] = s[k]
           /\ \A k \in Len(s) + 1 .. Len(s) + Len(t) :
                 (s \o t)[k] = t[k - Len(s)]
  <1>1. /\ s \o t \in Seq(Made) /\ Len(s \o t) = Len(s) + Len(t)
        /\ \A k \in 1 .. Len(s) + Len(t) :
              (s \o t)[k] = IF k <= Len(s) THEN s[k] ELSE t[k - Len(s)]
    BY ConcatProperties
  <1>2. Len(s) \in Nat /\ Len(t) \in Nat OBVIOUS
  <1> QED BY <1>1, <1>2

\* What each program asks for in its calls.
LEMMA SignalMain ==
    ASSUME signal_demos!SignalAssumption,
           NEW p \in signal_demos!Programs
    PROVE  /\ signal_demos!Main(p) \in Seq(Made)
           /\ p # "procmask_demo" =>
                 \A s \in TwoSignals :
                    \/ p = "sigaction_demo_v1" /\ s = "QUIT"
                    \/ \E k \in DOMAIN signal_demos!Main(p) :
                          signal_demos!Main(p)[k]
                              \in {<<"catch", s>>, <<"ignore", s>>}
           /\ p = "procmask_demo" =>
                 /\ Masking(signal_demos!Main(p))
                 /\ signal_demos!Main(p)[1] = Block
                 /\ Len(signal_demos!Main(p)) > 0
  <1> USE DEF TwoSignals
  <1> DEFINE sleep == <<"sleep", "">>
  <1>1. /\ signal_demos!Sleeps \in Seq(Made)
        /\ Len(signal_demos!Sleeps) = Rounds /\ Rounds \in Nat
        /\ \A k \in 1 .. Rounds : signal_demos!Sleeps[k] = sleep
    <2>1. Rounds \in Nat BY DEF signal_demos!SignalAssumption
    <2>2. sleep \in Made BY DEF Made
    <2>3. signal_demos!Sleeps = [k \in 1 .. Rounds |-> sleep]
      BY DEF signal_demos!Sleeps
    <2> HIDE DEF sleep
    <2> QED BY ONLY <2>1, <2>2, <2>3
  <1>2. CASE p = "sigaction_demo_v1"
    <2> DEFINE m == <<<<"catch", "INT">>, <<"sleep", "">>>>
    <2>1. m \in Seq(Made) /\ DOMAIN m = 1 .. 2 /\ m[1] = <<"catch", "INT">>
      BY DEF Made
    <2>2. signal_demos!Main(p) = m
      BY <1>2, Zenon DEF signal_demos!Main, signal_demos!sigaction_demo_v1
    <2> HIDE DEF m
    <2> QED BY <1>2, <2>1, <2>2
  <1>3. CASE p = "sigaction_demo_v2"
    <2> DEFINE m == <<<<"catch", "INT">>, <<"catch", "QUIT">>, <<"read", "">>>>
    <2>1. /\ m \in Seq(Made) /\ DOMAIN m = 1 .. 3 /\ m[1] = <<"catch", "INT">>
          /\ m[2] = <<"catch", "QUIT">>
      BY DEF Made
    <2>2. signal_demos!Main(p) = m
      BY <1>3, Zenon DEF signal_demos!Main, signal_demos!sigaction_demo_v2
    <2> HIDE DEF m
    <2>3. ASSUME NEW s \in TwoSignals
          PROVE  \E k \in DOMAIN m : m[k] = <<"catch", s>>
      <3>1. 1 \in DOMAIN m /\ 2 \in DOMAIN m BY <2>1
      <3>2. CASE s = "INT" BY <2>1, <3>1, <3>2
      <3>3. CASE s = "QUIT" BY <2>1, <3>1, <3>3
      <3> QED BY <3>2, <3>3
    <2> QED BY <1>3, <2>1, <2>2, <2>3
  <1>4. ASSUME NEW name \in {"catch", "ignore"}, p # "procmask_demo",
               signal_demos!Main(p)
                   = <<<<name, "INT">>, <<name, "QUIT">>>>
                        \o signal_demos!Sleeps
        PROVE  /\ signal_demos!Main(p) \in Seq(Made)
               /\ \A s \in TwoSignals : \E k \in DOMAIN signal_demos!Main(p) :
                     signal_demos!Main(p)[k] = <<name, s>>
    <2> DEFINE two == <<<<name, "INT">>, <<name, "QUIT">>>>
               m == two \o signal_demos!Sleeps
    <2>1. /\ two \in Seq(Made) /\ Len(two) = 2 /\ two[1] = <<name, "INT">>
          /\ two[2] = <<name, "QUIT">>
      BY DEF Made
    <2> HIDE DEF two
    <2>2. /\ m \in Seq(Made) /\ Len(m) = 2 + Rounds
          /\ \A k \in 1 .. 2 : m[k] = two[k]
      <3>1. /\ m \in Seq(Made) /\ Len(m) = Len(two) + Len(signal_demos!Sleeps)
            /\ \A k \in 1 .. Len(two) : m[k] = two[k]
        BY <1>1, <2>1, JoinedCalls, Zenon
      <3> HIDE DEF m
      <3> QED BY <1>1, <2>1, <3>1, Zenon
    <2> HIDE DEF m
    <2>3. m[1] = <<name, "INT">> /\ m[2] = <<name, "QUIT">>
          /\ 1 \in DOMAIN m /\ 2 \in DOMAIN m
      <3>1. DOMAIN m = 1 .. 2 + Rounds BY <2>2
      <3>4. Rounds \in Nat BY <1>1, Zenon
      <3>2. 1 \in DOMAIN m /\ 2 \in DOMAIN m BY ONLY <3>1, <3>4
      <3>3. m[1] = two[1] /\ m[2] = two[2] BY <2>2
      <3> QED BY <2>1, <3>2, <3>3
    <2>4. signal_demos!Main(p) = m BY <1>4 DEF two, m
    <2> QED BY ONLY <2>2, <2>3, <2>4 DEF TwoSignals
  <1>5. CASE p = "signal_demo_v1"
    <2>1. signal_demos!Main(p)
             = <<<<"catch", "INT">>, <<"catch", "QUIT">>>>
                  \o signal_demos!Sleeps
      BY <1>5 DEF signal_demos!Main, signal_demos!signal_demo_v1
    <2> QED BY <1>4, <1>5, <2>1
  <1>6. CASE p = "signal_demo_v2"
    <2>1. signal_demos!Main(p)
             = <<<<"ignore", "INT">>, <<"ignore", "QUIT">>>>
                  \o signal_demos!Sleeps
      BY <1>6 DEF signal_demos!Main, signal_demos!signal_demo_v2
    <2> QED BY <1>4, <1>6, <2>1
  <1>7. CASE p = "procmask_demo"
    <2> DEFINE b == <<Block>>
               u == <<Unblock>>
               s == signal_demos!Sleeps
               bs == b \o s
               bsu == bs \o u
               m == bsu \o s
    <2>1. /\ b \in Seq(Made) /\ Len(b) = 1 /\ b[1] = Block
          /\ u \in Seq(Made) /\ Len(u) = 1 /\ u[1] = Unblock
      BY DEF Made, Block, Unblock
    <2>2. signal_demos!Main(p) = m
      BY <1>7 DEF signal_demos!Main, signal_demos!procmask_demo, Block, Unblock
    <2> HIDE DEF b, u, s
    <2>3. /\ bs \in Seq(Made) /\ Len(bs) = 1 + Rounds /\ bs[1] = Block
          /\ \A k \in 2 .. 1 + Rounds : bs[k] = sleep
      <3>2. /\ s \in Seq(Made) /\ Len(s) = Rounds
            /\ \A k \in 1 .. Rounds : s[k] = sleep
        BY <1>1, Zenon DEF s
      <3>1. /\ bs \in Seq(Made) /\ Len(bs) = Len(b) + Len(s)
            /\ \A k \in 1 .. Len(b) : bs[k] = b[k]
            /\ \A k \in Len(b) + 1 .. Len(b) + Len(s) : bs[k] = s[k - Len(b)]
        BY <2>1, <3>2, JoinedCalls, Zenon
      <3> HIDE DEF bs, sleep
      <3> QED BY ONLY <1>1, <2>1, <3>1, <3>2
    <2> HIDE DEF bs
    <2>4. /\ bsu \in Seq(Made) /\ Len(bsu) = 2 + Rounds /\ bsu[1] = Block
          /\ \A k \in 2 .. 1 + Rounds : bsu[k] = sleep
          /\ bsu[2 + Rounds] = Unblock
      <3>1. /\ bsu \in Seq(Made) /\ Len(bsu) = Len(bs) + Len(u)
            /\ \A k \in 1 .. Len(bs) : bsu[k] = bs[k]
            /\ \A k \in Len(bs) + 1 .. Len(bs) + Len(u) :
                  bsu[k] = u[k - Len(bs)]
        BY <2>1, <2>3, JoinedCalls, Zenon
      <3> HIDE DEF bsu, sleep
      <3>2. Rounds \in Nat BY <1>1
      <3> QED BY ONLY <2>1, <2>3, <3>1, <3>2
    <2> HIDE DEF bsu
    <2>5. /\ m \in Seq(Made) /\ Len(m) = 2 + Rounds + Rounds /\ m[1] = Block
          /\ \A k \in 2 .. 1 + Rounds : m[k] = sleep
          /\ m[2 + Rounds] = Unblock
          /\ \A k \in 3 + Rounds .. 2 + Rounds + Rounds : m[k] = sleep
      <3>1. /\ m \in Seq(Made) /\ Len(m) = Len(bsu) + Len(s)
            /\ \A k \in 1 .. Len(bsu) : m[k] = bsu[k]
            /\ \A k \in Len(bsu) + 1 .. Len(bsu) + Len(s) :
                  m[k] = s[k - Len(bsu)]
        <4>1. s \in Seq(Made) BY <1>1, Zenon DEF s
        <4> QED BY <2>4, <4>1, JoinedCalls, Zenon
      <3>2. /\ s \in Seq(Made) /\ Len(s) = Rounds /\ Rounds \in Nat
            /\ \A k \in 1 .. Rounds : s[k] = sleep
        BY <1>1, Zenon DEF s
      <3> HIDE DEF m, sleep
      <3> QED BY ONLY <2>4, <3>1, <3>2
    <2> HIDE DEF m
    <2>6. sleep # Block /\ sleep # Unblock /\ Block # Unblock
      BY DEF Block, Unblock
    <2> HIDE DEF sleep
    <2>7. DOMAIN m = 1 .. 2 + Rounds + Rounds BY <2>5
    <2>8. \A k \in DOMAIN m :
             \/ k = 1 /\ m[k] = Block
             \/ k = 2 + Rounds /\ m[k] = Unblock
             \/ k # 1 /\ k # 2 + Rounds /\ m[k] = sleep
      BY ONLY <1>1, <2>5, <2>7
    <2>9. 2 + Rounds \in DOMAIN m /\ m[2 + Rounds] = Unblock
      BY ONLY <1>1, <2>5, <2>7
    <2>10. Masking(m)
      BY ONLY <2>6, <2>8, <2>9, Zenon DEF Masking, sleep
    <2>11. Len(m) > 0 BY <1>1, <2>5
    <2> QED BY <1>7, <2>2, <2>5, <2>10, <2>11
  <1> QED BY <1>2, <1>3, <1>5, <1>6, <1>7 DEF signal_demos!Programs

\* A program has all of its calls before it.
LEMMA SignalInit ==
    ASSUME signal_demos!SignalAssumption, signal_demos!Init
    PROVE  SignalInv
  <1>1. /\ d1 \in [program : signal_demos!Programs,
                   words : SUBSET signal_demos!Words,
                   sa_mask : SUBSET TwoSignals]
        /\ d1.program # "sigaction_demo_v2" => d1.words = {}
        /\ d2 = signal_demos!Main(d1.program)
        /\ d3 = [disposition |-> [s \in TwoSignals |-> "default"],
                 mask |-> {}, pending |-> {}]
        /\ d4 = <<>> /\ d5 = "running" /\ d6 = [number |-> 0, caught |-> {}]
    BY DEF signal_demos!Init, signal_demos!Signals, TwoSignals
  <1>2. d1.program \in signal_demos!Programs BY <1>1
  <1>3. /\ d2 \in Seq(Made)
        /\ d1.program # "procmask_demo" =>
              \A s \in TwoSignals :
                 \/ d1.program = "sigaction_demo_v1" /\ s = "QUIT"
                 \/ \E k \in DOMAIN d2 :
                       d2[k] \in {<<"catch", s>>, <<"ignore", s>>}
        /\ d1.program = "procmask_demo" =>
              Masking(d2) /\ d2[1] = Block /\ Len(d2) > 0
    BY <1>1, <1>2, SignalMain
  <1>4. SignalTypes BY <1>1, <1>3 DEF SignalTypes
  <1>5. SignalFlags BY <1>1 DEF SignalFlags
  <1>6. SignalHandled BY <1>3, SignalNames DEF SignalHandled
  <1>7. SignalMask
    <2>1. d1.program = "procmask_demo" => signal_demos!Waiting("block", "INT")
      <3> SUFFICES ASSUME d1.program = "procmask_demo"
                   PROVE  signal_demos!Waiting("block", "INT")
        OBVIOUS
      <3>1. 1 \in DOMAIN d2 /\ d2[1] = <<"block", "INT">>
        BY <1>3 DEF Block
      <3> QED BY ONLY <3>1, SignalNames
    <2> QED BY <1>3, <2>1 DEF SignalMask
  <1>8. signal_demos!SignalsFollowFlags
    BY <1>1 DEF signal_demos!SignalsFollowFlags, signal_demos!Nested,
       signal_demos!KilledAsAsked, signal_demos!SecondLoopAlone, TwoSignals,
       signal_demos!Signals
  <1> QED BY <1>4, <1>5, <1>6, <1>7, <1>8 DEF SignalInv

\* A program that has made a call has the others before it.
LEMMA TailOfCalls ==
    ASSUME d2 \in Seq(Made), d2 # <<>>, d2' = Tail(d2)
    PROVE  /\ d2' \in Seq(Made)
           /\ \A name, s :
                 /\ signal_demos!Waiting(name, s)'
                        => signal_demos!Waiting(name, s)
                 /\ signal_demos!Waiting(name, s) =>
                       \/ signal_demos!Waiting(name, s)'
                       \/ Head(d2) = <<name, s>>
           /\ Masking(d2) =>
                 /\ Masking(d2') /\ ~signal_demos!Waiting("block", "INT")'
                 /\ Head(d2) = Unblock =>
                       ~signal_demos!Waiting("unblock", "INT")'
                 /\ Head(d2) \in {Block, Unblock, <<"sleep", "">>}
                 /\ Head(d2) = Block => signal_demos!Waiting("unblock", "INT")
  <1>1. /\ d2' \in Seq(Made) /\ Len(d2) \in Nat \ {0}
        /\ Len(d2') = Len(d2) - 1 /\ Head(d2) = d2[1]
        /\ \A k \in 1 .. Len(d2) - 1 : d2'[k] = d2[k + 1]
    OBVIOUS
  <1>2. /\ DOMAIN d2 = 1 .. Len(d2) /\ DOMAIN d2' = 1 .. Len(d2) - 1
        /\ 1 \in DOMAIN d2
    BY <1>1
  <1>3. \A name, s : signal_demos!Waiting(name, s)'
                        <=> \E k \in DOMAIN d2' : d2'[k] = <<name, s>>
    BY DEF signal_demos!Waiting, signal_demos!ToSet
  <1>4. \A x : (\E k \in DOMAIN d2' : d2'[k] = x)
                  => \E k \in DOMAIN d2 : d2[k] = x
    <2>1. \A k \in DOMAIN d2' : k + 1 \in DOMAIN d2 /\ d2'[k] = d2[k + 1]
      BY ONLY <1>1, <1>2
    <2> QED BY ONLY <2>1
  <1>5. ASSUME NEW x, NEW k \in DOMAIN d2, d2[k] = x, Head(d2) # x
        PROVE  \E j \in DOMAIN d2' : d2'[j] = x
    <2>1. k # 1 BY <1>1, <1>5
    <2>2. k - 1 \in DOMAIN d2' /\ d2'[k - 1] = x
      BY ONLY <1>1, <1>2, <1>5, <2>1
    <2> QED BY <2>2
  <1>6. ASSUME Masking(d2)
        PROVE  /\ \A k \in DOMAIN d2' : d2'[k] # Block
               /\ Head(d2) = Unblock => \A k \in DOMAIN d2' : d2'[k] # Unblock
               /\ \A k \in DOMAIN d2' :
                     d2'[k] \in {Block, Unblock, <<"sleep", "">>}
               /\ \A j, k \in DOMAIN d2' :
                     d2'[j] = Unblock /\ d2'[k] = Unblock => j = k
    <2>1. \A k \in DOMAIN d2' : k + 1 \in DOMAIN d2 /\ d2'[k] = d2[k + 1]
                                /\ k + 1 # 1 /\ k \in Int
      BY ONLY <1>1, <1>2
    <2> DEFINE sleep == <<"sleep", "">>
    <2> HIDE DEF sleep
    <2>2. /\ \A k \in DOMAIN d2 : d2[k] \in {Block, Unblock, sleep}
          /\ \A k \in DOMAIN d2 : d2[k] = Block => k = 1
          /\ \A j, k \in DOMAIN d2 :
                d2[j] = Unblock /\ d2[k] = Unblock => j = k
      BY <1>6, Zenon DEF Masking, sleep
    <2>3. \A k \in DOMAIN d2' : d2'[k] # Block BY ONLY <2>1, <2>2
    <2>4. Head(d2) = Unblock => \A k \in DOMAIN d2' : d2'[k] # Unblock
      BY ONLY <1>1, <1>2, <2>1, <2>2
    <2>5. \A k \in DOMAIN d2' : d2'[k] \in {Block, Unblock, sleep}
      BY ONLY <2>1, <2>2
    <2>6. \A j, k \in DOMAIN d2' :
             d2'[j] = Unblock /\ d2'[k] = Unblock => j = k
      <3> SUFFICES ASSUME NEW j \in DOMAIN d2', NEW k \in DOMAIN d2',
                          d2'[j] = Unblock, d2'[k] = Unblock
                   PROVE  j = k
        OBVIOUS
      <3>1. j + 1 = k + 1
        BY ONLY <2>1, <2>2, d2'[j] = Unblock, d2'[k] = Unblock,
                             j \in DOMAIN d2', k \in DOMAIN d2'
      <3> QED BY ONLY <2>1, <3>1, j \in DOMAIN d2', k \in DOMAIN d2'
    <2> QED BY <2>3, <2>4, <2>5, <2>6, Zenon DEF sleep
  <1>7. Masking(d2) => Masking(d2')
    BY <1>6, Zenon DEF Masking
  <1>8. Masking(d2) => Head(d2) \in {Block, Unblock, <<"sleep", "">>}
    BY <1>1, <1>2, Zenon DEF Masking
  <1>9. Masking(d2) /\ Head(d2) = Block
           => signal_demos!Waiting("unblock", "INT")
    BY <1>1, <1>2, SignalNames, Zenon DEF Masking, Unblock
  <1>10. Masking(d2) => ~signal_demos!Waiting("block", "INT")'
    BY <1>3, <1>6, Zenon DEF Block
  <1>11. Masking(d2) /\ Head(d2) = Unblock
            => ~signal_demos!Waiting("unblock", "INT")'
    BY <1>3, <1>6, Zenon DEF Unblock
  <1>12. \A name, s :
                 /\ signal_demos!Waiting(name, s)'
                        => signal_demos!Waiting(name, s)
                 /\ signal_demos!Waiting(name, s) =>
                       \/ signal_demos!Waiting(name, s)'
                       \/ Head(d2) = <<name, s>>
    BY <1>3, <1>4, <1>5, SignalNames
  <1> QED BY ONLY <1>1, <1>7, <1>8, <1>9, <1>10, <1>11, <1>12, Zenon

\* A signal that can be delivered is not masked by an activation of a handler.
LEMMA SignalBlocked ==
    ASSUME SignalTypes, NEW s \in TwoSignals,
           s \notin signal_demos!Blocked
    PROVE  /\ s \notin d3.mask
           /\ \A k \in DOMAIN d4 :
                 /\ s \notin d1.sa_mask
                 /\ d1.words \intersect {"noblock", "restart"} = {}
                       => s # d4[k]
  <1>1. \A k \in DOMAIN d4 : s \notin signal_demos!Masked(d4[k])
    BY DEF signal_demos!Blocked
  <1> QED
    BY <1>1 DEF signal_demos!Blocked, signal_demos!Masked,
                signal_demos!SA_NODEFER

\* A step after which the program runs and is in the handlers it was in breaks
\* no promise.
LEMMA SignalRuns ==
    ASSUME SignalTypes, d5' = "running", d1' = d1, d4' = d4,
           signal_demos!SignalsFollowFlags
    PROVE  signal_demos!SignalsFollowFlags'
  BY DEF signal_demos!SignalsFollowFlags, signal_demos!Nested,
         signal_demos!KilledAsAsked, signal_demos!SecondLoopAlone,
         signal_demos!Signals

\* A signal is delivered as it was asked to be.
LEMMA SignalDeliver ==
    ASSUME SignalInv, NEW s \in TwoSignals, signal_demos!Deliver(s)
    PROVE  SignalInv'
  <1>1. /\ d5 = "running" /\ s \in d3.pending /\ s \notin signal_demos!Blocked
        /\ d1' = d1 /\ d2' = d2
    BY DEF signal_demos!Deliver, signal_demos!Deliverable
  <1>2. \A name, x : signal_demos!Waiting(name, x)'
                        <=> signal_demos!Waiting(name, x)
    BY <1>1 DEF signal_demos!Waiting
  <1>3. SignalFlags' BY <1>1 DEF SignalInv, SignalFlags
  <1>4. /\ s \notin d3.mask
        /\ \A k \in DOMAIN d4 :
              /\ s \notin d1.sa_mask
              /\ d1.words \intersect {"noblock", "restart"} = {} => s # d4[k]
    BY <1>1, SignalBlocked DEF SignalInv
  <1>5. CASE d3.disposition[s] = "default"
    <2>1. d5' = s /\ d3' = d3 /\ d4' = d4 /\ d6' = d6
      BY <1>5 DEF signal_demos!Deliver
    <2>2. SignalTypes' BY <1>1, <2>1 DEF SignalInv, SignalTypes
    <2>3. SignalHandled'
      BY <1>1, <1>2, <2>1 DEF SignalInv, SignalHandled
    <2>4. SignalMask' BY <1>1, <1>2, <2>1 DEF SignalInv, SignalMask
    <2>5. signal_demos!Nested'
      BY <1>1, <2>1 DEF SignalInv, signal_demos!SignalsFollowFlags,
                        signal_demos!Nested
    <2>6. signal_demos!SecondLoopAlone'
      BY <2>1 DEF signal_demos!SecondLoopAlone, TwoSignals
    <2>7. signal_demos!KilledAsAsked'
      <3> SUFFICES ASSUME NEW x \in TwoSignals, d5' = x
                   PROVE  (\/ signal_demos!Waiting("catch", x)
                           \/ signal_demos!Waiting("ignore", x)
                           \/ d1.program = "sigaction_demo_v1" /\ x = "QUIT"
                           \/ /\ d1.program = "sigaction_demo_v2"
                              /\ "reset" \in d1.words /\ x \in d6.caught
                              /\ d1.words \intersect {"noblock", "restart"}
                                    = {} => x \notin signal_demos!ToSet(d4)
                           \/ /\ d1.program = "procmask_demo"
                              /\ x = "INT" =>
                                    \/ signal_demos!Waiting("block", x)
                                    \/ ~signal_demos!Waiting("unblock", x))'
        BY <1>1, <2>1, SignalNames DEF signal_demos!KilledAsAsked, TwoSignals
      <3>1. x = s BY <2>1
      <3>2. d1.words \intersect {"noblock", "restart"} = {}
               => s \notin signal_demos!ToSet(d4)
        BY <1>4 DEF signal_demos!ToSet
      <3>3. d1.program = "procmask_demo" /\ s = "INT" =>
               \/ signal_demos!Waiting("block", s)
               \/ ~signal_demos!Waiting("unblock", s)
        BY <1>4 DEF SignalInv, SignalMask
      <3>4. \/ signal_demos!Waiting("catch", s)
            \/ signal_demos!Waiting("ignore", s)
            \/ d1.program = "sigaction_demo_v1" /\ s = "QUIT"
            \/ d1.program = "procmask_demo"
            \/ /\ d1.program = "sigaction_demo_v2"
               /\ "reset" \in d1.words /\ s \in d6.caught
        BY <1>5 DEF SignalInv, SignalHandled
      <3>5. signal_demos!ToSet(d4)' = signal_demos!ToSet(d4) BY <2>1
      <3> QED BY <1>1, <1>2, <2>1, <3>1, <3>2, <3>3, <3>4, <3>5
    <2> QED BY <1>3, <2>2, <2>3, <2>4, <2>5, <2>6, <2>7
            DEF SignalInv, signal_demos!SignalsFollowFlags
  <1>6. CASE d3.disposition[s] # "default"
    <2>1. /\ d4' = Append(d4, s) /\ d5' = "running"
          /\ d3' = [d3 EXCEPT !.pending = @ \ {s},
                       !.disposition[s] = IF signal_demos!SA_RESETHAND
                                          THEN "default" ELSE @]
          /\ d6' = [d6 EXCEPT !.caught = @ \union {s}]
      BY <1>1, <1>6 DEF signal_demos!Deliver
    <2>2. /\ d6' \in [number : Nat, caught : SUBSET TwoSignals]
          /\ d6'.caught = d6.caught \union {s}
      BY <2>1 DEF SignalInv, SignalTypes
    <2>3. /\ d3' \in [disposition :
                         [TwoSignals -> {"default", "catch", "ignore"}],
                      mask : SUBSET TwoSignals, pending : SUBSET TwoSignals]
          /\ d3'.mask = d3.mask
          /\ \A x \in TwoSignals \ {s} : d3'.disposition[x] = d3.disposition[x]
          /\ ~signal_demos!SA_RESETHAND
                => d3'.disposition[s] = d3.disposition[s]
      BY <2>1 DEF SignalInv, SignalTypes
    <2>4. /\ d4' \in Seq(TwoSignals) /\ Len(d4') = Len(d4) + 1
          /\ d4'[Len(d4) + 1] = s
          /\ \A k \in 1 .. Len(d4) : d4'[k] = d4[k]
      BY <2>1 DEF SignalInv, SignalTypes
    <2>5. SignalTypes'
      BY <1>1, <2>1, <2>2, <2>3, <2>4 DEF SignalInv, SignalTypes
    <2>6. SignalHandled'
      <3> SUFFICES ASSUME NEW x \in TwoSignals, d3'.disposition[x] = "default"
                   PROVE  \/ signal_demos!Waiting("catch", x)
                          \/ signal_demos!Waiting("ignore", x)
                          \/ d1.program = "sigaction_demo_v1" /\ x = "QUIT"
                          \/ d1.program = "procmask_demo"
                          \/ /\ d1.program = "sigaction_demo_v2"
                             /\ "reset" \in d1.words /\ x \in d6'.caught
        BY <1>1, <1>2 DEF SignalHandled
      <3>1. CASE x = s
        <4>1. "reset" \in d1.words
          BY <1>6, <2>3, <3>1 DEF signal_demos!SA_RESETHAND
        <4>2. d1.program = "sigaction_demo_v2"
          BY <4>1 DEF SignalInv, SignalFlags
        <4> QED BY <2>2, <3>1, <4>1, <4>2
      <3>2. CASE x # s
        BY <2>2, <2>3, <3>2 DEF SignalInv, SignalHandled
      <3> QED BY <3>1, <3>2
    <2>7. SignalMask' BY <1>1, <1>2, <2>3 DEF SignalInv, SignalMask
    <2>8. signal_demos!Nested'
      <3> SUFFICES ASSUME NEW j \in DOMAIN d4', NEW k \in DOMAIN d4', j < k
                   PROVE  /\ d4'[k] \notin d1.sa_mask
                          /\ "noblock" \notin d1.words
                             /\ "restart" \notin d1.words => d4'[j] # d4'[k]
        BY <1>1 DEF signal_demos!Nested
      <3>1. /\ DOMAIN d4 = 1 .. Len(d4) /\ DOMAIN d4' = 1 .. Len(d4) + 1
            /\ Len(d4) \in Nat
        BY <2>4 DEF SignalInv, SignalTypes
      <3>2. j \in DOMAIN d4 /\ d4'[j] = d4[j] BY <2>4, <3>1
      <3>3. CASE k = Len(d4) + 1
        <4>1. d4'[k] = s BY <2>4, <3>3
        <4> QED BY <1>4, <3>2, <4>1
      <3>4. CASE k # Len(d4) + 1
        <4>1. k \in DOMAIN d4 /\ d4'[k] = d4[k] BY <2>4, <3>1, <3>4
        <4> QED BY <3>2, <4>1 DEF SignalInv, signal_demos!SignalsFollowFlags,
                signal_demos!Nested
      <3> QED BY <3>3, <3>4
    <2>9. signal_demos!KilledAsAsked' /\ signal_demos!SecondLoopAlone'
      BY <2>1 DEF signal_demos!KilledAsAsked, signal_demos!SecondLoopAlone,
                  signal_demos!Signals
    <2> QED BY <1>3, <2>5, <2>6, <2>7, <2>8, <2>9
            DEF SignalInv, signal_demos!SignalsFollowFlags
  <1> QED BY <1>5, <1>6

\* A signal is pending when it has been raised.
LEMMA SignalRaise ==
    ASSUME SignalInv, NEW s \in TwoSignals, signal_demos!Raise(s)
    PROVE  SignalInv'
  <1>1. /\ d5 = "running" /\ UNCHANGED <<d1, d2, d4, d5>>
        /\ d6' = [d6 EXCEPT !.number = @ + 1]
        /\ d3' = IF d3.disposition[s] = "ignore" THEN d3
                 ELSE [d3 EXCEPT !.pending = @ \union {s}]
    BY DEF signal_demos!Raise
  <1>2. /\ d6' \in [number : Nat, caught : SUBSET TwoSignals]
        /\ d6'.caught = d6.caught
    <2>1. d6 \in [number : Nat, caught : SUBSET TwoSignals]
      BY DEF SignalInv, SignalTypes
    <2>2. d6' = [d6 EXCEPT !.number = @ + 1] BY <1>1
    <2> QED BY ONLY <2>1, <2>2
  <1>3. /\ d3' \in [disposition :
                       [TwoSignals -> {"default", "catch", "ignore"}],
                    mask : SUBSET TwoSignals, pending : SUBSET TwoSignals]
        /\ d3'.mask = d3.mask /\ d3'.disposition = d3.disposition
    <2>1. d3 \in [disposition : [TwoSignals -> {"default", "catch", "ignore"}],
                  mask : SUBSET TwoSignals, pending : SUBSET TwoSignals]
      BY DEF SignalInv, SignalTypes
    <2>2. CASE d3.disposition[s] = "ignore" BY <1>1, <2>1, <2>2
    <2>3. CASE d3.disposition[s] # "ignore"
      <3>1. d3' = [d3 EXCEPT !.pending = @ \union {s}] BY <1>1, <2>3
      <3> QED BY <2>1, <3>1
    <2> QED BY <2>2, <2>3
  <1>4. \A name, x : signal_demos!Waiting(name, x)'
                        <=> signal_demos!Waiting(name, x)
    BY <1>1 DEF signal_demos!Waiting
  <1>5. SignalTypes' BY <1>1, <1>2, <1>3 DEF SignalInv, SignalTypes
  <1>6. SignalFlags' BY <1>1 DEF SignalInv, SignalFlags
  <1>7. SignalHandled'
    BY <1>1, <1>2, <1>3, <1>4 DEF SignalInv, SignalHandled
  <1>8. SignalMask' BY <1>1, <1>3, <1>4 DEF SignalInv, SignalMask
  <1>9. signal_demos!SignalsFollowFlags' BY <1>1, SignalRuns DEF SignalInv
  <1> QED BY <1>5, <1>6, <1>7, <1>8, <1>9 DEF SignalInv

\* The first n of a sequence.
LEMMA FirstOnes ==
    ASSUME NEW S, NEW s \in Seq(S), NEW n \in Nat, n < Len(s)
    PROVE  /\ SubSeq(s, 1, n) \in Seq(S) /\ Len(SubSeq(s, 1, n)) = n
           /\ \A k \in 1 .. n : SubSeq(s, 1, n)[k] = s[k]
  OBVIOUS

\* A handler returns to the one that it has interrupted.
LEMMA SignalLeave ==
    ASSUME SignalInv, signal_demos!Leave
    PROVE  SignalInv'
  <1>1. /\ d5 = "running" /\ d4 # <<>> /\ UNCHANGED <<d1, d2, d3, d6>>
        /\ d4' = SubSeq(d4, 1, Len(d4) - 1)
        /\ d5' = IF d1.program = "sigaction_demo_v1" THEN "ended"
                 ELSE "running"
    BY DEF signal_demos!Leave, signal_demos!Front
  <1>2. /\ d4' \in Seq(TwoSignals) /\ Len(d4') = Len(d4) - 1
        /\ Len(d4) \in Nat \ {0}
        /\ \A k \in 1 .. Len(d4) - 1 : d4'[k] = d4[k]
    <2>1. d4 \in Seq(TwoSignals) BY DEF SignalInv, SignalTypes
    <2>2. Len(d4) \in Nat \ {0} BY <1>1, <2>1
    <2> DEFINE n == Len(d4) - 1
    <2>3. n \in Nat /\ n < Len(d4) BY ONLY <2>2
    <2>4. d4' = SubSeq(d4, 1, n) BY ONLY <1>1
    <2> HIDE DEF n
    <2>5. /\ d4' \in Seq(TwoSignals) /\ Len(d4') = n
          /\ \A k \in 1 .. n : d4'[k] = d4[k]
      BY ONLY <2>1, <2>3, <2>4, FirstOnes
    <2> QED BY ONLY <2>2, <2>5 DEF n
  <1>3. \A name, x : signal_demos!Waiting(name, x)'
                        <=> signal_demos!Waiting(name, x)
    BY <1>1 DEF signal_demos!Waiting
  <1>4. SignalTypes' BY <1>1, <1>2 DEF SignalInv, SignalTypes
  <1>5. SignalFlags' BY <1>1 DEF SignalInv, SignalFlags
  <1>6. SignalHandled' BY <1>1, <1>3 DEF SignalInv, SignalHandled
  <1>7. SignalMask' BY <1>1, <1>3 DEF SignalInv, SignalMask
  <1>8. signal_demos!Nested'
    <2>1. /\ DOMAIN d4 = 1 .. Len(d4) /\ DOMAIN d4' = 1 .. Len(d4) - 1
      BY <1>2 DEF SignalInv, SignalTypes
    <2>2. \A k \in DOMAIN d4' : k \in DOMAIN d4 /\ d4'[k] = d4[k]
      BY <1>2, <2>1
    <2> QED BY <1>1, <2>2 DEF SignalInv, signal_demos!SignalsFollowFlags,
            signal_demos!Nested
  <1>9. signal_demos!KilledAsAsked' /\ signal_demos!SecondLoopAlone'
    BY <1>1 DEF signal_demos!KilledAsAsked, signal_demos!SecondLoopAlone,
                signal_demos!Signals
  <1> QED BY <1>4, <1>5, <1>6, <1>7, <1>8, <1>9
          DEF SignalInv, signal_demos!SignalsFollowFlags

\* A call that does not wait is about a signal.
LEMMA MadeOf ==
    ASSUME NEW call \in Made,
           call[1] \notin {"sleep", "read"}
    PROVE  \E s \in TwoSignals : call = <<call[1], s>>
  <1>1. /\ <<"sleep", "">>[1] = "sleep" /\ <<"read", "">>[1] = "read"
    OBVIOUS
  <1>2. call # <<"sleep", "">> /\ call # <<"read", "">> BY <1>1, Zenon
  <1>3. call \in {"catch", "ignore", "block", "unblock"} \X TwoSignals
    BY <1>2, Zenon DEF Made
  <1> QED BY <1>3

\* main makes its next call.
LEMMA SignalMainStep ==
    ASSUME SignalInv, signal_demos!main
    PROVE  SignalInv'
  <1>1. d5 = "running" /\ d4 = <<>> /\ signal_demos!Deliverable = {}
    BY DEF signal_demos!main, signal_demos!SetDisposition,
       signal_demos!SetMask, signal_demos!Wait, signal_demos!End,
       signal_demos!Calls, signal_demos!Runs
  <1>2. CASE signal_demos!End
    <2>1. d2 = <<>> /\ d5' = "ended" /\ UNCHANGED <<d1, d2, d3, d4, d6>>
      BY <1>2 DEF signal_demos!End
    <2>2. \A name, x : ~signal_demos!Waiting(name, x)
                       /\ ~signal_demos!Waiting(name, x)'
      BY <2>1 DEF signal_demos!Waiting, signal_demos!ToSet
    <2>3. SignalTypes' BY <2>1 DEF SignalInv, SignalTypes
    <2>4. SignalFlags' BY <2>1 DEF SignalInv, SignalFlags
    <2>5. SignalHandled' BY <2>1, <2>2 DEF SignalInv, SignalHandled
    <2>6. SignalMask' BY <2>1, <2>2 DEF SignalInv, SignalMask
    <2>7. signal_demos!Nested' /\ signal_demos!KilledAsAsked'
      BY <1>1, <2>1 DEF signal_demos!Nested, signal_demos!KilledAsAsked,
         signal_demos!Signals
    <2>8. signal_demos!SecondLoopAlone'
      <3> SUFFICES ASSUME d1.program = "procmask_demo", "INT" \in d3.pending
                   PROVE  FALSE
        BY <2>1 DEF signal_demos!SecondLoopAlone
      <3>1. d3.mask = {} BY <2>2 DEF SignalInv, SignalMask
      <3>2. signal_demos!Blocked = {}
        BY <1>1, <3>1 DEF signal_demos!Blocked
      <3> QED BY <1>1, <3>2 DEF signal_demos!Deliverable
    <2> QED BY <2>3, <2>4, <2>5, <2>6, <2>7, <2>8
            DEF SignalInv, signal_demos!SignalsFollowFlags
  <1>3. ASSUME d2 # <<>>, d2' = Tail(d2), UNCHANGED <<d1, d4, d5, d6>>,
               d3' \in [disposition :
                            [TwoSignals -> {"default", "catch", "ignore"}],
                        mask : SUBSET TwoSignals, pending : SUBSET TwoSignals],
               \A s \in TwoSignals :
                  \/ d3'.disposition[s] = d3.disposition[s]
                     /\ Head(d2) \notin {<<"catch", s>>, <<"ignore", s>>}
                  \/ d3'.disposition[s] # "default",
               Head(d2) = Block => d3'.mask = {"INT"},
               Head(d2) = Unblock => d3'.mask = {},
               Head(d2) \notin {Block, Unblock}
                  /\ d1.program = "procmask_demo" => d3'.mask = d3.mask
        PROVE  SignalInv'
    <2>1. /\ d2' \in Seq(Made)
          /\ \A name, s :
                 /\ signal_demos!Waiting(name, s)'
                        => signal_demos!Waiting(name, s)
                 /\ signal_demos!Waiting(name, s) =>
                       \/ signal_demos!Waiting(name, s)'
                       \/ Head(d2) = <<name, s>>
          /\ Masking(d2) =>
                 /\ Masking(d2') /\ ~signal_demos!Waiting("block", "INT")'
                 /\ Head(d2) = Unblock =>
                       ~signal_demos!Waiting("unblock", "INT")'
                 /\ Head(d2) \in {Block, Unblock, <<"sleep", "">>}
                 /\ Head(d2) = Block => signal_demos!Waiting("unblock", "INT")
      BY <1>3, TailOfCalls, Zenon DEF SignalInv, SignalTypes
    <2>2. SignalTypes' BY <1>3, <2>1, Zenon DEF SignalInv, SignalTypes
    <2>3. SignalFlags' BY <1>3 DEF SignalInv, SignalFlags
    <2>4. SignalHandled'
      <3> SUFFICES ASSUME NEW s \in TwoSignals, d3'.disposition[s] = "default"
                   PROVE  \/ signal_demos!Waiting("catch", s)'
                          \/ signal_demos!Waiting("ignore", s)'
                          \/ d1.program = "sigaction_demo_v1" /\ s = "QUIT"
                          \/ d1.program = "procmask_demo"
                          \/ /\ d1.program = "sigaction_demo_v2"
                             /\ "reset" \in d1.words /\ s \in d6.caught
        BY <1>3 DEF SignalHandled
      <3>1. d3.disposition[s] = "default"
            /\ Head(d2) # <<"catch", s>> /\ Head(d2) # <<"ignore", s>>
        BY <1>3
      <3> QED BY <2>1, <3>1, Zenon DEF SignalInv, SignalHandled
    <2>5. SignalMask'
      <3> SUFFICES ASSUME d1.program = "procmask_demo"
                   PROVE  /\ Masking(d2')
                          /\ d3'.mask =
                                IF signal_demos!Waiting("unblock", "INT")'
                                THEN {"INT"} ELSE {}
        BY <1>3 DEF SignalMask
      <3>1. Masking(d2) BY DEF SignalInv, SignalMask
      <3>2. Block # Unblock /\ Block = <<"block", "INT">>
            /\ Unblock = <<"unblock", "INT">>
        BY DEF Block, Unblock
      <3>3. CASE Head(d2) = Block
        <4>1. signal_demos!Waiting("unblock", "INT")'
          BY <2>1, <3>1, <3>2, <3>3, Zenon
        <4> QED BY <1>3, <2>1, <3>1, <3>3, <4>1, Zenon
      <3>4. CASE Head(d2) = Unblock
        BY <1>3, <2>1, <3>1, <3>4, Zenon
      <3>5. CASE Head(d2) \notin {Block, Unblock}
        <4>1. signal_demos!Waiting("unblock", "INT")'
                  <=> signal_demos!Waiting("unblock", "INT")
          BY <2>1, <3>2, <3>5, Zenon
        <4>2. ~signal_demos!Waiting("block", "INT")
          BY <2>1, <3>1, <3>2, <3>5, Zenon
        <4>3. d3.mask = IF signal_demos!Waiting("unblock", "INT")
                        THEN {"INT"} ELSE {}
          BY <4>2 DEF SignalInv, SignalMask
        <4> QED BY <1>3, <2>1, <3>1, <3>5, <4>1, <4>3, Zenon
      <3> QED BY <3>3, <3>4, <3>5
    <2>6. signal_demos!SignalsFollowFlags'
      BY <1>1, <1>3, SignalRuns DEF SignalInv
    <2> QED BY <2>2, <2>3, <2>4, <2>5, <2>6 DEF SignalInv
  <1>4. ASSUME d2 # <<>> PROVE Head(d2) \in Made
    BY <1>4 DEF SignalInv, SignalTypes
  <1>5. d3 \in [disposition : [TwoSignals -> {"default", "catch", "ignore"}],
                mask : SUBSET TwoSignals, pending : SUBSET TwoSignals]
    BY DEF SignalInv, SignalTypes
  <1>6. CASE signal_demos!SetDisposition
    <2>1. /\ d2 # <<>> /\ Head(d2)[1] \in {"catch", "ignore"}
          /\ d3' = [d3 EXCEPT !.disposition[Head(d2)[2]] = Head(d2)[1]]
          /\ d2' = Tail(d2) /\ UNCHANGED <<d1, d4, d5, d6>>
      BY <1>6 DEF signal_demos!SetDisposition, signal_demos!Calls,
                  signal_demos!Return
    <2>2. PICK name \in {"catch", "ignore"}, s \in TwoSignals :
             Head(d2) = <<name, s>>
      BY <1>4, <2>1, MadeOf
    <2>3. d3' = [d3 EXCEPT !.disposition[s] = name] BY <2>1, <2>2
    <2>4. /\ d3' \in [disposition :
                          [TwoSignals -> {"default", "catch", "ignore"}],
                      mask : SUBSET TwoSignals, pending : SUBSET TwoSignals]
          /\ d3'.disposition[s] = name /\ d3'.mask = d3.mask
          /\ \A x \in TwoSignals \ {s} : d3'.disposition[x] = d3.disposition[x]
      BY <1>5, <2>3
    <2>5. \A x \in TwoSignals \ {s} :
             Head(d2) \notin {<<"catch", x>>, <<"ignore", x>>}
      BY <2>2
    <2>6. Head(d2) \notin {Block, Unblock}
      BY <2>2 DEF Block, Unblock
    <2>7. name # "default" OBVIOUS
    <2> QED BY <1>3, <2>1, <2>4, <2>5, <2>6, <2>7
  <1>7. CASE signal_demos!SetMask
    <2>1. /\ d2 # <<>> /\ Head(d2)[1] \in {"block", "unblock"}
          /\ d3' = [d3 EXCEPT !.mask = IF Head(d2)[1] = "block"
                                       THEN {Head(d2)[2]} ELSE {}]
          /\ d2' = Tail(d2) /\ UNCHANGED <<d1, d4, d5, d6>>
      BY <1>7 DEF signal_demos!SetMask, signal_demos!Calls,
                  signal_demos!Return
    <2>2. PICK name \in {"block", "unblock"}, s \in TwoSignals :
             Head(d2) = <<name, s>>
      BY <1>4, <2>1, MadeOf
    <2>3. d3' = [d3 EXCEPT !.mask = IF name = "block" THEN {s} ELSE {}]
      <3>1. Head(d2)[1] = name /\ Head(d2)[2] = s BY <2>2
      <3> QED BY <2>1, <3>1
    <2>4. /\ d3' \in [disposition :
                          [TwoSignals -> {"default", "catch", "ignore"}],
                      mask : SUBSET TwoSignals, pending : SUBSET TwoSignals]
          /\ d3'.disposition = d3.disposition
          /\ d3'.mask = IF name = "block" THEN {s} ELSE {}
      BY <1>5, <2>3
    <2>5. \A x \in TwoSignals :
             Head(d2) \notin {<<"catch", x>>, <<"ignore", x>>}
      BY <2>2
    <2>6. /\ Head(d2) = Block => name = "block" /\ s = "INT"
          /\ Head(d2) = Unblock => name = "unblock"
      BY <2>2 DEF Block, Unblock
    <2>7. d1.program = "procmask_demo" => Head(d2) \in {Block, Unblock}
      <3>1. d1.program = "procmask_demo" =>
               Head(d2) \in {Block, Unblock, <<"sleep", "">>}
        BY <2>1, TailOfCalls, Zenon DEF SignalInv, SignalTypes, SignalMask
      <3>2. Head(d2) # <<"sleep", "">>
        <4>1. <<"sleep", "">>[1] = "sleep" OBVIOUS
        <4>2. Head(d2)[1] # "sleep" BY <2>1
        <4> QED BY <4>1, <4>2, Zenon
      <3> QED BY <3>1, <3>2, Zenon
    <2> QED BY <1>3, <2>1, <2>4, <2>5, <2>6, <2>7
  <1>8. CASE signal_demos!Wait
    <2>1. /\ d2 # <<>> /\ Head(d2)[1] \in {"sleep", "read"}
          /\ d2' = Tail(d2) /\ UNCHANGED <<d1, d3, d4, d5, d6>>
      BY <1>8 DEF signal_demos!Wait, signal_demos!Calls, signal_demos!Return
    <2>2. /\ \A x \in TwoSignals :
                Head(d2) \notin {<<"catch", x>>, <<"ignore", x>>}
          /\ Head(d2) \notin {Block, Unblock}
      BY <2>1 DEF Block, Unblock
    <2> QED BY <1>3, <1>5, <2>1, <2>2
  <1> QED BY <1>2, <1>6, <1>7, <1>8 DEF signal_demos!main

\* Every step of the signal demonstrations keeps the invariant.
LEMMA SignalKept ==
    ASSUME SignalInv, [signal_demos!Next]_(signal_demos!signalVars)
    PROVE  SignalInv'
  <1>1. CASE UNCHANGED signal_demos!signalVars
    <2>1. UNCHANGED <<d1, d2, d3, d4, d5, d6>>
      BY <1>1 DEF signal_demos!signalVars
    <2>2. \A name, x : signal_demos!Waiting(name, x)'
                          <=> signal_demos!Waiting(name, x)
      BY <2>1 DEF signal_demos!Waiting
    <2>3. SignalTypes' BY <2>1 DEF SignalInv, SignalTypes
    <2>4. SignalFlags' BY <2>1 DEF SignalInv, SignalFlags
    <2>5. SignalHandled' BY <2>1, <2>2 DEF SignalInv, SignalHandled
    <2>6. SignalMask' BY <2>1, <2>2 DEF SignalInv, SignalMask
    <2>7. signal_demos!SignalsFollowFlags'
      BY <2>1, <2>2 DEF SignalInv, signal_demos!SignalsFollowFlags,
         signal_demos!Nested, signal_demos!KilledAsAsked,
         signal_demos!SecondLoopAlone, signal_demos!ToSet
    <2> QED BY <2>3, <2>4, <2>5, <2>6, <2>7 DEF SignalInv
  <1>2. ASSUME NEW s \in TwoSignals, signal_demos!Raise(s)
        PROVE  SignalInv'
    BY <1>2, SignalRaise
  <1>3. ASSUME NEW s \in TwoSignals, signal_demos!Deliver(s)
        PROVE  SignalInv'
    BY <1>3, SignalDeliver
  <1>4. CASE signal_demos!Leave BY <1>4, SignalLeave
  <1>5. CASE signal_demos!main BY <1>5, SignalMainStep
  <1> QED BY <1>1, <1>2, <1>3, <1>4, <1>5, SignalNames
          DEF signal_demos!Next

-----------------------------------------------------------------------------
(* One program runs *)

\* A step is one of the program that runs, or changes nothing of it.
ProgramSteps ==
    /\ program = "rabbits2" => [rabbits!Next]_(rabbits!vars)
    /\ program = "pipe_demo_3" => [pipe_demo!Next]_(pipe_demo!vars)
    /\ program = "upcase_2" => [upcase!Next]_(upcase!vars)
    /\ program = "rev_fifo" => [rev_fifo!Next]_(rev_fifo!revVars)
    /\ program = "select_demo" => [select_demo!Next]_(select_demo!selectVars)
    /\ program = "signal_demos" =>
          [signal_demos!Next]_(signal_demos!signalVars)
    /\ program = "wait_demos" => [wait_demos!Next]_(wait_demos!waitVars)
    /\ program = "pipe_size_test" => [pipe_size!Next]_(pipe_size!sizeVars)
    /\ program = "synch_demos" => [synch_demos!Next]_(synch_demos!synchVars)

\* When MCProcesses stutters, so do all programs.
LEMMA NothingHappens ==
    ASSUME UNCHANGED vars
    PROVE  program' = program /\ ProgramSteps
  <1>1. program' = program BY DEF vars
  <1>2. UNCHANGED rabbits!vars
    BY DEF vars, bigVars, rabbitVars, rabbits!vars, rabbits!kernel,
           rabbits!shared
  <1>3. UNCHANGED pipe_demo!vars
    BY DEF vars, bigVars, pipeVars, pipe_demo!vars, pipe_demo!ends,
           pipe_demo!signals, pipe_demo!child
  <1>4. UNCHANGED upcase!vars
    BY DEF vars, bigVars, serviceVars, upcaseVars, upcase!vars,
           upcase!fifos, upcase!serverVars, upcase!childVars,
           upcase!clientVars
  <1>5. UNCHANGED <<d1, d2, d3, d4, d5, d6, d7, d8>>
    BY DEF vars, demoVars, from4, from5, from6, from7, from8
  <1>6. /\ UNCHANGED rev_fifo!revVars
        /\ UNCHANGED select_demo!selectVars
        /\ UNCHANGED signal_demos!signalVars
        /\ UNCHANGED wait_demos!waitVars
        /\ UNCHANGED pipe_size!sizeVars
        /\ UNCHANGED synch_demos!synchVars
    BY <1>5 DEF rev_fifo!revVars, select_demo!selectVars,
                signal_demos!signalVars, wait_demos!waitVars,
                pipe_size!sizeVars, synch_demos!synchVars
  <1> QED BY <1>1, <1>2, <1>3, <1>4, <1>6 DEF ProgramSteps

\* The program that runs stays the one that runs.
LEMMA OneProgram ==
    ASSUME [Next]_vars
    PROVE  program' = program /\ ProgramSteps
  <1>1. CASE UNCHANGED vars BY <1>1, NothingHappens
  <1>2. ASSUME RabbitsStep(rabbits!Next)
        PROVE  program' = program /\ ProgramSteps
    BY <1>2 DEF RabbitsStep, ProgramSteps
  <1>3. ASSUME PipeStep(pipe_demo!Next)
        PROVE  program' = program /\ ProgramSteps
    BY <1>3 DEF PipeStep, ProgramSteps
  <1>4. ASSUME UpcaseStep(upcase!Next)
        PROVE  program' = program /\ ProgramSteps
    BY <1>4 DEF UpcaseStep, ProgramSteps
  <1>5. ASSUME SocketStep(sock!Next)
        PROVE  program' = program /\ ProgramSteps
    BY <1>5 DEF SocketStep, ProgramSteps
  <1>6. ASSUME RevFifoStep(rev_fifo!Next)
        PROVE  program' = program /\ ProgramSteps
    BY <1>6 DEF RevFifoStep, ProgramSteps
  <1>7. ASSUME PipelineStep(pipelines!Next)
        PROVE  program' = program /\ ProgramSteps
    BY <1>7 DEF PipelineStep, ProgramSteps
  <1>8. ASSUME SelectStep(select_demo!Next)
        PROVE  program' = program /\ ProgramSteps
    BY <1>8 DEF SelectStep, ProgramSteps
  <1>9. ASSUME CharStep(char!Next)
        PROVE  program' = program /\ ProgramSteps
    BY <1>9 DEF CharStep, ProgramSteps
  <1>10. ASSUME WaitStep(wait_demos!Next)
         PROVE  program' = program /\ ProgramSteps
    BY <1>10 DEF WaitStep, ProgramSteps
  <1>11. ASSUME SynchStep(synch_demos!Next)
         PROVE  program' = program /\ ProgramSteps
    BY <1>11 DEF SynchStep, ProgramSteps
  <1>12. ASSUME program \in {"fork_demos", "signal_demos", "pipe_size_test"},
                program' = program,
                program = "signal_demos" => signal_demos!Next,
                program = "pipe_size_test" => pipe_size!Next
         PROVE  program' = program /\ ProgramSteps
    BY <1>12 DEF ProgramSteps
  <1> QED
    BY <1>1, <1>2, <1>3, <1>4, <1>5, <1>6, <1>7, <1>8, <1>9, <1>10, <1>11,
       <1>12
       DEF Next

\* Each program is in its own invariant.
ProcessesInv ==
    /\ program = "rabbits2" => RabbitInv
    /\ program = "pipe_demo_3" => PipeInv
    /\ program = "upcase_2" => UpcaseInv
    /\ program = "rev_fifo" => FifoInv
    /\ program = "select_demo" => SelectInv
    /\ program = "signal_demos" => SignalInv
    /\ program = "wait_demos" => WaitInv
    /\ program = "pipe_size_test" => SizeInv
    /\ program = "synch_demos" => SynchInv

\* Each program starts in its invariant.
LEMMA ProcessesInit == Init => ProcessesInv
  <1> SUFFICES ASSUME Init PROVE ProcessesInv
    OBVIOUS
  <1>1. /\ program = "rabbits2" => rabbits!Init
        /\ program = "pipe_demo_3" => pipe_demo!Init
        /\ program = "upcase_2" => upcase!Init
        /\ program = "rev_fifo" => rev_fifo!Init
        /\ program = "select_demo" => select_demo!Init
        /\ program = "signal_demos" => signal_demos!Init
        /\ program = "wait_demos" => wait_demos!Init
        /\ program = "pipe_size_test" => pipe_size!Init
        /\ program = "synch_demos" => synch_demos!Init
    BY DEF Init, BigInit, DemoInit
  <1>2. /\ select_demo!SelectAssumption /\ signal_demos!SignalAssumption
        /\ pipe_size!PipeSizeAssumption
    BY AllSizes
  <1> QED
    BY <1>1, <1>2, RabbitInit, PipeInit, UpcaseInit, FifoInit, SelectInit,
       SignalInit, WaitInit, SizeInit, SynchInit
       DEF ProcessesInv

\* Every step keeps the invariant of the program that runs.
LEMMA ProcessesKept == ProcessesInv /\ [Next]_vars => ProcessesInv'
  <1> SUFFICES ASSUME ProcessesInv, [Next]_vars PROVE ProcessesInv'
    OBVIOUS
  <1>1. program' = program /\ ProgramSteps BY OneProgram
  <1>2. /\ select_demo!SelectAssumption /\ rev_fifo!RevFifoAssumption
        /\ wait_demos!WaitAssumption /\ pipe_size!PipeSizeAssumption
    BY AllSizes
  <1>3. program = "rabbits2" => RabbitInv'
    BY <1>1, RabbitKept DEF ProcessesInv, ProgramSteps
  <1>4. program = "pipe_demo_3" => PipeInv'
    BY <1>1, PipeKept DEF ProcessesInv, ProgramSteps
  <1>5. program = "upcase_2" => UpcaseInv'
    BY <1>1, UpcaseKept DEF ProcessesInv, ProgramSteps
  <1>6. program = "rev_fifo" => FifoInv'
    BY <1>1, <1>2, FifoKept DEF ProcessesInv, ProgramSteps
  <1>7. program = "select_demo" => SelectInv'
    BY <1>1, <1>2, SelectKept DEF ProcessesInv, ProgramSteps
  <1>8. program = "signal_demos" => SignalInv'
    BY <1>1, SignalKept DEF ProcessesInv, ProgramSteps
  <1>9. program = "wait_demos" => WaitInv'
    BY <1>1, <1>2, WaitKept DEF ProcessesInv, ProgramSteps
  <1>10. program = "pipe_size_test" => SizeInv'
    BY <1>1, <1>2, SizeKept DEF ProcessesInv, ProgramSteps
  <1>11. program = "synch_demos" => SynchInv'
    BY <1>1, SynchKept DEF ProcessesInv, ProgramSteps
  <1> QED
    BY <1>1, <1>3, <1>4, <1>5, <1>6, <1>7, <1>8, <1>9, <1>10, <1>11
       DEF ProcessesInv

-----------------------------------------------------------------------------
(* Theorems *)

\* Whichever program runs is always in its invariant.
THEOREM ProcessesInvariance == Spec => []ProcessesInv
  BY ProcessesInit, ProcessesKept, PTL DEF Spec

\* However deaths, stops, signals and main interleave, the handler of rabbits2
\* waits in vain at most once for each time a child was stopped or continued,
\* and never if none was (rabbits2.c:5); and what main prints is the status of
\* the child whose pid it prints, unless the handler interrupts itself.
THEOREM WaitsAccounted == Spec => []HandlersAreSafe
  <1>1. ProcessesInv => HandlersAreSafe
    BY RabbitSafe DEF ProcessesInv, HandlersAreSafe
  <1> QED BY <1>1, ProcessesInvariance, PTL

\* What the children of pipe_demo_3 have written into the pipe are whole lines,
\* one after the other (pipe_demo_3.c:3), however their writes, the room in the
\* pipe and the reads of the parent fall, for all sizes of
\* the pipe, of a line and of a read.
THEOREM LinesComeOutWhole == Spec => []LinesAreWhole
  <1>1. ProcessesInv => LinesAreWhole
    BY PipeSafe DEF ProcessesInv, LinesAreWhole
  <1> QED BY <1>1, ProcessesInvariance, PTL

\* A child of pipe_demo_3 writes nothing before its signal, and the child of
\* synch_demo_1 computes only after the notice of its parent
\* (synch_demo_1.c:34-41).
THEOREM ChildrenWaitForSignals == Spec => []ActsAfterSignal
  <1>1. ProcessesInv => ActsAfterSignal
    BY PipeSafe, SynchSafe DEF ProcessesInv, ActsAfterSignal
  <1> QED BY <1>1, ProcessesInvariance, PTL

\* While a server of upcase_2 reads, the public name is that of the FIFO it
\* reads, whatever its children are told (upcase_server_2.c:218).
THEOREM ServerIsFound == Spec => []NameKept
  <1>1. ProcessesInv => NameKept
    BY DEF ProcessesInv, UpcaseInv, NameKept
  <1> QED BY <1>1, ProcessesInvariance, PTL

\* A child of select_demo is killed by SIGPIPE only after the parent has closed
\* its descriptors and every later child, which could read its pipe, has ended:
\* the last child goes first (select_demo.c:66-87).
THEOREM PipesStayOpen == Spec => []KilledLastFirst
  <1>1. ProcessesInv => KilledLastFirst
    BY DEF ProcessesInv, SelectInv, KilledLastFirst
  <1> QED BY <1>1, ProcessesInvariance, PTL

\* Signals at any time end the program, run its handler or do nothing as the
\* flags that are set, the masks and the calls of each demonstration ask
\* (procmask_demo.c, sigaction_demo_v2.c:55-78).
THEOREM SignalsDoAsFlagged == Spec => []SignalsFollowFlags
  <1>1. ProcessesInv => SignalsFollowFlags
    BY DEF ProcessesInv, SignalInv, SignalsFollowFlags
  <1> QED BY <1>1, ProcessesInvariance, PTL

\* What waitid_demo and its like print of a child happened to it, in that order
\* (waitid_demo.c:36-62), and pipe_size_test never counts more bytes than fit
\* and, if its alarms were not early, finds the capacity and that a page has to
\* be empty before there is room again (pipe_size_test.c:51-112).
THEOREM WhatIsSaidIsTrue == Spec => []ReportsAreTrue
  <1>1. ProcessesInv => ReportsAreTrue
    BY WaitSafe, SizeSafe DEF ProcessesInv, ReportsAreTrue
  <1> QED BY <1>1, ProcessesInvariance, PTL

\* The program that runs is rev_fifo.
RevFifoRuns == program = "rev_fifo"

\* Each behaviour of rev_fifo is one of a stream: the messages are printed in
\* the order they were sent in, none is lost, none comes twice, until the
\* server is interrupted.
THEOREM FifoIsAStream == Spec /\ RevFifoRuns => rev_fifo!ImplementsStream
  <1>1. Init /\ RevFifoRuns => rev_fifo!fifoStream!Init
    <2>1. Init /\ RevFifoRuns => rev_fifo!Init
      BY DEF Init, BigInit, DemoInit, RevFifoRuns
    <2> QED BY <2>1, FifoStreamInit
  <1>2. ProcessesInv /\ RevFifoRuns /\ [Next]_vars
           => /\ RevFifoRuns'
              /\ [rev_fifo!fifoStream!Next]_(rev_fifo!fifoStream!streamVars)
    <2> SUFFICES ASSUME ProcessesInv, RevFifoRuns, [Next]_vars
                 PROVE  /\ RevFifoRuns'
                        /\ [rev_fifo!fifoStream!Next]_(
                               rev_fifo!fifoStream!streamVars)
      OBVIOUS
    <2>1. program' = program /\ [rev_fifo!Next]_(rev_fifo!revVars)
      BY OneProgram DEF ProgramSteps, RevFifoRuns
    <2>2. FifoInv /\ rev_fifo!RevFifoAssumption
      BY AllSizes DEF ProcessesInv, RevFifoRuns
    <2> QED BY <2>1, <2>2, FifoStreamNext DEF RevFifoRuns
  <1> QED
    BY <1>1, <1>2, ProcessesInvariance, PTL
       DEF Spec, rev_fifo!ImplementsStream, rev_fifo!fifoStream!Spec
=============================================================================
