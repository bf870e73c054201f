---------------------------- MODULE ToolsProofs ----------------------------
(***************************************************************************)
(* What the run of MCTools checks on small instances, for all sizes: of    *)
(* the copies of Unix commands, and, by SimpleViProofs, of simplevi.  One  *)
(* program runs, so the invariant is one for each program, and OneProgram  *)
(* says that a step of MCTools is one of the program that runs.  The       *)
(* theorems are at the end.                                                *)
(***************************************************************************)
EXTENDS SimpleViProofs, SequenceTheorems, TLAPS

-----------------------------------------------------------------------------
(* more_copy and non_block_demo *)

\* What can be read from the terminal: a key, or the end of its line.
TtyKeys == more_copy!Keys \union {more_copy!Newline}

\* The user has not quit.
MoreAsks == ~quit

\* The lines shown since the last key and those that may still be shown are the
\* lines that were asked for, until the user quits.  AsksForEachPage speaks of
\* the lines shown only, which is not inductive.
MoreInv ==
    /\ num_of_lines \in Int /\ since_prompt \in Nat
    /\ keyboard \in Seq(Seq(TtyKeys)) /\ file_ptr_tty \in Seq(TtyKeys)
    /\ MoreAsks => /\ num_of_lines >= 0
                   /\ since_prompt + num_of_lines = granted
                   /\ more = "show" => num_of_lines > 0
                   /\ more = "ask" => num_of_lines = 0

\* more starts in its invariant.
LEMMA MoreInit == more_copy!MoreAssumption /\ more_copy!Init => MoreInv
  BY DEF more_copy!MoreAssumption, more_copy!Init, MoreInv

\* Every step of more keeps it, whatever is typed and however it is buffered.
LEMMA MoreKept ==
    ASSUME more_copy!MoreAssumption, MoreInv,
           [more_copy!Next]_(more_copy!moreVars)
    PROVE  MoreInv'
  <1> USE DEF MoreInv
  <1>0. cols \in Nat /\ cols > 0 BY DEF more_copy!MoreAssumption
  <1>a. ASSUME quit' = quit, MoreAsks' PROVE MoreAsks BY <1>a DEF MoreAsks
  <1>1. CASE UNCHANGED more_copy!moreVars
    BY <1>1, <1>a DEF more_copy!moreVars
  <1>2. CASE more_copy!OpenFile
    BY <1>0, <1>2 DEF more_copy!OpenFile
  <1>3. CASE more_copy!ReadLine
    BY <1>0, <1>3, <1>a DEF more_copy!ReadLine
  <1>4. CASE more_copy!ShowLine
    BY <1>4, <1>a DEF more_copy!ShowLine
  <1>5. CASE more_copy!Reply
    <2> DEFINE c == Head(file_ptr_tty)
    <2>1. /\ more = "ask"
          /\ since_prompt' = IF c \in {" ", more_copy!Newline}
                             THEN 0 ELSE since_prompt
          /\ granted' = CASE c = " " -> cols
                           [] c = more_copy!Newline -> 1
                           [] OTHER -> granted
          /\ keyboard' = keyboard
          /\ file_ptr_tty # <<>> /\ file_ptr_tty' = Tail(file_ptr_tty)
          /\ num_of_lines' = CASE c = " " -> cols
                                [] c = more_copy!Newline -> num_of_lines + 1
                                [] OTHER -> num_of_lines
          /\ quit' = (quit \/ c = "q")
          /\ more' = IF c = "other" THEN "ask" ELSE "show"
      BY <1>5, Zenon DEF more_copy!Reply
    <2>2. c \in TtyKeys /\ file_ptr_tty' \in Seq(TtyKeys)
      <3>1. file_ptr_tty # <<>> /\ file_ptr_tty' = Tail(file_ptr_tty)
        BY <2>1, Zenon
      <3> QED BY <3>1
    <2> HIDE DEF c
    <2>3. MoreAsks' => MoreAsks /\ c # "q" BY <2>1, Zenon DEF MoreAsks
    <2>4. \/ /\ c # "other" /\ num_of_lines' = cols
             /\ granted' = cols /\ since_prompt' = 0
          \/ /\ c # "other" /\ num_of_lines' = num_of_lines + 1
             /\ granted' = 1 /\ since_prompt' = 0
          \/ /\ c = "q" \/ c = "other"
             /\ num_of_lines' = num_of_lines
             /\ granted' = granted /\ since_prompt' = since_prompt
      <3>1. c \in {"q", " ", "other", more_copy!Newline}
        BY <2>2, Zenon DEF TtyKeys, more_copy!Keys
      <3>2. CASE c = " " BY <2>1, <3>2, Zenon DEF more_copy!Newline
      <3>3. CASE c = more_copy!Newline
        BY <2>1, <3>3, Zenon DEF more_copy!Newline
      <3>4. CASE c = "q" \/ c = "other"
        BY <2>1, <3>4, Zenon DEF more_copy!Newline
      <3> QED BY <3>1, <3>2, <3>3, <3>4, Zenon
    <2>5. /\ more = "ask" /\ keyboard' = keyboard
          /\ more' = IF c = "other" THEN "ask" ELSE "show"
      BY <2>1, Zenon
    <2>6. num_of_lines \in Int /\ since_prompt \in Nat OBVIOUS
    <2>7. ASSUME MoreAsks'
          PROVE  /\ num_of_lines' >= 0
                 /\ since_prompt' + num_of_lines' = granted'
                 /\ more' = "show" => num_of_lines' > 0
                 /\ more' = "ask" => num_of_lines' = 0
      <3>1. /\ num_of_lines = 0 /\ since_prompt + num_of_lines = granted
            /\ c # "q"
        BY <2>3, <2>5, <2>7
      <3> QED BY ONLY <1>0, <2>4, <2>5, <2>6, <3>1
    <2>8. /\ num_of_lines' \in Int /\ since_prompt' \in Nat
          /\ keyboard' \in Seq(Seq(TtyKeys))
          /\ file_ptr_tty' \in Seq(TtyKeys)
      <3>1. num_of_lines' \in Int /\ since_prompt' \in Nat
        BY ONLY <1>0, <2>4, <2>6
      <3>2. keyboard' \in Seq(Seq(TtyKeys)) BY <2>5
      <3> QED BY ONLY <3>1, <3>2, <2>2, <2>5, <2>6
    <2> QED BY ONLY <2>7, <2>8 DEF MoreInv
  <1>6. CASE more_copy!EndOfInput
    <2>1. ~MoreAsks' BY <1>6, Zenon DEF MoreAsks, more_copy!EndOfInput
    <2> QED BY <1>6, <2>1 DEF more_copy!EndOfInput
  <1>7. CASE more_copy!SkipFile \/ more_copy!EndOfFile
    BY <1>7, <1>a DEF more_copy!SkipFile, more_copy!EndOfFile
  <1>8. CASE more_copy!FillStream
    <2>1. /\ keyboard # <<>>
          /\ file_ptr_tty' = Head(keyboard) /\ keyboard' = Tail(keyboard)
      BY <1>8 DEF more_copy!FillStream
    <2>2. keyboard' \in Seq(Seq(TtyKeys)) /\ file_ptr_tty' \in Seq(TtyKeys)
      <3> DEFINE S == Seq(TtyKeys)
      <3>1. keyboard \in Seq(S) OBVIOUS
      <3> HIDE DEF S
      <3>2. keyboard' \in Seq(S) /\ file_ptr_tty' \in S BY ONLY <2>1, <3>1
      <3> QED BY <3>2 DEF S
    <2> QED BY <1>8, <1>a, <2>2 DEF more_copy!FillStream
  <1>9. CASE more_copy!TypeReply
    <2>1. PICK reply \in {<<more_copy!Newline>>} \union
                         {<<key, more_copy!Newline>> : key \in more_copy!Keys} :
             keyboard' = Append(keyboard, reply)
      BY <1>9 DEF more_copy!TypeReply
    <2>2. reply \in Seq(TtyKeys)
      <3>1. CASE reply = <<more_copy!Newline>> BY <3>1 DEF TtyKeys
      <3>2. ASSUME NEW key \in more_copy!Keys,
                   reply = <<key, more_copy!Newline>>
            PROVE  reply \in Seq(TtyKeys)
        BY <3>2 DEF TtyKeys
      <3> QED BY <3>1, <3>2
    <2>3. keyboard' \in Seq(Seq(TtyKeys)) BY <2>1, <2>2
    <2> QED BY <2>3, <1>9, <1>a DEF more_copy!TypeReply
  <1>10. CASE more_copy!HangUp
    BY <1>10, <1>a DEF more_copy!HangUp
  <1> QED BY <1>1, <1>2, <1>3, <1>4, <1>5, <1>6, <1>7, <1>8, <1>9, <1>10
          DEF more_copy!Next

\* It says when more asks.
LEMMA MoreSafe == MoreInv => more_copy!AsksForEachPage
  <1> SUFFICES ASSUME MoreInv, MoreAsks
               PROVE  /\ since_prompt <= granted
                      /\ more = "ask" => since_prompt = granted
    BY DEF more_copy!AsksForEachPage, MoreAsks
  <1> QED BY DEF MoreInv

\* What the property says, and that no dots are lost once they were drawn.
ScreenInv ==
    /\ non_block!ScreenIsKept
    /\ count \in Nat /\ screen \in Nat
    /\ screen <= count /\ count <= non_block!Full

\* non_block_demo starts in its invariant.
LEMMA ScreenInit == non_block!ScreenAssumption /\ non_block!Init => ScreenInv
  <1> SUFFICES ASSUME non_block!ScreenAssumption, non_block!Init
               PROVE  ScreenInv
    OBVIOUS
  <1>1. cols * (rows - 1) >= 0
    <2>1. cols \in Nat /\ rows - 1 \in Nat BY DEF non_block!ScreenAssumption
    <2> DEFINE r == rows - 1
    <2> HIDE DEF r
    <2>2. cols * r >= 0 BY <2>1 DEF r
    <2> QED BY <2>2 DEF r
  <1> QED BY <1>1 DEF non_block!Init, ScreenInv, non_block!ScreenIsKept,
                      non_block!Full

\* Every step of non_block_demo keeps it.
LEMMA ScreenKept ==
    ASSUME non_block!ScreenAssumption, ScreenInv,
           [non_block!Next]_(non_block!nonBlockVars)
    PROVE  ScreenInv'
  <1> USE DEF ScreenInv, non_block!ScreenIsKept
  <1>0. cols \in Nat /\ rows \in Nat BY DEF non_block!ScreenAssumption
  <1>1. CASE UNCHANGED non_block!nonBlockVars
    BY <1>1 DEF non_block!nonBlockVars, non_block!Full
  <1>2. CASE non_block!Prepare
    BY <1>2 DEF non_block!Prepare, non_block!Full
  <1>3. CASE non_block!Draw
    <2>1. non_block!Full \in Int BY <1>0 DEF non_block!Full
    <2>2. /\ step = "draw" /\ step' = "read"
          /\ \/ count' = count /\ screen' = screen
             \/ /\ ~(count + 1 > non_block!Full)
                /\ count' = count + 1 /\ screen' \in {screen, screen + 1}
      BY <1>3 DEF non_block!Draw
    <2>3. non_block!Full' = non_block!Full BY DEF non_block!Full
    <2> QED BY <2>1, <2>2, <2>3
  <1>4. CASE non_block!Read
    BY <1>4 DEF non_block!Read, non_block!Full
  <1>5. CASE non_block!CleanUp
    BY <1>5 DEF non_block!CleanUp, non_block!Full
  <1>6. CASE non_block!TypeKey
    BY <1>6 DEF non_block!TypeKey, non_block!Full
  <1> QED BY <1>1, <1>2, <1>3, <1>4, <1>5, <1>6 DEF non_block!Next

-----------------------------------------------------------------------------
(* du_copy_v1 *)

\* No two nodes of one level have followed each other.
NeverTwice == ~level_twice

\* The levels of the walk, with the model's total and the real one side by side.
Above(level) == total_size[level] = 0 /\ used[level] = 0
\* What is counted at each level is at most what is used there, and below the
\* node that was seen last nothing is left to add.
DuInv ==
    /\ total_size \in [du_copy!Levels -> Nat]
    /\ used \in [du_copy!Levels -> Nat]
    /\ prev_level \in -1 .. MAXDEPTH - 1
    /\ cur_size \in Nat /\ cur_used \in Nat
    /\ du \in {"between", "begin"} => prev_level <= 0
    /\ du = "begin" => \A level \in du_copy!Levels : Above(level)
    /\ du = "walk" => \A level \in du_copy!Levels :
                         level > prev_level => Above(level)
    /\ du \in {"begin", "walk"} =>
          \A level \in du_copy!Levels :
             /\ total_size[level] <= used[level]
             /\ NeverTwice => total_size[level] = used[level]
    /\ cur_size <= cur_used
    /\ NeverTwice => cur_size = cur_used

\* A total that is printed is at most what the tree uses.
LEMMA DuSafe == DuInv => du_copy!UsageNeverOver
  <1>1. DuInv => cur_size <= cur_used /\ (NeverTwice => cur_size = cur_used)
    BY DEF DuInv
  <1> QED BY <1>1, Zenon DEF NeverTwice, du_copy!UsageNeverOver

\* du starts in its invariant.
LEMMA DuInit == du_copy!DuAssumption /\ du_copy!Init => DuInv
  <1> SUFFICES ASSUME du_copy!DuAssumption, du_copy!Init PROVE DuInv
    OBVIOUS
  <1>1. /\ total_size = du_copy!Zero /\ prev_level = -1 /\ cur_size = 0
        /\ du = "between" /\ used = du_copy!Zero /\ cur_used = 0
    BY DEF du_copy!Init
  <1> QED BY <1>1 DEF du_copy!DuAssumption, DuInv, du_copy!Zero, Above

\* A node is counted in the level of its directory.
LEMMA Counted ==
    ASSUME du_copy!DuAssumption, DuInv,
           NEW level \in du_copy!Levels, NEW size \in FileSizes,
           du_copy!file_usage(level, size)
    PROVE  DuInv'
  <1> DEFINE above == level + 1
             all == size + used[above]
  <1>0. /\ MAXDEPTH \in Nat \ {0} /\ size \in Nat
        /\ du_copy!Levels = 0 .. MAXDEPTH
        /\ level \in 0 .. MAXDEPTH - 1 /\ above \in du_copy!Levels
    BY DEF du_copy!DuAssumption, du_copy!Levels, du_copy!file_usage
  <1>1. /\ du \in {"begin", "walk"}
        /\ du = "walk" => level >= prev_level - 1
        /\ prev_level' = level
        /\ du' = IF level = 0 THEN "between" ELSE "walk"
    BY DEF du_copy!file_usage, du_copy!Follows
  <1>a. /\ cur_used' = all
        /\ used' = [l \in du_copy!Levels |->
                       CASE l = level -> used[l] + all
                         [] l = above -> 0
                         [] OTHER -> used[l]]
    BY <1>0 DEF du_copy!file_usage, du_copy!Account
  <1>b. NeverTwice' => NeverTwice /\ prev_level # level
    BY Zenon DEF du_copy!file_usage, du_copy!Account, NeverTwice
  <1>2. /\ total_size \in [du_copy!Levels -> Nat]
        /\ used \in [du_copy!Levels -> Nat]
        /\ all \in Nat
        /\ prev_level \in -1 .. MAXDEPTH - 1
    <2>1. /\ total_size \in [du_copy!Levels -> Nat]
          /\ used \in [du_copy!Levels -> Nat]
          /\ prev_level \in -1 .. MAXDEPTH - 1
      BY DEF DuInv
    <2>2. used[above] \in Nat BY ONLY <1>0, <2>1
    <2>3. all \in Nat
      <3> DEFINE rest == used[above]
      <3> HIDE DEF rest
      <3>1. size \in Nat BY <1>0
      <3>2. rest \in Nat BY <2>2 DEF rest
      <3>3. size + rest \in Nat BY ONLY <3>1, <3>2
      <3> QED BY <3>3 DEF rest
    <2> QED BY <2>1, <2>3, Zenon
  <1>3. \A l \in du_copy!Levels :
           /\ total_size[l] \in Nat /\ used[l] \in Nat
           /\ total_size[l] <= used[l]
           /\ NeverTwice => total_size[l] = used[l]
           /\ du = "begin" \/ l > prev_level => total_size[l] = 0 /\ used[l] = 0
    BY <1>1 DEF DuInv, Above
  <1>4. du = "begin" => prev_level <= 0
    BY DEF DuInv
  <1> HIDE DEF DuInv
  <1>6. /\ used' \in [du_copy!Levels -> Nat]
        /\ used'[level] = used[level] + all
        /\ used'[above] = 0
        /\ \A l \in du_copy!Levels \ {level, above} : used'[l] = used[l]
    <2> HIDE DEF all
    <2>1. level # above /\ level \in du_copy!Levels BY <1>0
    <2> HIDE DEF above
    <2>2. used'[level] = used[level] + all
      BY <1>a, <2>1, Zenon
    <2>3. used'[above] = 0
      BY <1>0, <1>a, <2>1, Zenon
    <2>4. ASSUME NEW l \in du_copy!Levels, l # level, l # above
          PROVE  used'[l] = used[l]
      <3>1. used'[l] = CASE l = level -> used[l] + all
                         [] l = above -> 0
                         [] OTHER -> used[l]
        BY <1>a, Zenon
      <3> QED BY <2>4, <3>1, Zenon
    <2>5. \A l \in du_copy!Levels : used'[l] \in Nat
      BY <1>2, <2>1, <2>2, <2>3, <2>4
    <2>6. used' \in [du_copy!Levels -> Nat]
      <3> DEFINE Cell(l) == CASE l = level -> used[l] + all
                             [] l = above -> 0
                             [] OTHER -> used[l]
      <3>1. used' = [l \in du_copy!Levels |-> Cell(l)] BY <1>a, Zenon
      <3> HIDE DEF Cell
      <3> QED BY ONLY <2>5, <3>1
    <2> QED BY <2>2, <2>3, <2>4, <2>6
  <1>5. /\ cur_size' \in Nat /\ cur_size' <= all
        /\ NeverTwice' => cur_size' = all
        /\ total_size' \in [du_copy!Levels -> Nat]
        /\ total_size'[level] <= used[level] + all
        /\ NeverTwice' => total_size'[level] = used[level] + all
        /\ total_size'[above] = 0
        /\ \A l \in du_copy!Levels \ {level, above} :
              total_size'[l] = total_size[l]
    <2>1. CASE /\ prev_level = level /\ cur_size' = size
               /\ total_size' = total_size
      BY <1>0, <1>1, <1>2, <1>3, <1>b, <2>1
    <2>2. CASE prev_level > level /\ du_copy!AddUp(level, size)
      <3>1. prev_level = above
        BY <1>0, <1>1, <1>2, <1>4, <2>2
      <3>2. /\ cur_size' = total_size[above] + size
            /\ total_size' = [total_size EXCEPT ![level] = @ + cur_size',
                                                ![above] = 0]
        BY <2>2, <3>1 DEF du_copy!AddUp
      <3>3. /\ cur_size' \in Nat /\ cur_size' <= all
            /\ NeverTwice' => cur_size' = all
        BY <1>0, <1>2, <1>3, <1>b, <3>2
      <3>4. /\ total_size' \in [du_copy!Levels -> Nat]
            /\ total_size'[level] = total_size[level] + cur_size'
            /\ total_size'[above] = 0
            /\ \A l \in du_copy!Levels \ {level, above} :
                  total_size'[l] = total_size[l]
        <4>1. level # above BY <1>0
        <4> DEFINE n == total_size[level] + cur_size'
        <4>2. n \in Nat BY <1>0, <1>2, <3>3
        <4>3. total_size' = [total_size EXCEPT ![level] = n, ![above] = 0]
          BY <3>2
        <4> HIDE DEF above, n
        <4>4. total_size' \in [du_copy!Levels -> Nat]
          BY ONLY <1>0, <1>2, <4>1, <4>2, <4>3
        <4>5. total_size'[level] = n /\ total_size'[above] = 0
          BY ONLY <1>0, <1>2, <4>1, <4>2, <4>3
        <4>6. \A l \in du_copy!Levels \ {level, above} :
                  total_size'[l] = total_size[l]
          BY ONLY <1>0, <1>2, <4>1, <4>2, <4>3
        <4> QED BY <4>4, <4>5, <4>6 DEF n
      <3>5. /\ total_size[level] <= used[level]
            /\ NeverTwice => total_size[level] = used[level]
        BY <1>0, <1>3
      <3>6. /\ total_size'[level] <= used[level] + all
            /\ NeverTwice' => total_size'[level] = used[level] + all
        <4>1. total_size[level] \in Nat /\ used[level] \in Nat
          BY <1>0, <1>2
        <4> HIDE DEF all
        <4> QED BY <1>2, <1>b, <3>3, <3>4, <3>5, <4>1
      <3> QED BY <3>3, <3>4, <3>6
    <2>3. CASE /\ prev_level < level /\ cur_size' = size
               /\ total_size' = [total_size EXCEPT ![level] = size]
      BY <1>0, <1>1, <1>2, <1>3, <1>b, <2>3
    <2> QED BY <2>1, <2>2, <2>3 DEF du_copy!file_usage, du_copy!Size
  <1>7. \A l \in du_copy!Levels :
           /\ total_size'[l] <= used'[l]
           /\ NeverTwice' => total_size'[l] = used'[l]
           /\ l > level => total_size'[l] = 0 /\ used'[l] = 0
    <2> TAKE l \in du_copy!Levels
    <2>1. CASE l = level BY <1>0, <1>5, <1>6, <2>1
    <2>2. CASE l = above BY <1>0, <1>5, <1>6, <2>2
    <2>3. CASE l \notin {level, above}
      <3>1. total_size'[l] = total_size[l] /\ used'[l] = used[l]
        BY <1>5, <1>6, <2>3
      <3>2. l > level => du = "begin" \/ l > prev_level
        BY <1>0, <1>1, <1>2, <2>3
      <3> QED BY <1>1, <1>3, <1>b, <3>1, <3>2
    <2> QED BY <2>1, <2>2, <2>3
  <1> HIDE DEF all
  <1>8. /\ cur_used' \in Nat /\ cur_size' <= cur_used'
        /\ NeverTwice' => cur_size' = cur_used'
    BY <1>2, <1>a, <1>5
  <1>9. /\ prev_level' \in -1 .. MAXDEPTH - 1 /\ du' # "begin"
        /\ du' = "between" => prev_level' <= 0
    BY <1>0, <1>1
  <1> QED BY <1>1, <1>5, <1>6, <1>7, <1>8, <1>9 DEF DuInv, Above

\* Every step of du keeps it, in whatever order the nodes of the trees come.
LEMMA DuKept ==
    ASSUME du_copy!DuAssumption, DuInv, [du_copy!Next]_(du_copy!duVars)
    PROVE  DuInv'
  <1>1. CASE UNCHANGED du_copy!duVars
    <2>1. NeverTwice' => NeverTwice BY <1>1 DEF du_copy!duVars, NeverTwice
    <2> QED BY <1>1, <2>1 DEF DuInv, du_copy!duVars, Above
  <1>2. CASE du_copy!BeginTree
    <2>1. /\ total_size' = du_copy!Zero /\ used' = du_copy!Zero
          /\ cur_used' = 0 /\ cur_size' = 0
          /\ du = "between" /\ du' = "begin" /\ prev_level' = prev_level
      BY <1>2 DEF du_copy!BeginTree
    <2> QED BY <2>1 DEF DuInv, du_copy!Zero, Above
  <1>3. CASE \E level \in du_copy!Levels, size \in FileSizes :
                du_copy!file_usage(level, size)
    BY <1>3, Counted
  <1>4. CASE du_copy!TooDeep \/ du_copy!Exit
    <2>1. /\ total_size' = total_size /\ used' = used
          /\ cur_used' = cur_used /\ cur_size' = cur_size
          /\ du' = "exited" /\ prev_level' = prev_level
          /\ NeverTwice' => NeverTwice
      BY <1>4 DEF du_copy!TooDeep, du_copy!Exit, NeverTwice
    <2> QED BY <2>1 DEF DuInv
  <1> QED BY <1>1, <1>2, <1>3, <1>4 DEF du_copy!Next

-----------------------------------------------------------------------------
(* cp_copy_v1 to cp_copy_v3 *)

\* The destination holds the first bytes of the source, all that the source
\* held when copying began included.
CopiedAll == \E n \in file_size .. source : target = cp_copy!Bytes(1, n)

\* Where cp is tells how much of the source the destination and the buffer hold.
CpInv ==
    /\ version \in 1 .. 3 /\ source \in Nat
    /\ file_offset \in 0 .. source /\ file_size \in 0 .. source
    /\ next \in {"open", "creat"} => file_offset = 0 /\ target = <<>>
    /\ next \in {"read", "write"} => version < 3
    /\ next = "read" => target = cp_copy!Bytes(1, file_offset)
    /\ next = "write" =>
          \E n \in 1 .. file_offset :
             /\ buf = cp_copy!Bytes(file_offset - n + 1, file_offset)
             /\ target = cp_copy!Bytes(1, file_offset - n)
    /\ next = "close" => CopiedAll
    /\ status = "success" => next = "over" /\ CopiedAll

\* Consecutive bytes of the source are their numbers.
LEMMA BytesLemma ==
    ASSUME NEW m \in Nat, NEW n \in Nat
    PROVE  /\ cp_copy!Bytes(m + 1, m + n) \in Seq(Nat)
           /\ Len(cp_copy!Bytes(m + 1, m + n)) = n
           /\ \A k \in 1 .. n : cp_copy!Bytes(m + 1, m + n)[k] = m + k
  <1>1. cp_copy!Bytes(m + 1, m + n) = [k \in 1 .. n |-> m + k]
    <2>1. m + n + 1 - (m + 1) = n /\ \A k \in 1 .. n : m + 1 + k - 1 = m + k
      OBVIOUS
    <2> QED BY <2>1 DEF cp_copy!Bytes
  <1> DEFINE s == [k \in 1 .. n |-> m + k]
  <1>2. \A k \in 1 .. n : m + k \in Nat OBVIOUS
  <1>3. s \in Seq(Nat) BY <1>2
  <1>4. Len(s) = n BY <1>3
  <1> QED BY <1>1, <1>3, <1>4

\* So are the first ones.
LEMMA FirstBytes ==
    ASSUME NEW n \in Nat
    PROVE  /\ cp_copy!Bytes(1, n) \in Seq(Nat) /\ Len(cp_copy!Bytes(1, n)) = n
           /\ \A k \in 1 .. n : cp_copy!Bytes(1, n)[k] = k
  <1>1. 0 + 1 = 1 /\ 0 + n = n /\ \A k \in 1 .. n : 0 + k = k OBVIOUS
  <1>2. cp_copy!Bytes(0 + 1, 0 + n) = cp_copy!Bytes(1, n) BY <1>1
  <1> DEFINE b == cp_copy!Bytes(0 + 1, 0 + n)
  <1>3. b \in Seq(Nat) /\ Len(b) = n /\ \A k \in 1 .. n : b[k] = 0 + k
    BY ONLY BytesLemma
  <1> HIDE DEF b
  <1>4. b \in Seq(Nat) /\ Len(b) = n /\ \A k \in 1 .. n : b[k] = k
    BY ONLY <1>1, <1>3
  <1> QED BY <1>2, <1>4 DEF b

\* Writing the next bytes after the first ones gives more first ones.
LEMMA BytesJoin ==
    ASSUME NEW m \in Nat, NEW n \in Nat
    PROVE  cp_copy!Bytes(1, m) \o SubSeq(cp_copy!Bytes(m + 1, m + n), 1, n)
              = cp_copy!Bytes(1, m + n)
  <1> DEFINE a == cp_copy!Bytes(1, m)
             b == cp_copy!Bytes(m + 1, m + n)
             c == cp_copy!Bytes(1, m + n)
  <1>1. /\ a \in Seq(Nat) /\ Len(a) = m /\ \A k \in 1 .. m : a[k] = k
        /\ c \in Seq(Nat) /\ Len(c) = m + n /\ \A k \in 1 .. m + n : c[k] = k
    BY FirstBytes
  <1>2. b \in Seq(Nat) /\ Len(b) = n /\ \A k \in 1 .. n : b[k] = m + k
    BY BytesLemma
  <1> HIDE DEF a, b, c
  <1>3. SubSeq(b, 1, n) = b BY <1>2
  <1>4. a \o b = c
    <2>1. a \o b \in Seq(Nat) /\ Len(a \o b) = m + n BY <1>1, <1>2
    <2>2. \A k \in 1 .. m + n : (a \o b)[k] = c[k] BY <1>1, <1>2
    <2> DEFINE s == a \o b
    <2> HIDE DEF s
    <2>3. /\ s \in Seq(Nat) /\ Len(s) = Len(c)
          /\ \A k \in 1 .. Len(s) : s[k] = c[k]
      BY <1>1, <2>1, <2>2 DEF s
    <2>4. s = c BY ONLY <1>1, <2>3, SeqEqual
    <2> QED BY <2>4 DEF s
  <1> QED BY <1>3, <1>4 DEF a, b, c

\* A copy that reports success is as long as the source was, in its order.
LEMMA CpSafe == CpInv => cp_copy!CopyIsTrue
  <1> SUFFICES ASSUME CpInv, status = "success" PROVE
          /\ cp_copy!IsPrefix(target, cp_copy!Bytes(1, source))
          /\ file_size <= Len(target)
    BY DEF cp_copy!CopyIsTrue
  <1>1. PICK n \in file_size .. source : target = cp_copy!Bytes(1, n)
    BY DEF CpInv, CopiedAll
  <1>2. n \in Nat /\ source \in Nat /\ n <= source /\ file_size <= n
    BY DEF CpInv
  <1> DEFINE a == cp_copy!Bytes(1, n)
             b == cp_copy!Bytes(1, source)
  <1>3. /\ a \in Seq(Nat) /\ Len(a) = n /\ \A k \in 1 .. n : a[k] = k
        /\ b \in Seq(Nat) /\ Len(b) = source
        /\ \A k \in 1 .. source : b[k] = k
    BY <1>2, FirstBytes
  <1> HIDE DEF a, b
  <1>4. \A k \in 1 .. Len(a) : a[k] = b[k] BY <1>2, <1>3
  <1>5. SubSeq(a, 1, Len(a)) = SubSeq(b, 1, Len(a)) BY <1>2, <1>3, <1>4
  <1>6. cp_copy!IsPrefix(a, b)
    BY <1>2, <1>3, <1>4, <1>5 DEF cp_copy!IsPrefix
  <1> QED BY <1>1, <1>2, <1>3, <1>6 DEF a, b

\* cp starts in its invariant, in each version.
LEMMA CpInit == cp_copy!CopyAssumption /\ cp_copy!Init => CpInv
  BY DEF cp_copy!CopyAssumption, cp_copy!Init, CpInv

\* Every step of cp keeps it, those of a source that grows and of a disk that
\* fills up included.
LEMMA CpKept ==
    ASSUME cp_copy!CopyAssumption, CpInv, [cp_copy!Next]_(cp_copy!copyVars)
    PROVE  CpInv'
  <1>0. BUFFER_SIZE \in Nat /\ BUFFER_SIZE > 0
    BY DEF cp_copy!CopyAssumption
  <1> USE DEF CpInv, CopiedAll
  <1>1. CASE UNCHANGED cp_copy!copyVars
    BY <1>1 DEF cp_copy!copyVars
  <1>2. CASE cp_copy!die
    BY <1>2 DEF cp_copy!die, cp_copy!Stop
  <1>3. CASE cp_copy!open
    BY <1>3 DEF cp_copy!open, cp_copy!Go
  <1>4. CASE cp_copy!creat
    <2>1. target' = cp_copy!Bytes(1, file_offset')
      <3>1. /\ cp_copy!Bytes(1, 0) \in Seq(Nat)
            /\ Len(cp_copy!Bytes(1, 0)) = 0
        BY FirstBytes
      <3>2. cp_copy!Bytes(1, 0) = <<>> BY <3>1
      <3> QED BY <1>4, <3>2 DEF cp_copy!creat
    <2> QED BY <1>4, <2>1 DEF cp_copy!creat, cp_copy!Go
  <1>5. CASE cp_copy!Appended
    BY <1>5 DEF cp_copy!Appended
  <1>6. CASE cp_copy!read
    <2> DEFINE n_chars == cp_copy!Least(BUFFER_SIZE, source - file_offset)
    <2>1. /\ next = "read" /\ version < 3
          /\ buf' = cp_copy!Bytes(file_offset + 1, file_offset + n_chars)
          /\ file_offset' = file_offset + n_chars
          /\ next' = IF n_chars > 0 THEN "write" ELSE "close"
          /\ UNCHANGED <<version, source, target, space, file_size, status>>
      BY <1>6 DEF cp_copy!read, cp_copy!Go
    <2>2. /\ n_chars \in Nat /\ file_offset + n_chars <= source
          /\ n_chars = 0 => file_offset = source
      BY <1>0 DEF cp_copy!Least
    <2> HIDE DEF n_chars
    <2>3. CASE n_chars = 0 BY <2>1, <2>2, <2>3
    <2>4. CASE n_chars > 0
      <3>1. /\ n_chars \in 1 .. file_offset'
            /\ file_offset' - n_chars + 1 = file_offset + 1
            /\ file_offset' - n_chars = file_offset
            /\ file_offset' \in 0 .. source
        BY <2>1, <2>2, <2>4
      <3>2. \E n \in 1 .. file_offset' :
               /\ buf' = cp_copy!Bytes(file_offset' - n + 1, file_offset')
               /\ target' = cp_copy!Bytes(1, file_offset' - n)
        BY <2>1, <3>1
      <3> QED BY <2>1, <2>4, <3>1, <3>2
    <2> QED BY <2>2, <2>3, <2>4
  <1>7. CASE cp_copy!write
    <2>1. PICK n \in 1 .. file_offset :
             /\ buf = cp_copy!Bytes(file_offset - n + 1, file_offset)
             /\ target = cp_copy!Bytes(1, file_offset - n)
      BY <1>7 DEF cp_copy!write
    <2> DEFINE m == file_offset - n
    <2>2. m \in Nat /\ n \in Nat /\ m + n = file_offset BY <2>1
    <2>3. Len(buf) = n
      <3>1. buf = cp_copy!Bytes(m + 1, m + n) BY <2>1, <2>2
      <3> HIDE DEF m
      <3>2. Len(cp_copy!Bytes(m + 1, m + n)) = n BY ONLY <2>2, BytesLemma
      <3> QED BY <3>1, <3>2
    <2> DEFINE done_now == cp_copy!Least(Len(buf), space)
    <2>4. /\ target' = target \o SubSeq(buf, 1, done_now)
          /\ IF done_now = n THEN next' = "read" /\ status' = status
             ELSE next' = "over" /\ status' = "failure"
          /\ UNCHANGED <<version, source, file_offset, file_size>>
          /\ next = "write"
      BY <1>7, <2>3 DEF cp_copy!write, cp_copy!Go, cp_copy!Stop
    <2> HIDE DEF done_now
    <2>6. CASE done_now = n
      <3>1. target' = cp_copy!Bytes(1, file_offset)
        BY <2>1, <2>2, <2>4, <2>6, BytesJoin
      <3> QED BY <2>4, <2>6, <3>1
    <2>7. CASE done_now # n BY <2>4, <2>7
    <2> QED BY <2>6, <2>7
  <1>8. CASE cp_copy!close
    BY <1>8 DEF cp_copy!close, cp_copy!Stop
  <1>9. CASE cp_copy!grow
    BY <1>9 DEF cp_copy!grow, cp_copy!Go
  <1>10. CASE cp_copy!mmap
    BY <1>10 DEF cp_copy!mmap, cp_copy!Go, cp_copy!Stop
  <1>11. CASE cp_copy!memcpy
    <2> DEFINE holes == Len(target) - 1
               fits == target # <<>> /\ holes <= space
    <2>1. /\ fits => target' = cp_copy!Bytes(1, file_size)
          /\ IF fits THEN next' = "close" /\ status' = status
             ELSE next' = "over" /\ status' = "SIGBUS"
          /\ UNCHANGED <<version, source, file_offset, file_size>>
          /\ next = "memcpy"
      BY <1>11 DEF cp_copy!memcpy, cp_copy!Go, cp_copy!Stop
    <2> QED BY <2>1
  <1> QED BY <1>1, <1>2, <1>3, <1>4, <1>5, <1>6, <1>7, <1>8, <1>9, <1>10, <1>11
          DEF cp_copy!Next

-----------------------------------------------------------------------------
(* who_copy_v5, with a buffer *)

\* A list of the first p records: in order, nobody of those here left out.
Listing(list, here, p) ==
    /\ list \in Seq(Nat) /\ here \subseteq Nat
    /\ \A j \in DOMAIN list : list[j] <= p
    /\ \A j, k \in DOMAIN list : j < k => list[j] < list[k]
    /\ \A k \in here : k <= p => \E j \in DOMAIN list : list[j] = k

\* A list that takes the next record is one of the records so far.
LEMMA Extended ==
    ASSUME NEW list, NEW here, NEW p \in Nat, Listing(list, here, p)
    PROVE  Listing(Append(list, p + 1), here, p + 1)
  <1> DEFINE longer == Append(list, p + 1)
  <1>1. list \in Seq(Nat) /\ here \subseteq Nat BY DEF Listing
  <1>2. /\ longer \in Seq(Nat) /\ Len(longer) = Len(list) + 1
        /\ \A j \in 1 .. Len(list) : longer[j] = list[j]
        /\ longer[Len(list) + 1] = p + 1
    BY <1>1
  <1>3. /\ DOMAIN list = 1 .. Len(list) /\ DOMAIN longer = 1 .. Len(list) + 1
        /\ Len(list) \in Nat
    BY <1>1, <1>2
  <1> HIDE DEF longer
  <1>4. \A j \in DOMAIN longer : longer[j] <= p + 1
    <2>1. \A j \in DOMAIN list : list[j] \in Nat /\ list[j] <= p
      BY <1>1 DEF Listing
    <2> QED BY <1>2, <1>3, <2>1
  <1>5. ASSUME NEW j \in DOMAIN longer, NEW k \in DOMAIN longer, j < k
        PROVE  longer[j] < longer[k]
    <2>1. j \in DOMAIN list /\ longer[j] = list[j] /\ list[j] <= p
      BY <1>2, <1>3, <1>5 DEF Listing
    <2>2. CASE k = Len(list) + 1 BY <1>1, <1>2, <2>1, <2>2
    <2>3. CASE k \in DOMAIN list
      BY <1>2, <1>3, <1>5, <2>1, <2>3 DEF Listing
    <2> QED BY <1>3, <2>2, <2>3
  <1>6. ASSUME NEW k \in here, k <= p + 1
        PROVE  \E j \in DOMAIN longer : longer[j] = k
    <2>1. CASE k = p + 1 BY <1>2, <1>3, <2>1
    <2>2. CASE k <= p
      <3>1. PICK j \in DOMAIN list : list[j] = k BY <2>2 DEF Listing
      <3> QED BY <1>2, <1>3, <3>1
    <2> QED BY <1>1, <1>6, <2>1, <2>2
  <1> QED BY <1>1, <1>2, <1>4, <1>5, <1>6 DEF Listing, longer

\* So is one that leaves out a record of nobody who was here.
LEMMA Passed ==
    ASSUME NEW list, NEW here, NEW p \in Nat, Listing(list, here, p),
           p + 1 \notin here
    PROVE  Listing(list, here, p + 1)
  <1>1. \A k \in here : k <= p + 1 => k <= p BY DEF Listing
  <1>2. \A j \in DOMAIN list : list[j] \in Nat BY DEF Listing
  <1> QED BY <1>1, <1>2 DEF Listing

\* And one of those who were here, after some of them have left.
LEMMA FewerHere ==
    ASSUME NEW list, NEW here, NEW p \in Nat, Listing(list, here, p),
           NEW left \in SUBSET here
    PROVE  Listing(list, left, p)
  BY DEF Listing

\* Records before those in the buffer, and records that were looked at.
Base == offset - number_of_recs_in_buffer
Processed == Base + current_record - (IF who = "show" THEN 1 ELSE 0)

\* The buffer holds the records after Base, with the users who have stayed in
\* those that were not looked at yet, and the list is one of those that were.
WhoInv ==
    /\ utmp_file \in Seq(BOOLEAN) /\ stayed \subseteq who_copy!Users
    /\ offset \in 0 .. Len(utmp_file)
    /\ number_of_recs_in_buffer \in 0 .. offset
    /\ number_of_recs_in_buffer <= NUM_RECORDS
    /\ current_record \in 0 .. number_of_recs_in_buffer
    /\ who \in {"next", "show", "done"}
    /\ who = "show" => current_record > 0 /\ record_ptr = current_record - 1
    /\ \A k \in 0 .. number_of_recs_in_buffer - 1 :
          /\ utmp_buf[k].number = Base + k + 1
          /\ Base + k >= Processed /\ Base + k + 1 \in stayed
                => utmp_buf[k].user
    /\ Listing(shown, stayed, Processed)
    /\ who = "done" => Processed = Len(utmp_file)

\* At the end that is all of them.
LEMMA WhoSafe == WhoInv => who_copy!WhoIsComplete
  <1> SUFFICES ASSUME WhoInv
               PROVE  /\ \A j, k \in DOMAIN shown : j < k => shown[j] < shown[k]
                      /\ who = "done" => stayed \subseteq who_copy!ToSet(shown)
    BY DEF who_copy!WhoIsComplete
  <1>1. \A j, k \in DOMAIN shown : j < k => shown[j] < shown[k]
    BY DEF WhoInv, Listing
  <1>2. ASSUME who = "done", NEW k \in stayed
        PROVE  k \in who_copy!ToSet(shown)
    <2>1. k <= Processed BY <1>2 DEF WhoInv, who_copy!Users
    <2>2. PICK j \in DOMAIN shown : shown[j] = k
      BY <2>1 DEF WhoInv, Listing
    <2> QED BY <2>2 DEF who_copy!ToSet
  <1> QED BY <1>1, <1>2

\* who starts in its invariant.
LEMMA WhoInit == who_copy!UtmpAssumption /\ who_copy!Init => WhoInv
  <1> SUFFICES ASSUME who_copy!UtmpAssumption, who_copy!Init PROVE WhoInv
    OBVIOUS
  <1> DEFINE U == UNION {[1 .. m -> BOOLEAN] : m \in 0 .. MaxRecords}
  <1>1. utmp_file \in U
    BY DEF who_copy!Init, who_copy!BoundedSeq, who_copy!SeqOf
  <1>2. PICK m \in 0 .. MaxRecords : utmp_file \in [1 .. m -> BOOLEAN]
    BY <1>1
  <1>3. utmp_file \in Seq(BOOLEAN)
    BY <1>2 DEF who_copy!UtmpAssumption
  <1>4. /\ offset = 0 /\ number_of_recs_in_buffer = 0 /\ current_record = 0
        /\ who = "next" /\ shown = <<>> /\ stayed = who_copy!Users
    BY DEF who_copy!Init
  <1>5. Processed = 0 BY <1>4 DEF Processed, Base
  <1>6. Listing(shown, stayed, Processed)
    BY <1>4, <1>5 DEF Listing, who_copy!Users
  <1>7. Len(utmp_file) \in Nat BY <1>3
  <1> HIDE DEF U
  <1> QED BY <1>3, <1>4, <1>6, <1>7 DEF WhoInv, who_copy!UtmpAssumption

\* What others do to the file leaves everybody else where he was.
LEMMA WhoOthers ==
    ASSUME WhoInv,
           UNCHANGED <<offset, utmp_buf, number_of_recs_in_buffer,
                       current_record, record_ptr, who, shown>>,
           who # "done", utmp_file' \in Seq(BOOLEAN),
           Len(utmp_file') >= Len(utmp_file),
           stayed' \subseteq stayed, stayed' \subseteq who_copy!Users'
    PROVE  WhoInv'
  <1>1. Base' = Base /\ Processed' = Processed BY DEF Base, Processed
  <1>2. Processed \in Nat BY DEF WhoInv, Base, Processed
  <1>3. Listing(shown', stayed', Processed')
    BY <1>1, <1>2, FewerHere DEF WhoInv
  <1>4. offset' \in 0 .. Len(utmp_file') BY DEF WhoInv
  <1> QED BY <1>1, <1>3, <1>4 DEF WhoInv
\* The next record of the buffer is taken.
LEMMA WhoTakes ==
    ASSUME WhoInv, who_copy!NextInBuffer
    PROVE  WhoInv'
  <1>1. /\ who = "next" /\ current_record # number_of_recs_in_buffer
        /\ record_ptr' = current_record
        /\ current_record' = current_record + 1 /\ who' = "show"
        /\ UNCHANGED <<utmp_file, offset, utmp_buf, number_of_recs_in_buffer,
                       shown, stayed>>
    BY DEF who_copy!NextInBuffer, who_copy!TakeRecord
  <1>2. Base' = Base /\ Processed' = Processed
    BY <1>1 DEF Base, Processed, WhoInv
  <1>3. stayed' \subseteq who_copy!Users' BY <1>1 DEF WhoInv, who_copy!Users
  <1> QED BY <1>1, <1>2, <1>3 DEF WhoInv

\* The buffer is filled again when all of it was taken.
LEMMA WhoFills ==
    ASSUME who_copy!UtmpAssumption, WhoInv, who_copy!utmp_fill
    PROVE  WhoInv'
  <1>0. NUM_RECORDS \in Nat \ {0} BY DEF who_copy!UtmpAssumption
  <1> DEFINE left == Len(utmp_file) - offset
             n == IF left < NUM_RECORDS THEN left ELSE NUM_RECORDS
  <1>1. /\ who = "next" /\ current_record = number_of_recs_in_buffer
        /\ who_copy!Fill(n)
        /\ IF n = 0
           THEN current_record' = 0 /\ who' = "done"
           ELSE who_copy!TakeRecord(0)
        /\ UNCHANGED <<utmp_file, shown, stayed>>
    BY DEF who_copy!utmp_fill
  <1>2. /\ n \in Nat /\ n <= NUM_RECORDS /\ offset \in Nat
        /\ offset + n <= Len(utmp_file) /\ Len(utmp_file) \in Nat
        /\ n = 0 => offset = Len(utmp_file)
    BY <1>0 DEF WhoInv
  <1> HIDE DEF n
  <1>3. offset' = offset + n /\ number_of_recs_in_buffer' = n
    BY <1>1 DEF who_copy!Fill
  <1>4. /\ IF n = 0 THEN current_record' = 0 /\ who' = "done"
           ELSE current_record' = 1 /\ who' = "show" /\ record_ptr' = 0
    BY <1>1 DEF who_copy!TakeRecord
  <1>5. Base' = offset /\ Processed' = offset /\ Processed = offset
    <2>1. Base' = offset BY <1>2, <1>3 DEF Base
    <2>2. Processed' = offset BY <1>2, <1>4, <2>1 DEF Processed
    <2>3. Processed = offset BY <1>1, <1>2 DEF WhoInv, Processed, Base
    <2> QED BY <2>1, <2>2, <2>3
  <1>6. stayed \subseteq who_copy!Users /\ stayed' = stayed
    BY <1>1 DEF WhoInv
  <1>7. ASSUME NEW k \in 0 .. n - 1
        PROVE  /\ utmp_buf'[k].number = offset + k + 1
               /\ offset + k + 1 \in stayed => utmp_buf'[k].user
    <2>1. k \in who_copy!Cells /\ k < n
      BY <1>0, <1>2, <1>7 DEF who_copy!Cells
    <2> DEFINE r == offset + k + 1
    <2>2. utmp_buf'[k] = [number |-> r, user |-> utmp_file[r]]
      BY <1>1, <2>1, Zenon DEF who_copy!Fill
    <2>3. r \in stayed => utmp_file[r] BY <1>6 DEF who_copy!Users
    <2> HIDE DEF r
    <2>4. utmp_buf'[k].number = r /\ utmp_buf'[k].user = utmp_file[r]
      BY ONLY <2>2
    <2>5. r \in stayed => utmp_buf'[k].user BY <2>3, <2>4, Zenon
    <2> QED BY <2>4, <2>5 DEF r
  <1>8. /\ utmp_file' \in Seq(BOOLEAN) /\ stayed' \subseteq who_copy!Users'
        /\ Len(utmp_file') = Len(utmp_file)
    BY <1>1, <1>6 DEF WhoInv, who_copy!Users
  <1>9. Listing(shown', stayed', Processed')
    BY <1>1, <1>5 DEF WhoInv
  <1>10. /\ offset' \in 0 .. Len(utmp_file')
         /\ number_of_recs_in_buffer' \in 0 .. offset'
         /\ number_of_recs_in_buffer' <= NUM_RECORDS
    BY <1>2, <1>3, <1>8
  <1>11. \A k \in 0 .. number_of_recs_in_buffer' - 1 :
            /\ utmp_buf'[k].number = Base' + k + 1
            /\ Base' + k >= Processed' /\ Base' + k + 1 \in stayed'
                  => utmp_buf'[k].user
    BY <1>3, <1>5, <1>6, <1>7
  <1>12. /\ current_record' \in 0 .. number_of_recs_in_buffer'
         /\ who' \in {"next", "show", "done"}
         /\ who' = "show" =>
               current_record' > 0 /\ record_ptr' = current_record' - 1
         /\ who' = "done" => Processed' = Len(utmp_file')
    BY <1>2, <1>3, <1>4, <1>5, <1>8
  <1> QED BY <1>8, <1>9, <1>10, <1>11, <1>12 DEF WhoInv

\* A record with a user is listed.
LEMMA WhoShows ==
    ASSUME WhoInv, who_copy!show_info
    PROVE  WhoInv'
  <1> DEFINE p == Processed
             record == utmp_buf[record_ptr]
  <1>1. /\ who = "show" /\ who' = "next"
        /\ shown' = IF record.user THEN Append(shown, record.number)
                    ELSE shown
        /\ UNCHANGED <<utmp_file, offset, utmp_buf, number_of_recs_in_buffer,
                       current_record, record_ptr, stayed>>
    BY DEF who_copy!show_info
  <1>2. /\ record_ptr \in 0 .. number_of_recs_in_buffer - 1
        /\ p = Base + record_ptr /\ p \in Nat
        /\ Processed' = p + 1 /\ Base' = Base
    BY <1>1 DEF WhoInv, Processed, Base
  <1>3. record.number = p + 1 /\ (p + 1 \in stayed => record.user)
    <2>1. Base + record_ptr >= Processed BY <1>2
    <2>2. /\ record.number = Base + record_ptr + 1
          /\ Base + record_ptr + 1 \in stayed => record.user
      BY <1>2, <2>1 DEF WhoInv
    <2>3. Base + record_ptr + 1 = p + 1 BY <1>2
    <2> QED BY <2>2, <2>3
  <1>4. Listing(shown, stayed, p) BY DEF WhoInv
  <1> HIDE DEF p, record
  <1>5. Listing(shown', stayed, p + 1)
    <2>1. CASE record.user
      <3>1. shown' = Append(shown, p + 1) BY <1>1, <1>3, <2>1, Zenon
      <3> QED BY <1>2, <1>4, <3>1, Extended
    <2>2. CASE ~record.user
      <3>1. shown' = shown /\ p + 1 \notin stayed
        BY <1>1, <1>3, <2>2, Zenon
      <3> QED BY <1>2, <1>4, <3>1, Passed
    <2> QED BY <2>1, <2>2, Zenon
  <1>6. stayed' \subseteq who_copy!Users' BY <1>1 DEF WhoInv, who_copy!Users
  <1>7. \A k \in 0 .. number_of_recs_in_buffer - 1 :
            /\ utmp_buf'[k].number = Base' + k + 1
            /\ Base' + k >= Processed' /\ Base' + k + 1 \in stayed'
                  => utmp_buf'[k].user
    <2> TAKE k \in 0 .. number_of_recs_in_buffer - 1
    <2>1. /\ utmp_buf[k].number = Base + k + 1
          /\ Base + k >= Processed /\ Base + k + 1 \in stayed
                => utmp_buf[k].user
      BY DEF WhoInv
    <2>2. Base + k >= Processed' => Base + k >= Processed
      BY <1>2 DEF p, Base, WhoInv
    <2> QED BY <1>1, <1>2, <2>1, <2>2
  <1> QED BY <1>1, <1>2, <1>5, <1>6, <1>7 DEF WhoInv

\* Every step keeps the invariant of who, those of the users included.
LEMMA WhoKept ==
    ASSUME who_copy!UtmpAssumption, WhoInv,
           [who_copy!Next]_(who_copy!utmpVars)
    PROVE  WhoInv'
  <1>1. CASE UNCHANGED who_copy!utmpVars
    BY <1>1 DEF who_copy!utmpVars, WhoInv, who_copy!Users, Base, Processed
  <1>2. CASE who_copy!next_utmp
    BY <1>2, WhoTakes, WhoFills DEF who_copy!next_utmp
  <1>3. CASE who_copy!show_info
    BY <1>3, WhoShows
  <1>4. CASE who_copy!LogIn
    <2>1. /\ UNCHANGED <<offset, utmp_buf, number_of_recs_in_buffer,
                         current_record, record_ptr, who, shown, stayed>>
          /\ who # "done"
          /\ \/ utmp_file' = Append(utmp_file, TRUE)
             \/ \E k \in DOMAIN utmp_file \ who_copy!Users :
                   utmp_file' = [utmp_file EXCEPT ![k] = TRUE]
      BY <1>4 DEF who_copy!LogIn
    <2>2. /\ utmp_file' \in Seq(BOOLEAN)
          /\ Len(utmp_file') >= Len(utmp_file)
          /\ \A j \in who_copy!Users :
                j \in 1 .. Len(utmp_file') /\ utmp_file'[j]
      <3>1. CASE utmp_file' = Append(utmp_file, TRUE)
        <4>1. /\ utmp_file' \in Seq(BOOLEAN)
              /\ Len(utmp_file') = Len(utmp_file) + 1
              /\ \A j \in 1 .. Len(utmp_file) : utmp_file'[j] = utmp_file[j]
          BY <3>1 DEF WhoInv
        <4>2. \A j \in who_copy!Users :
                 j \in 1 .. Len(utmp_file) /\ utmp_file[j]
          BY DEF who_copy!Users
        <4>3. \A j \in who_copy!Users : utmp_file'[j] BY <4>1, <4>2, Zenon
        <4> QED BY <4>1, <4>2, <4>3
      <3>2. ASSUME NEW k \in DOMAIN utmp_file \ who_copy!Users,
                   utmp_file' = [utmp_file EXCEPT ![k] = TRUE]
            PROVE  /\ utmp_file' \in Seq(BOOLEAN)
                   /\ Len(utmp_file') >= Len(utmp_file)
                   /\ \A j \in who_copy!Users :
                         j \in 1 .. Len(utmp_file') /\ utmp_file'[j]
        <4>1. /\ utmp_file' \in Seq(BOOLEAN)
              /\ Len(utmp_file') = Len(utmp_file)
              /\ \A j \in 1 .. Len(utmp_file) \ {k} :
                    utmp_file'[j] = utmp_file[j]
          BY <3>2 DEF WhoInv
        <4>2. \A j \in who_copy!Users :
                 j \in 1 .. Len(utmp_file) /\ utmp_file[j]
          BY DEF who_copy!Users
        <4>3. \A j \in who_copy!Users : utmp_file'[j]
          BY <3>2, <4>1, <4>2, Zenon
        <4> QED BY <4>1, <4>2, <4>3
      <3>3. Len(utmp_file) \in Nat BY DEF WhoInv
      <3> QED BY <2>1, <3>1, <3>2, <3>3
    <2>3. stayed' \subseteq who_copy!Users'
      BY <2>1, <2>2 DEF WhoInv, who_copy!Users
    <2> QED BY <2>1, <2>2, <2>3, WhoOthers
  <1>5. CASE who_copy!LogOut
    <2>1. PICK k \in who_copy!Users :
             /\ utmp_file' = [utmp_file EXCEPT ![k] = FALSE]
             /\ stayed' = stayed \ {k}
      BY <1>5 DEF who_copy!LogOut
    <2>2. /\ UNCHANGED <<offset, utmp_buf, number_of_recs_in_buffer,
                         current_record, record_ptr, who, shown>>
          /\ who # "done"
      BY <1>5 DEF who_copy!LogOut
    <2>3. /\ utmp_file' \in Seq(BOOLEAN)
          /\ Len(utmp_file') >= Len(utmp_file)
          /\ \A j \in 1 .. Len(utmp_file) \ {k} :
                utmp_file'[j] = utmp_file[j]
          /\ Len(utmp_file') = Len(utmp_file)
      <3>1. utmp_file \in Seq(BOOLEAN) BY DEF WhoInv
      <3>2. k \in 1 .. Len(utmp_file) BY DEF who_copy!Users
      <3>3. utmp_file' \in Seq(BOOLEAN) /\ Len(utmp_file') = Len(utmp_file)
        BY <2>1, <3>1, <3>2
      <3>4. Len(utmp_file) \in Nat BY <3>1
      <3>5. \A j \in 1 .. Len(utmp_file) \ {k} : utmp_file'[j] = utmp_file[j]
        BY <2>1, <3>1
      <3> QED BY <3>3, <3>4, <3>5
    <2>4. \A j \in stayed : j \in 1 .. Len(utmp_file) /\ utmp_file[j]
      BY DEF WhoInv, who_copy!Users
    <2>5. \A j \in stayed' : j \in 1 .. Len(utmp_file) /\ utmp_file'[j]
      BY <2>1, <2>3, <2>4, Zenon
    <2>6. stayed' \subseteq who_copy!Users' /\ stayed' \subseteq stayed
      BY <2>1, <2>3, <2>5 DEF who_copy!Users
    <2> QED BY <2>2, <2>3, <2>6, WhoOthers
  <1> QED BY <1>1, <1>2, <1>3, <1>4, <1>5 DEF who_copy!Next

-----------------------------------------------------------------------------
(* who_copy_v3, who_copy_v4 and write_copy, record by record *)

\* Somebody is logged in at the terminal of the record.
Live(record) == record.user
\* Records that were looked at.
ListedTo == offset - (IF at = "who" THEN 1 ELSE 0)
\* What is written to a terminal.
Packets == [line : Nat, text : Int]

\* A message and lines from the first on.
Sent(list) ==
    \A n \in DOMAIN list :
       /\ list[n].line = offset
       /\ \/ n = 1 /\ list[n].text = utmp!Message
          \/ n > 1 /\ list[n].text = n - 1

\* The same, and maybe an end.
Said(list) ==
    \A n \in DOMAIN list :
       /\ list[n].line = offset
       /\ \/ n = 1 /\ list[n].text = utmp!Message
          \/ n > 1 /\ list[n].text = n - 1
          \/ n = Len(list) /\ n > 1 /\ list[n].text = utmp!Eof

\* What the variables hold, and who runs which part.
RecordsTypes ==
    /\ asked.command \in {"who", "logout", "write"}
    /\ utmp_file \in Seq(utmp!Record)
    /\ offset \in 0 .. Len(utmp_file)
    /\ stayed \subseteq DOMAIN utmp_file
    /\ \A k \in stayed : Live(utmp_file[k])
    /\ at \in {"read", "who", "logout", "write", "copy", "eof", "done",
               "not found", "failed"}
    /\ at = "who" => asked.command = "who"
    /\ at \in {"write", "copy", "eof"} => asked.command = "write"

\* logout marks a record of the terminal it was given, whose user has gone.
MarkInv ==
    /\ at = "logout" =>
          /\ asked.command = "logout" /\ offset > 0
          /\ offset \in asked.lines \ stayed
    /\ at # "done" => written = utmp_file
    /\ utmp!OthersAreKept

\* who lists the records it has read, one by one.
ListInv ==
    /\ at = "who" => offset > 0
    /\ asked.command = "who" =>
          /\ Listing(shown, stayed, ListedTo)
          /\ at = "done" => offset = Len(utmp_file)
    /\ asked.command # "who" => shown = <<>>

\* write has not passed a terminal where the user it was given has stayed.
FindInv ==
    /\ at \in {"read", "not found"} /\ asked.command = "write" =>
          \A k \in stayed \intersect asked.lines :
             k <= offset => utmp_file[k].name # asked.name
    /\ at = "not found" =>
          asked.command = "write" /\ offset = Len(utmp_file)

\* What a terminal gets is what write has read so far, and maybe the end.
SendInv ==
    /\ typed \in Nat /\ received \in Seq(Packets)
    /\ at \in {"read", "who", "logout", "write", "not found", "failed"} =>
          received = <<>> /\ typed = 0
    /\ at \in {"write", "copy", "eof"} => offset \in asked.lines
    /\ received # <<>> => offset \in asked.lines
    /\ at = "copy" => Sent(received) /\ Len(received) = typed + 1
    /\ at = "eof" => Sent(received) /\ received # <<>>
    /\ at = "done" => Said(received)

\* The invariant of the three programs.
RecordsInv == RecordsTypes /\ MarkInv /\ ListInv /\ FindInv /\ SendInv

\* A file with one record replaced is a file of the same length.
LEMMA RecordReplaced ==
    ASSUME NEW list \in Seq(utmp!Record), NEW k \in DOMAIN list,
           NEW record \in utmp!Record
    PROVE  /\ [list EXCEPT ![k] = record] \in Seq(utmp!Record)
           /\ Len([list EXCEPT ![k] = record]) = Len(list)
  <1>1. k \in 1 .. Len(list) OBVIOUS
  <1> QED BY <1>1, ExceptSeq, Zenon

\* A record with a user has the name of one.
LEMMA LiveNamed ==
    ASSUME utmp!RecordsAssumption, NEW record \in utmp!Record, Live(record)
    PROVE  record.name # utmp!NoName
  <1>1. CASE record \in [name : UserNames, user : {TRUE}]
    BY <1>1 DEF utmp!RecordsAssumption
  <1>2. CASE record \in [name : UserNames \union {utmp!NoName}, user : {FALSE}]
    <2>1. record.user = FALSE BY <1>2
    <2> QED BY <2>1, Zenon DEF Live
  <1> QED BY <1>1, <1>2 DEF utmp!Record

\* The invariant implies the three properties.
LEMMA RecordsSafe ==
    RecordsInv =>
       utmp!WhoIsComplete /\ utmp!OthersAreKept /\ utmp!MessageIsWhole
  <1> SUFFICES ASSUME RecordsInv
               PROVE  utmp!WhoIsComplete /\ utmp!OthersAreKept
                         /\ utmp!MessageIsWhole
    OBVIOUS
  <1>0. \A k \in stayed : k \in 1 .. Len(utmp_file)
    <2>1. utmp_file \in Seq(utmp!Record) /\ stayed \subseteq DOMAIN utmp_file
      BY Zenon DEF RecordsInv, RecordsTypes
    <2> QED BY <2>1
  <1>1. utmp!WhoIsComplete
    <2>1. \A j, k \in DOMAIN shown : j < k => shown[j] < shown[k]
      BY DEF RecordsInv, ListInv, Listing
    <2>2. ASSUME at = "done", asked.command = "who", NEW k \in stayed
          PROVE  k \in utmp!ToSet(shown)
      <3>1. ListedTo = Len(utmp_file) /\ utmp_file \in Seq(utmp!Record)
        BY <2>2 DEF RecordsInv, RecordsTypes, ListInv, ListedTo
      <3>2. k <= ListedTo BY <1>0, <3>1
      <3>3. PICK j \in DOMAIN shown : shown[j] = k
        BY <2>2, <3>2 DEF RecordsInv, ListInv, Listing
      <3> QED BY <3>3 DEF utmp!ToSet
    <2> QED BY <2>1, <2>2 DEF utmp!WhoIsComplete
  <1>2. utmp!OthersAreKept BY DEF RecordsInv, MarkInv
  <1>3. utmp!MessageIsWhole
    <2>1. ASSUME at = "not found"
          PROVE  \A k \in stayed \intersect asked.lines :
                    utmp_file[k].name # asked.name
      <3>1. \A k \in stayed : k <= offset
        <4>1. offset = Len(utmp_file) BY <2>1, Zenon DEF RecordsInv, FindInv
        <4> QED BY <1>0, <4>1
      <3> QED BY <2>1, <3>1, Zenon DEF RecordsInv, FindInv
    <2>2. Said(received)
      <3>1. CASE received = <<>> BY <3>1 DEF Said
      <3>2. CASE at \in {"copy", "eof"}
        BY <3>2, Zenon DEF RecordsInv, SendInv, Said, Sent
      <3>3. CASE at = "done" BY <3>3 DEF RecordsInv, SendInv
      <3> QED BY <3>1, <3>2, <3>3, Zenon DEF RecordsInv, RecordsTypes, SendInv
    <2>3. received # <<>> => offset \in asked.lines
      BY Zenon DEF RecordsInv, SendInv
    <2>4. received \in Seq(Packets) BY Zenon DEF RecordsInv, SendInv
    <2>5. \A n \in DOMAIN received : received # <<>> BY <2>4
    <2> QED BY <2>1, <2>2, <2>3, <2>5, Zenon DEF utmp!MessageIsWhole, Said
  <1> QED BY <1>1, <1>2, <1>3

\* The programs start in it.
LEMMA RecordsInit == utmp!RecordsAssumption /\ utmp!Init => RecordsInv
  <1> SUFFICES ASSUME utmp!RecordsAssumption, utmp!Init PROVE RecordsInv
    OBVIOUS
  <1>1. PICK m \in 0 .. NumTerminals : utmp_file \in [1 .. m -> utmp!Record]
    BY DEF utmp!Init, utmp!BoundedSeq, utmp!SeqOf
  <1>2. utmp_file \in Seq(utmp!Record)
    <2>1. m \in Nat BY DEF utmp!RecordsAssumption
    <2> QED BY <1>1, <2>1
  <1>3. asked.command \in {"who", "logout", "write"}
    <2>1. asked \in utmp!Commands BY DEF utmp!Init
    <2> QED BY <2>1 DEF utmp!Commands
  <1>4. /\ offset = 0 /\ at = "read" /\ shown = <<>> /\ typed = 0
        /\ received = <<>> /\ written = utmp_file
        /\ stayed = utmp!InUse(utmp_file)
    BY DEF utmp!Init
  <1>5. /\ stayed \subseteq DOMAIN utmp_file
        /\ \A k \in stayed : Live(utmp_file[k])
    BY <1>4 DEF utmp!InUse, Live
  <1>6. Len(utmp_file) \in Nat /\ DOMAIN utmp_file = 1 .. Len(utmp_file)
    BY <1>2
  <1>7. RecordsTypes
    BY <1>2, <1>3, <1>4, <1>5, <1>6 DEF RecordsTypes
  <1>8. MarkInv BY <1>4 DEF MarkInv, utmp!OthersAreKept
  <1>9. ListInv BY <1>4, <1>5, <1>6 DEF ListInv, Listing, ListedTo
  <1>10. FindInv BY <1>4, <1>5, <1>6 DEF FindInv
  <1>11. SendInv BY <1>4 DEF SendInv, Packets
  <1> QED BY <1>7, <1>8, <1>9, <1>10, <1>11 DEF RecordsInv

\* What a read tells of the record.
LEMMA RecordRead ==
    ASSUME utmp!RecordsAssumption, RecordsTypes, utmp!ReadRecord
    PROVE  /\ at = "read" /\ offset < Len(utmp_file) /\ offset' = offset + 1
           /\ UNCHANGED <<asked, utmp_file, written, stayed, shown, typed,
                          received>>
           /\ at' \in {"read", asked.command}
           /\ asked.command = "who" /\ at' = "read" => offset' \notin stayed
           /\ at' = "logout" => offset' \in asked.lines \ stayed
           /\ at' = "write" => offset' \in asked.lines
           /\ asked.command = "write" /\ at' = "read" =>
                 (offset' \in asked.lines =>
                     utmp_file[offset'].name # asked.name)
  <1> DEFINE n == offset + 1
             record == utmp_file[n]
  <1>1. /\ at = "read" /\ offset < Len(utmp_file) /\ offset' = n
        /\ UNCHANGED <<asked, utmp_file, written, stayed, shown, typed,
                       received>>
        /\ at' = IF utmp!Wanted(n, record) THEN asked.command ELSE "read"
    BY DEF utmp!ReadRecord, utmp!Go
  <1>2. n \in DOMAIN utmp_file /\ record \in utmp!Record
    <2>1. utmp_file \in Seq(utmp!Record) /\ n \in 1 .. Len(utmp_file)
      BY <1>1 DEF RecordsTypes
    <2> QED BY <2>1
  <1>3. n \in stayed => Live(record) /\ record.name # utmp!NoName
    BY <1>2, LiveNamed, Zenon DEF RecordsTypes
  <1> HIDE DEF n, record
  <1>4. CASE asked.command = "who"
    <2>1. utmp!Wanted(n, record) <=> Live(record)
      BY <1>4, Zenon DEF utmp!Wanted, Live
    <2> QED BY <1>1, <1>3, <1>4, <2>1 DEF n
  <1>5. CASE asked.command = "logout"
    <2>1. utmp!Wanted(n, record) <=>
             n \in asked.lines /\ record.name = utmp!NoName
      BY <1>5, Zenon DEF utmp!Wanted
    <2> QED BY <1>1, <1>3, <1>5, <2>1 DEF n
  <1>6. CASE asked.command = "write"
    <2>1. utmp!Wanted(n, record) <=>
             n \in asked.lines /\ record.name = asked.name
      BY <1>6, Zenon DEF utmp!Wanted
    <2>2. utmp_file[offset'] = record BY <1>1 DEF record
    <2> QED BY <1>1, <1>6, <2>1, <2>2 DEF n
  <1> QED BY <1>4, <1>5, <1>6, Zenon DEF RecordsTypes

\* Others write one record, and not after the program has ended.
LEMMA RecordPut ==
    ASSUME RecordsTypes, utmp!LogIn \/ utmp!LogOut
    PROVE  \E k \in DOMAIN utmp_file :
             /\ at \notin {"done", "not found", "failed"}
             /\ utmp_file' \in Seq(utmp!Record)
             /\ DOMAIN utmp_file' = DOMAIN utmp_file
             /\ Len(utmp_file') = Len(utmp_file)
             /\ \A j \in DOMAIN utmp_file \ {k} : utmp_file'[j] = utmp_file[j]
             /\ written = utmp_file => written' = utmp_file'
             /\ stayed' = stayed \ {k}
             /\ UNCHANGED <<asked, offset, at, shown, typed, received>>
  <1>0. utmp_file \in Seq(utmp!Record) BY Zenon DEF RecordsTypes
  <1>1. \E k \in DOMAIN utmp_file, record \in utmp!Record : utmp!Put(k, record)
    <2>1. CASE utmp!LogIn
      <3>1. PICK k \in DOMAIN utmp_file, name \in UserNames :
                    utmp!Put(k, [name |-> name, user |-> TRUE])
        BY <2>1 DEF utmp!LogIn
      <3>2. [name |-> name, user |-> TRUE] \in utmp!Record BY DEF utmp!Record
      <3> QED BY <3>1, <3>2
    <2>2. CASE utmp!LogOut
      <3>1. PICK k \in utmp!InUse(utmp_file) :
               \E name \in {utmp!NoName, utmp_file[k].name} :
                  utmp!Put(k, [name |-> name, user |-> FALSE])
        BY <2>2 DEF utmp!LogOut
      <3>2. k \in DOMAIN utmp_file BY DEF utmp!InUse
      <3>3. utmp_file[k].name \in UserNames \union {utmp!NoName}
        <4>1. utmp_file[k] \in utmp!Record BY <1>0, <3>2
        <4> QED BY <4>1 DEF utmp!Record
      <3>4. \A name \in {utmp!NoName, utmp_file[k].name} :
               [name |-> name, user |-> FALSE] \in utmp!Record
        BY <3>3 DEF utmp!Record
      <3> QED BY <3>1, <3>2, <3>4
    <2> QED BY <2>1, <2>2
  <1>2. PICK k \in DOMAIN utmp_file, record \in utmp!Record :
           utmp!Put(k, record)
    BY <1>1
  <1>3. /\ utmp_file' = [utmp_file EXCEPT ![k] = record]
        /\ written' = [written EXCEPT ![k] = record]
        /\ stayed' = stayed \ {k}
        /\ UNCHANGED <<asked, offset, at, shown, typed, received>>
        /\ at \notin {"done", "not found", "failed"}
    BY <1>2, Zenon DEF utmp!Put, utmp!Ended
  <1>4. utmp_file' \in Seq(utmp!Record) /\ Len(utmp_file') = Len(utmp_file)
    BY <1>0, <1>3, RecordReplaced, Zenon
  <1>5. DOMAIN utmp_file' = DOMAIN utmp_file
    BY <1>3, Zenon
  <1>6. \A j \in DOMAIN utmp_file \ {k} : utmp_file'[j] = utmp_file[j]
    BY <1>3, Zenon
  <1>7. written = utmp_file => written' = utmp_file' BY <1>3, Zenon
  <1> QED BY <1>3, <1>4, <1>5, <1>6, <1>7, Zenon
\* The file is as long as its domain says.
LEMMA FileLen ==
    ASSUME RecordsTypes
    PROVE  /\ utmp_file \in Seq(utmp!Record) /\ Len(utmp_file) \in Nat
           /\ DOMAIN utmp_file = 1 .. Len(utmp_file)
           /\ offset \in 0 .. Len(utmp_file) /\ offset \in Nat
  <1>1. utmp_file \in Seq(utmp!Record) /\ offset \in 0 .. Len(utmp_file)
    BY Zenon DEF RecordsTypes
  <1>2. Len(utmp_file) \in Nat /\ DOMAIN utmp_file = 1 .. Len(utmp_file)
    BY ONLY <1>1
  <1>3. offset \in Nat BY ONLY <1>1, <1>2
  <1> QED BY <1>1, <1>2, <1>3

\* Every step keeps the types.
LEMMA TypesKept ==
    ASSUME utmp!RecordsAssumption, RecordsTypes, MarkInv,
           [utmp!Next]_(utmp!recordVars)
    PROVE  RecordsTypes'
  <1> USE DEF RecordsTypes
  <1>1. CASE UNCHANGED utmp!recordVars
    BY <1>1, Zenon DEF utmp!recordVars, Live
  <1>2. CASE utmp!ReadRecord
    <2>1. /\ offset < Len(utmp_file) /\ offset' = offset + 1
          /\ UNCHANGED <<asked, utmp_file, stayed>>
          /\ at' \in {"read", asked.command}
      BY <1>2, RecordRead, Zenon
    <2>2. Len(utmp_file) \in Nat /\ offset \in Nat BY FileLen, Zenon
    <2>3. offset' \in 0 .. Len(utmp_file') BY ONLY <2>1, <2>2
    <2> QED BY <2>1, <2>3, Zenon
  <1>3. CASE utmp!EndOfFile
    BY <1>3, Zenon DEF utmp!EndOfFile, utmp!Go, Live
  <1>4. CASE utmp!show_info
    BY <1>4 DEF utmp!show_info, utmp!Go, Live
  <1>5. CASE utmp!OpenTerminal
    BY <1>5, Zenon DEF utmp!OpenTerminal, utmp!Go, Live
  <1>6. CASE utmp!CopyLine \/ utmp!EndOfInput
    BY <1>6, Zenon DEF utmp!CopyLine, utmp!EndOfInput, utmp!Go, Live
  <1>7. CASE utmp!WriteEof
    BY <1>7 DEF utmp!WriteEof, utmp!Go, Live
  <1>8. CASE utmp!LogIn \/ utmp!LogOut
    BY <1>8, RecordPut, Zenon DEF Live
  <1>9. CASE utmp!Mark
    <2>1. /\ at = "logout" /\ at' = "done"
          /\ utmp_file' = [utmp_file EXCEPT ![offset] = utmp!Dead]
          /\ UNCHANGED <<asked, offset, stayed>>
      BY <1>9 DEF utmp!Mark, utmp!Go
    <2>2. offset \notin stayed /\ offset > 0 BY <2>1 DEF MarkInv
    <2>3. utmp!Dead \in utmp!Record BY Zenon DEF utmp!Dead, utmp!Record
    <2>4. utmp_file \in Seq(utmp!Record) /\ offset \in DOMAIN utmp_file
      <3>1. /\ utmp_file \in Seq(utmp!Record) /\ offset \in 0 .. Len(utmp_file)
            /\ DOMAIN utmp_file = 1 .. Len(utmp_file) /\ Len(utmp_file) \in Nat
        BY FileLen, Zenon
      <3> QED BY ONLY <2>2, <3>1
    <2>5. /\ utmp_file' \in Seq(utmp!Record)
          /\ Len(utmp_file') = Len(utmp_file)
      BY <2>1, <2>3, <2>4, RecordReplaced, Zenon
    <2>6. DOMAIN utmp_file' = DOMAIN utmp_file BY <2>1
    <2>7. \A k \in stayed : utmp_file'[k] = utmp_file[k] BY <2>1, <2>2
    <2> QED BY <2>1, <2>5, <2>6, <2>7
  <1> QED BY <1>1, <1>2, <1>3, <1>4, <1>5, <1>6, <1>7, <1>8, <1>9, Zenon
          DEF utmp!Next

\* Every step keeps the other users' records as they were written.
LEMMA MarkKept ==
    ASSUME utmp!RecordsAssumption, RecordsTypes, MarkInv,
           [utmp!Next]_(utmp!recordVars)
    PROVE  MarkInv'
  <1> USE DEF MarkInv, utmp!OthersAreKept
  <1>1. CASE UNCHANGED utmp!recordVars
    BY <1>1 DEF utmp!recordVars
  <1>2. CASE utmp!ReadRecord
    <2>1. /\ at = "read" /\ at' # "done" /\ offset' > 0
          /\ UNCHANGED <<asked, utmp_file, written, stayed>>
          /\ at' = "logout" => asked.command = "logout"
          /\ at' = "logout" => offset' \in asked.lines \ stayed
      <3>1. /\ at = "read" /\ offset' = offset + 1
            /\ UNCHANGED <<asked, utmp_file, written, stayed>>
            /\ at' \in {"read", asked.command}
            /\ at' = "logout" => offset' \in asked.lines \ stayed
        BY <1>2, RecordRead
      <3>2. offset' > 0 BY <3>1 DEF RecordsTypes
      <3> QED BY <3>1, <3>2 DEF RecordsTypes
    <2> QED BY <2>1
  <1>3. CASE utmp!EndOfFile
    BY <1>3, Zenon DEF utmp!EndOfFile, utmp!Go
  <1>4. CASE utmp!show_info
    BY <1>4 DEF utmp!show_info, utmp!Go
  <1>5. CASE utmp!OpenTerminal
    BY <1>5 DEF utmp!OpenTerminal, utmp!Go
  <1>6. CASE utmp!CopyLine \/ utmp!EndOfInput
    BY <1>6 DEF utmp!CopyLine, utmp!EndOfInput, utmp!Go
  <1>7. CASE utmp!WriteEof
    BY <1>7 DEF utmp!WriteEof, utmp!Go
  <1>8. CASE utmp!LogIn \/ utmp!LogOut
    <2>1. PICK k \in DOMAIN utmp_file :
             /\ at # "done"
             /\ written = utmp_file => written' = utmp_file'
             /\ stayed' = stayed \ {k}
             /\ UNCHANGED <<asked, offset, at>>
      BY <1>8, RecordPut, Zenon
    <2> QED BY <2>1
  <1>9. CASE utmp!Mark
    <2>1. /\ at = "logout" /\ at' = "done" /\ written' = written
          /\ utmp_file' = [utmp_file EXCEPT ![offset] = utmp!Dead]
          /\ UNCHANGED <<asked, stayed>>
      BY <1>9 DEF utmp!Mark, utmp!Go
    <2>2. \A k \in DOMAIN utmp_file : k = offset \/ utmp_file'[k] = written[k]
      BY <2>1
    <2>3. DOMAIN utmp_file' = DOMAIN utmp_file BY <2>1
    <2> QED BY <2>1, <2>2, <2>3
  <1> QED BY <1>1, <1>2, <1>3, <1>4, <1>5, <1>6, <1>7, <1>8, <1>9
          DEF utmp!Next

\* Every step keeps the list in the order of the file, and whole.
LEMMA ListKept ==
    ASSUME utmp!RecordsAssumption, RecordsTypes, MarkInv, ListInv,
           [utmp!Next]_(utmp!recordVars)
    PROVE  ListInv'
  <1>0. /\ offset \in Nat /\ Len(utmp_file) \in Nat
        /\ asked.command = "who" => ListedTo \in Nat
    BY FileLen DEF ListInv, ListedTo
  <1>1. CASE UNCHANGED utmp!recordVars
    BY <1>1 DEF utmp!recordVars, ListInv, ListedTo
  <1>2. CASE utmp!ReadRecord
    <2>1. /\ at = "read" /\ offset' = offset + 1
          /\ UNCHANGED <<asked, stayed, shown>>
          /\ at' \in {"read", asked.command}
          /\ asked.command = "who" /\ at' = "read" => offset' \notin stayed
      BY <1>2, RecordRead
    <2>2. CASE asked.command = "who"
      <3>1. Listing(shown, stayed, offset)
        BY <2>1, <2>2, <1>0 DEF ListInv, ListedTo
      <3>2. CASE at' = "who"
        BY <1>0, <2>1, <2>2, <3>1, <3>2 DEF ListInv, ListedTo
      <3>3. CASE at' = "read"
        <4>1. Listing(shown, stayed, offset + 1)
          BY <1>0, <2>1, <2>2, <3>1, <3>3, Passed
        <4> QED BY <1>0, <2>1, <2>2, <4>1, <3>3 DEF ListInv, ListedTo
      <3> QED BY <2>1, <2>2, <3>2, <3>3
    <2>3. CASE asked.command # "who"
      BY <2>1, <2>3 DEF ListInv, RecordsTypes
    <2> QED BY <2>2, <2>3
  <1>3. CASE utmp!EndOfFile
    BY <1>3, Zenon DEF utmp!EndOfFile, utmp!Go, ListInv, ListedTo
  <1>4. CASE utmp!show_info
    <2>1. /\ at = "who" /\ at' = "read" /\ shown' = Append(shown, offset)
          /\ UNCHANGED <<asked, utmp_file, offset, stayed>>
      BY <1>4 DEF utmp!show_info, utmp!Go
    <2>2. asked.command = "who" /\ Listing(shown, stayed, offset - 1)
          /\ offset - 1 \in Nat
      BY <1>0, <2>1 DEF RecordsTypes, ListInv, ListedTo
    <2> DEFINE p == offset - 1
    <2>3. p + 1 = offset /\ p \in Nat /\ Listing(shown, stayed, p)
      BY <1>0, <2>2
    <2> HIDE DEF p
    <2>4. Listing(shown', stayed, offset) BY <2>1, <2>3, Extended
    <2> QED BY <1>0, <2>1, <2>2, <2>4 DEF ListInv, ListedTo
  <1>5. CASE utmp!OpenTerminal \/ utmp!CopyLine \/ utmp!EndOfInput
                \/ utmp!WriteEof
    <2>1. /\ at # "who" /\ at' # "who"
          /\ UNCHANGED <<asked, stayed, shown, offset>>
      BY <1>5 DEF utmp!OpenTerminal, utmp!CopyLine, utmp!EndOfInput,
                  utmp!WriteEof, utmp!Go
    <2>2. asked.command # "who"
      BY <1>5, Zenon DEF utmp!OpenTerminal, utmp!CopyLine, utmp!EndOfInput,
                  utmp!WriteEof, RecordsTypes
    <2> QED BY <2>1, <2>2 DEF ListInv
  <1>8. CASE utmp!LogIn \/ utmp!LogOut
    <2>1. PICK k \in DOMAIN utmp_file :
             /\ at # "done"
             /\ stayed' = stayed \ {k}
             /\ UNCHANGED <<asked, offset, at, shown>>
      BY <1>8, RecordPut, Zenon
    <2>2. asked.command = "who" => Listing(shown, stayed', ListedTo)
      BY <1>0, <2>1, FewerHere DEF ListInv
    <2>3. ListedTo' = ListedTo BY <2>1 DEF ListedTo
    <2> QED BY <2>1, <2>2, <2>3 DEF ListInv
  <1>9. CASE utmp!Mark
    <2>1. asked.command = "logout" BY <1>9 DEF utmp!Mark, MarkInv
    <2> QED BY <1>9, <2>1 DEF utmp!Mark, utmp!Go, ListInv
  <1> QED BY <1>1, <1>2, <1>3, <1>4, <1>5, <1>8, <1>9 DEF utmp!Next

\* Every step keeps the users who stay from being passed.
LEMMA FindKept ==
    ASSUME utmp!RecordsAssumption, RecordsTypes, FindInv,
           [utmp!Next]_(utmp!recordVars)
    PROVE  FindInv'
  <1>0. \A k \in stayed : k \in 1 .. Len(utmp_file)
    BY FileLen, Zenon DEF RecordsTypes
  <1>1. CASE UNCHANGED utmp!recordVars
    BY <1>1, Zenon DEF utmp!recordVars, FindInv
  <1>2. CASE utmp!ReadRecord
    <2>1. /\ at = "read" /\ offset' = offset + 1
          /\ UNCHANGED <<asked, utmp_file, stayed>>
          /\ at' \in {"read", asked.command}
          /\ asked.command = "write" /\ at' = "read" =>
                (offset' \in asked.lines =>
                    utmp_file[offset'].name # asked.name)
      BY <1>2, RecordRead
    <2>2. at' # "not found" BY <2>1, Zenon DEF RecordsTypes
    <2>3. ASSUME at' = "read", asked.command = "write",
                 NEW k \in stayed \intersect asked.lines, k <= offset'
          PROVE  utmp_file[k].name # asked.name
      <3>1. k = offset' \/ k <= offset BY <1>0, <2>1, <2>3, FileLen
      <3> QED BY <2>1, <2>3, <3>1 DEF FindInv
    <2> QED BY <2>1, <2>2, <2>3, Zenon DEF FindInv
  <1>3. CASE utmp!EndOfFile
    BY <1>3, Zenon DEF utmp!EndOfFile, utmp!Go, FindInv
  <1>4. CASE utmp!show_info
    <2>1. at' = "read" /\ asked' = asked /\ asked.command # "write"
      BY <1>4 DEF utmp!show_info, utmp!Go, RecordsTypes
    <2> QED BY <2>1, Zenon DEF FindInv
  <1>5. CASE utmp!OpenTerminal \/ utmp!CopyLine \/ utmp!EndOfInput
                \/ utmp!WriteEof \/ utmp!Mark
    BY <1>5, Zenon DEF utmp!OpenTerminal, utmp!CopyLine, utmp!EndOfInput,
                utmp!WriteEof, utmp!Mark, utmp!Go, FindInv
  <1>6. CASE utmp!LogIn \/ utmp!LogOut
    <2>1. PICK k \in DOMAIN utmp_file :
             /\ at # "not found"
             /\ \A j \in DOMAIN utmp_file \ {k} : utmp_file'[j] = utmp_file[j]
             /\ stayed' = stayed \ {k}
             /\ UNCHANGED <<asked, offset, at>>
      BY <1>6, RecordPut, Zenon
    <2> QED BY <2>1, Zenon DEF FindInv, RecordsTypes
  <1> QED BY <1>1, <1>2, <1>3, <1>4, <1>5, <1>6 DEF utmp!Next

\* One packet more at a terminal.
LEMMA Sends ==
    ASSUME NEW list \in Seq(Packets), offset \in Nat, NEW said \in Int
    PROVE  LET longer == Append(list, [line |-> offset, text |-> said])
           IN  /\ longer \in Seq(Packets) /\ Len(longer) = Len(list) + 1
               /\ Sent(list) /\ said = Len(list) /\ Len(list) > 0 =>
                     Sent(longer)
               /\ list = <<>> /\ said = utmp!Message => Sent(longer)
               /\ Sent(list) /\ said = utmp!Eof /\ list # <<>> => Said(longer)
  <1> DEFINE packet == [line |-> offset, text |-> said]
             longer == Append(list, packet)
  <1>1. packet \in Packets /\ packet.line = offset /\ packet.text = said
    BY DEF Packets
  <1> HIDE DEF packet
  <1>2. /\ longer \in Seq(Packets) /\ Len(longer) = Len(list) + 1
        /\ Len(list) \in Nat
        /\ DOMAIN list = 1 .. Len(list)
        /\ DOMAIN longer = 1 .. Len(list) + 1
        /\ \A n \in 1 .. Len(list) : longer[n] = list[n]
        /\ longer[Len(list) + 1] = packet
        /\ list = <<>> <=> Len(list) = 0
    BY <1>1
  <1> HIDE DEF longer
  <1>3. Sent(list) /\ said = Len(list) /\ Len(list) > 0 => Sent(longer)
    BY <1>1, <1>2 DEF Sent
  <1>4. list = <<>> /\ said = utmp!Message => Sent(longer)
    BY <1>1, <1>2 DEF Sent
  <1>5. Sent(list) /\ said = utmp!Eof /\ list # <<>> => Said(longer)
    BY <1>1, <1>2 DEF Sent, Said
  <1> QED BY <1>2, <1>3, <1>4, <1>5 DEF longer, packet

\* Every step keeps what was sent whole and in order.
LEMMA SendKept ==
    ASSUME utmp!RecordsAssumption, RecordsTypes, SendInv,
           [utmp!Next]_(utmp!recordVars)
    PROVE  SendInv'
  <1>0. /\ offset \in Nat /\ received \in Seq(Packets)
        /\ received = <<>> <=> Len(received) = 0
    <2>1. offset \in Nat /\ received \in Seq(Packets)
      BY FileLen, Zenon DEF SendInv
    <2>2. received = <<>> <=> Len(received) = 0 BY ONLY <2>1
    <2> QED BY <2>1, <2>2
  <1>1. CASE UNCHANGED utmp!recordVars
    BY <1>1, Zenon DEF utmp!recordVars, SendInv, Sent, Said
  <1>2. CASE utmp!ReadRecord
    <2>1. /\ at = "read"
          /\ UNCHANGED <<asked, received, typed>>
          /\ at' \in {"read", "who", "logout", "write"}
          /\ at' = "write" => offset' \in asked.lines
      BY <1>2, RecordRead, Zenon DEF RecordsTypes
    <2> QED BY <2>1 DEF SendInv
  <1>3. CASE utmp!EndOfFile \/ utmp!show_info \/ utmp!Mark
    <2>1. /\ at \in {"read", "who", "logout"}
          /\ at' \in {"read", "not found", "done"}
          /\ UNCHANGED <<received, typed>>
      BY <1>3, Zenon DEF utmp!EndOfFile, utmp!show_info, utmp!Mark, utmp!Go
    <2>2. received = <<>> /\ received' = <<>> BY <2>1, Zenon DEF SendInv
    <2>3. Said(<<>>)' BY DEF Said
    <2> QED BY <2>1, <2>2, <2>3, Zenon DEF SendInv
  <1>4. CASE utmp!OpenTerminal
    <2> DEFINE longer == Append(received, [line |-> offset,
                                           text |-> utmp!Message])
    <2>1. /\ at = "write" /\ UNCHANGED <<asked, offset, typed>>
          /\ \/ at' = "copy" /\ received' = longer
             \/ at' = "failed" /\ received' = received
      BY <1>4 DEF utmp!OpenTerminal, utmp!Send, utmp!Go
    <2>2. received = <<>> /\ offset \in asked.lines BY <2>1 DEF SendInv
    <2>3. longer \in Seq(Packets) /\ Len(longer) = 1 /\ Sent(longer)
      <3>1. utmp!Message \in Int BY DEF utmp!Message
      <3>2. Len(received) = 0 BY <1>0, <2>2
      <3>3. /\ longer \in Seq(Packets) /\ Len(longer) = Len(received) + 1
            /\ received = <<>> => Sent(longer)
        BY <1>0, <3>1, Sends
      <3> QED BY <2>2, <3>2, <3>3
    <2> HIDE DEF longer
    <2>4. CASE at' = "failed"
      BY <2>1, <2>2, <2>4 DEF SendInv
    <2>5. CASE at' = "copy" /\ received' = longer
      <3>1. typed = 0 BY <2>1, <2>5 DEF SendInv
      <3>2. Sent(received)' BY <2>1, <2>3, <2>5 DEF Sent
      <3> QED BY <2>1, <2>2, <2>3, <2>5, <3>1, <3>2 DEF SendInv
    <2> QED BY <2>1, <2>4, <2>5
  <1>5. CASE utmp!CopyLine
    <2> DEFINE longer == Append(received, [line |-> offset,
                                           text |-> typed + 1])
    <2>1. /\ at = "copy" /\ UNCHANGED <<asked, offset>> /\ typed' = typed + 1
          /\ \/ at' = "copy" /\ received' = longer
             \/ at' = "eof" /\ received' = received
      BY <1>5 DEF utmp!CopyLine, utmp!Send, utmp!Go
    <2>2. /\ typed \in Nat /\ Sent(received) /\ Len(received) = typed + 1
          /\ offset \in asked.lines
      BY <2>1 DEF SendInv
    <2>3. /\ longer \in Seq(Packets) /\ Len(longer) = typed + 2
          /\ Sent(longer)
      <3>1. typed + 1 \in Int /\ typed + 1 = Len(received) /\ Len(received) > 0
        BY <2>2
      <3> QED BY <1>0, <2>2, <3>1, Sends
    <2> HIDE DEF longer
    <2>4. CASE at' = "eof" /\ received' = received
      <3>1. Sent(received)' BY <2>1, <2>2, <2>4 DEF Sent
      <3> QED BY <1>0, <2>1, <2>2, <2>4, <3>1 DEF SendInv
    <2>5. CASE at' = "copy" /\ received' = longer
      <3>1. Sent(received)' BY <2>1, <2>3, <2>5 DEF Sent
      <3> QED BY <2>1, <2>2, <2>3, <2>5, <3>1 DEF SendInv
    <2> QED BY <2>1, <2>4, <2>5
  <1>7. CASE utmp!EndOfInput
    <2>1. /\ at = "copy" /\ at' = "eof"
          /\ UNCHANGED <<asked, offset, typed, received>>
      BY <1>7 DEF utmp!EndOfInput, utmp!Go
    <2>2. Sent(received)' BY <2>1 DEF SendInv, Sent
    <2>3. received # <<>> BY <1>0, <2>1 DEF SendInv
    <2> QED BY <2>1, <2>2, <2>3 DEF SendInv
  <1>8. CASE utmp!WriteEof
    <2> DEFINE longer == Append(received, [line |-> offset,
                                           text |-> utmp!Eof])
    <2>1. /\ at = "eof" /\ at' = "done"
          /\ UNCHANGED <<asked, offset, typed>>
          /\ received' = longer \/ received' = received
      BY <1>8 DEF utmp!WriteEof, utmp!Send, utmp!Go
    <2>2. Sent(received) /\ received # <<>> /\ offset \in asked.lines
      BY <2>1 DEF SendInv
    <2>3. longer \in Seq(Packets) /\ Said(longer)
      <3>1. utmp!Eof \in Int BY DEF utmp!Eof
      <3> QED BY <1>0, <2>2, <3>1, Sends
    <2> HIDE DEF longer
    <2>4. Said(received)' BY <2>1, <2>2, <2>3 DEF Said, Sent
    <2>5. received' \in Seq(Packets) BY <1>0, <2>1, <2>3
    <2> QED BY <2>1, <2>2, <2>4, <2>5 DEF SendInv
  <1>6. CASE utmp!LogIn \/ utmp!LogOut
    <2>1. UNCHANGED <<asked, offset, at, typed, received>>
      BY <1>6, RecordPut, Zenon
    <2> QED BY <2>1, Zenon DEF SendInv, Sent, Said
  <1> QED BY <1>1, <1>2, <1>3, <1>4, <1>5, <1>6, <1>7, <1>8 DEF utmp!Next

\* Every step keeps the invariant of the three programs.
LEMMA RecordsKept ==
    ASSUME utmp!RecordsAssumption, RecordsInv, [utmp!Next]_(utmp!recordVars)
    PROVE  RecordsInv'
  BY TypesKept, MarkKept, ListKept, FindKept, SendKept DEF RecordsInv

-----------------------------------------------------------------------------
(* ls_copy_v1 to ls_copy_v3 and ls_fts *)

\* A listing may only be started.
Idle == fresh
\* Version 2 looks entries up in the working directory.
Own == version = "v2" => dir = "here"
\* The entry of the directory that is read is on a line.
Listed(name) == \E l \in listed : l.dir = dir /\ l.name = name

\* A directory is read once; what has been there since it was opened is there
\* now, and what was returned has been there.
DirsInv ==
    /\ entries \in [ls_copy!Dirs -> SUBSET Names]
    /\ children \in [names : SUBSET Names, FTS_NS : SUBSET Names]
    /\ args \subseteq ls_copy!Dirs /\ dir \in ls_copy!Dirs \union {"none"}
    /\ dir \notin args
    /\ ~Idle => dir \in ls_copy!Dirs
    /\ Idle => entry = {}
    /\ entry \subseteq returned
    /\ dir \in ls_copy!Dirs =>
          /\ since \subseteq entries[dir] /\ entries[dir] \subseteq seen
          /\ returned \subseteq seen
    /\ version = "fts" => entry = {}
    /\ version = "fts" /\ ~Idle /\ outcome = "none" /\ returned # {} =>
          children.names = returned /\ since \subseteq returned

\* What was returned and stayed is on a line or about to be, and a line is one
\* of an entry that has been there, with its own status.
LinesInv ==
    /\ \A l \in listed : l.dir \in ls_copy!Dirs \ args
    /\ Own => \A l \in listed :
                 l.dir = dir => l.name \in seen /\ l.of \in {dir, "name only"}
    /\ Own /\ version # "fts" /\ dir \in ls_copy!Dirs =>
          \A name \in since \intersect returned :
             name \in entry \/ Listed(name)
    /\ outcome = "complete" =>
          Idle /\ (Own => \A name \in since : Listed(name))

\* The invariant of ls, in each version.
LsInv == DirsInv /\ LinesInv

\* It implies the property.
LEMMA LsSafe == LsInv => ls_copy!ListingIsTrue
  BY Zenon DEF LsInv, LinesInv, Own, Listed, ls_copy!ListingIsTrue

\* ls starts in its invariant.
LEMMA LsInit == ls_copy!Init => LsInv
  <1> SUFFICES ASSUME ls_copy!Init PROVE LsInv
    OBVIOUS
  <1>1. Idle BY Zenon DEF ls_copy!Init, Idle
  <1>2. /\ args \subseteq ls_copy!Dirs /\ dir = "none"
        /\ entries \in [ls_copy!Dirs -> SUBSET Names]
        /\ children \in [names : SUBSET Names, FTS_NS : SUBSET Names]
        /\ returned = {} /\ entry = {} /\ listed = {} /\ outcome = "none"
    <2>1. args \subseteq ls_copy!Dirs BY DEF ls_copy!Init, ls_copy!Dirs
    <2>3. children \in [names : SUBSET Names, FTS_NS : SUBSET Names]
      BY DEF ls_copy!Init
    <2>2. /\ dir = "none" /\ entries \in [ls_copy!Dirs -> SUBSET Names]
          /\ returned = {} /\ entry = {} /\ listed = {} /\ outcome = "none"
      BY Zenon DEF ls_copy!Init
    <2> QED BY <2>1, <2>2, <2>3
  <1> QED BY <1>1, <1>2 DEF LsInv, DirsInv, LinesInv, ls_copy!Dirs

\* Somebody creates or removes an entry of some directory.
LEMMA LsChanges ==
    ASSUME LsInv, NEW d \in ls_copy!Dirs, NEW name \in Names,
           ls_copy!Change(d, name)
    PROVE  LsInv'
  <1> DEFINE now == IF name \in entries[d] THEN entries[d] \ {name}
                    ELSE entries[d] \union {name}
  <1>1. /\ entries' = [entries EXCEPT ![d] = now]
        /\ since' = IF d = dir THEN since \intersect now ELSE since
        /\ seen' = IF d = dir THEN seen \union now ELSE seen
        /\ UNCHANGED <<version, args, dir, returned, entry, children, listed,
                       outcome>>
    BY DEF ls_copy!Change
  <1>2. Idle' <=> Idle BY DEF ls_copy!Change, Idle
  <1>3. /\ entries' \in [ls_copy!Dirs -> SUBSET Names]
        /\ dir \in ls_copy!Dirs =>
              since' \subseteq entries'[dir] /\ entries'[dir] \subseteq seen'
        /\ since' \subseteq since /\ seen \subseteq seen'
    BY <1>1 DEF LsInv, DirsInv
  <1> HIDE DEF now
  <1>4. DirsInv' BY <1>1, <1>2, <1>3 DEF LsInv, DirsInv
  <1>5. LinesInv'
    BY <1>1, <1>2, <1>3, Zenon DEF LsInv, LinesInv, Own, Listed
  <1> QED BY <1>4, <1>5 DEF LsInv

\* A directory is opened, or cannot be.
LEMMA LsOpens ==
    ASSUME LsInv, NEW d \in ls_copy!Dirs,
           ls_copy!OpenDir(d) \/ ls_copy!CannotOpen(d)
    PROVE  LsInv'
  <1>1. CASE ls_copy!OpenDir(d)
    <2>1. /\ d \in args /\ args' = args \ {d} /\ dir' = d
          /\ since' = entries[d] /\ seen' = entries[d]
          /\ returned' = {} /\ outcome' = "none"
          /\ UNCHANGED <<version, entries, entry, children, listed>>
      BY <1>1 DEF ls_copy!OpenDir
    <2>2. Idle /\ ~Idle' BY <1>1, Zenon DEF ls_copy!OpenDir, Idle
    <2>3. DirsInv' BY <2>1, <2>2 DEF LsInv, DirsInv
    <2>4. \A l \in listed' : l.dir \in ls_copy!Dirs \ args' /\ l.dir # dir'
      BY <2>1, Zenon DEF LsInv, LinesInv
    <2>5. LinesInv' BY <2>1, <2>4, Zenon DEF LinesInv
    <2> QED BY <2>3, <2>5 DEF LsInv
  <1>2. CASE ls_copy!CannotOpen(d)
    <2>1. /\ d \in args /\ args' = args \ {d} /\ dir' = "none"
          /\ outcome' = "none"
          /\ UNCHANGED <<version, entries, since, seen, returned, entry,
                         children, listed>>
      BY <1>2 DEF ls_copy!CannotOpen
    <2>2. Idle /\ Idle' BY <1>2, Zenon DEF ls_copy!CannotOpen, Idle
    <2>3. "none" \notin ls_copy!Dirs BY DEF ls_copy!Dirs
    <2>4. DirsInv' BY <2>1, <2>2, <2>3 DEF LsInv, DirsInv
    <2>5. \A l \in listed' : l.dir \in ls_copy!Dirs \ args' /\ l.dir # dir'
      BY <2>1, <2>3, Zenon DEF LsInv, LinesInv
    <2>6. LinesInv' BY <2>1, <2>3, <2>5, Zenon DEF LinesInv
    <2> QED BY <2>4, <2>6 DEF LsInv
  <1> QED BY <1>1, <1>2

\* readdir returns an entry that is there.
LEMMA LsReads ==
    ASSUME LsInv, ls_copy!readdir
    PROVE  LsInv'
  <1>1. PICK name \in seen \ returned :
           /\ returned' = returned \union {name}
           /\ \/ entry' = {name} /\ listed' = listed
              \/ /\ listed' = listed \union {ls_copy!Line(name, "name only")}
                 /\ entry' = entry
    BY Zenon DEF ls_copy!readdir
  <1>2. /\ version # "fts" /\ entry = {}
        /\ UNCHANGED <<version, args, dir, entries, since, seen, children,
                       outcome>>
    BY Zenon DEF ls_copy!readdir
  <1>3. ~Idle /\ (Idle' <=> Idle) BY Zenon DEF ls_copy!readdir, Idle
  <1>4. DirsInv' BY <1>1, <1>2, <1>3, Zenon DEF LsInv, DirsInv
  <1> DEFINE line == ls_copy!Line(name, "name only")
  <1>5. /\ line.dir = dir /\ line.name = name
        /\ line.of = "name only"
    BY DEF ls_copy!Line
  <1> HIDE DEF line
  <1>6. dir \in ls_copy!Dirs \ args BY <1>3 DEF LsInv, DirsInv
  <1>7. \A l \in listed' : l \in listed \/ l = line BY <1>1, Zenon DEF line
  <1>8. outcome # "complete" BY <1>3, Zenon DEF LsInv, LinesInv
  <1>9. \A l \in listed' : l.dir \in ls_copy!Dirs \ args'
    BY <1>2, <1>5, <1>6, <1>7, Zenon DEF LsInv, LinesInv
  <1>10. Own' => \A l \in listed' :
            l.dir = dir' => l.name \in seen' /\ l.of \in {dir', "name only"}
    BY <1>2, <1>5, <1>7, Zenon DEF LsInv, LinesInv, Own
  <1>11. ASSUME Own', NEW n \in since' \intersect returned'
         PROVE  n \in entry' \/ Listed(n)'
    <2>1. CASE n = name
      BY <1>1, <1>2, <1>5, <2>1, Zenon DEF Listed, line
    <2>2. CASE n \in returned
      <3>1. Listed(n) BY <1>2, <1>6, <1>11, <2>2, Zenon DEF LsInv, LinesInv, Own
      <3> QED BY <1>1, <1>2, <3>1, Zenon DEF Listed
    <2> QED BY <1>1, <1>11, <2>1, <2>2, Zenon
  <1>12. LinesInv' BY <1>2, <1>8, <1>9, <1>10, <1>11, Zenon DEF LinesInv
  <1> QED BY <1>4, <1>12 DEF LsInv

\* lstat looks the entry up, which may be gone, or another one.
LEMMA LsLooks ==
    ASSUME LsInv, ls_copy!lstat
    PROVE  LsInv'
  <1> DEFINE there == ls_copy!LookedUpIn
             lines == {ls_copy!Line(name, there) :
                          name \in entry \intersect entries[there]}
  <1>1. /\ entry # {} /\ entry' = {} /\ listed' = listed \union lines
        /\ UNCHANGED <<version, args, dir, entries, since, seen, returned,
                       children, outcome>>
    BY DEF ls_copy!lstat
  <1>2. ~Idle /\ (Idle' <=> Idle)
    <2>1. Idle' <=> Idle BY DEF ls_copy!lstat, Idle
    <2> QED BY <1>1, <2>1 DEF LsInv, DirsInv
  <1>3. DirsInv' BY <1>1, <1>2 DEF LsInv, DirsInv
  <1>4. /\ version # "fts" /\ outcome # "complete"
        /\ dir \in ls_copy!Dirs \ args
        /\ entry \subseteq seen
    BY <1>1, <1>2, Zenon DEF LsInv, DirsInv, LinesInv
  <1>5. Own => there = dir BY DEF Own, ls_copy!LookedUpIn
  <1> HIDE DEF there
  <1>6. \A l \in lines : l.dir = dir /\ l.name \in entry /\ l.of = there
    BY DEF ls_copy!Line
  <1>7. \A name \in entry \intersect entries[there] :
           \E l \in lines : l.dir = dir /\ l.name = name
    <2> TAKE name \in entry \intersect entries[there]
    <2> DEFINE l == ls_copy!Line(name, there)
    <2>1. l.dir = dir /\ l.name = name BY DEF ls_copy!Line
    <2>2. l \in lines OBVIOUS
    <2> QED BY <2>1, <2>2
  <1> HIDE DEF lines
  <1>8. \A l \in listed' : l.dir \in ls_copy!Dirs \ args'
    BY <1>1, <1>4, <1>6, Zenon DEF LsInv, LinesInv
  <1>9. Own' => \A l \in listed' :
            l.dir = dir' => l.name \in seen' /\ l.of \in {dir', "name only"}
    BY <1>1, <1>4, <1>5, <1>6, Zenon DEF LsInv, LinesInv, Own
  <1>10. ASSUME Own', NEW n \in since' \intersect returned'
         PROVE  Listed(n)'
    <2>1. Own /\ n \in since /\ n \in returned BY <1>1, <1>10 DEF Own
    <2>2. CASE n \in entry
      <3>1. n \in entries[there] BY <1>4, <1>5, <2>1 DEF LsInv, DirsInv
      <3>2. PICK l \in lines : l.dir = dir /\ l.name = n BY <1>7, <2>2, <3>1
      <3> QED BY <1>1, <3>2 DEF Listed
    <2>3. CASE n \notin entry
      <3>1. Listed(n) BY <1>4, <2>1, <2>3, Zenon DEF LsInv, LinesInv
      <3> QED BY <1>1, <3>1 DEF Listed
    <2> QED BY <2>2, <2>3
  <1>11. LinesInv' BY <1>1, <1>4, <1>8, <1>9, <1>10, Zenon DEF LinesInv
  <1> QED BY <1>3, <1>11 DEF LsInv

\* The directory has come to its end.
LEMMA LsEnds ==
    ASSUME LsInv, ls_copy!EndOfDirectory
    PROVE  LsInv'
  <1>1. /\ version # "fts" /\ entry = {} /\ since \subseteq returned
        /\ outcome' = "complete"
        /\ UNCHANGED <<version, args, dir, entries, since, seen, returned,
                       entry, children, listed>>
    BY DEF ls_copy!EndOfDirectory
  <1>2. ~Idle /\ Idle' BY Zenon DEF ls_copy!EndOfDirectory, Idle
  <1>3. dir \in ls_copy!Dirs BY <1>2 DEF LsInv, DirsInv
  <1>4. DirsInv' BY <1>1, <1>2, <1>3 DEF LsInv, DirsInv
  <1>5. LinesInv' BY <1>1, <1>2, <1>3, Zenon DEF LsInv, LinesInv, Own, Listed
  <1> QED BY <1>4, <1>5 DEF LsInv

\* fts reads the whole directory at once.
LEMMA LsReadsNames ==
    ASSUME LsInv, ls_copy!ReadNames
    PROVE  LsInv'
  <1>1. /\ version = "fts" /\ outcome = "none" /\ returned = {}
        /\ returned' = entries[dir]
        /\ children' = [children EXCEPT !.names = entries[dir]]
        /\ outcome' = IF entries[dir] = {} THEN "complete" ELSE "none"
        /\ UNCHANGED <<version, args, dir, entries, since, seen, entry,
                       listed>>
    BY DEF ls_copy!ReadNames
  <1>2. ~Idle /\ (entries[dir] = {} => Idle') /\ (entries[dir] # {} => ~Idle')
    BY Zenon DEF ls_copy!ReadNames, Idle
  <1>3. dir \in ls_copy!Dirs BY <1>2 DEF LsInv, DirsInv
  <1>4. entries[dir] \subseteq Names /\ since \subseteq entries[dir]
        /\ entries[dir] \subseteq seen
    BY <1>3 DEF LsInv, DirsInv
  <1>5. /\ children' \in [names : SUBSET Names, FTS_NS : SUBSET Names]
        /\ children'.names = entries[dir]
    BY <1>1, <1>4 DEF LsInv, DirsInv
  <1>6. DirsInv' BY <1>1, <1>2, <1>3, <1>4, <1>5 DEF LsInv, DirsInv
  <1>7. LinesInv'
    BY <1>1, <1>2, <1>3, <1>4, Zenon DEF LsInv, LinesInv, Own, Listed
  <1> QED BY <1>6, <1>7 DEF LsInv

\* fts prints what it has read.
LEMMA LsPrints ==
    ASSUME LsInv, ls_copy!PrintChildren
    PROVE  LsInv'
  <1> DEFINE where == IF long THEN dir ELSE "name only"
             lines(printed) == {ls_copy!Line(name, where) : name \in printed}
             gone == children.names \ entries[dir]
  <1>1. /\ version = "fts" /\ outcome = "none" /\ returned # {}
        /\ children' = [children EXCEPT !.FTS_NS = gone]
        /\ \/ /\ gone = {} /\ listed' = lines(children.names)
              /\ outcome' = "complete"
           \/ /\ \E before \in SUBSET (children.names \ gone) :
                    listed' = lines(before)
              /\ outcome' = "spinning"
        /\ UNCHANGED <<version, args, dir, entries, since, seen, returned,
                       entry>>
    BY Zenon DEF ls_copy!PrintChildren
  <1>2. /\ ~Idle /\ (outcome' = "complete" => Idle')
        /\ outcome' = "spinning" => ~Idle'
    <2>1. CASE gone = {}
      BY <2>1, Zenon DEF ls_copy!PrintChildren, Idle
    <2>2. CASE gone # {}
      BY <2>2, Zenon DEF ls_copy!PrintChildren, Idle
    <2> QED BY <2>1, <2>2
  <1>3. /\ dir \in ls_copy!Dirs \ args /\ children.names = returned
        /\ since \subseteq returned /\ returned \subseteq seen
        /\ gone \subseteq Names
        /\ children \in [names : SUBSET Names, FTS_NS : SUBSET Names]
    BY <1>1, <1>2, Zenon DEF LsInv, DirsInv
  <1>4. where \in {dir, "name only"} OBVIOUS
  <1>5. children' \in [names : SUBSET Names, FTS_NS : SUBSET Names]
    BY <1>1, <1>3, Zenon
  <1> HIDE DEF where, gone
  <1>6. DirsInv'
    BY <1>1, <1>2, <1>3, <1>5 DEF LsInv, DirsInv
  <1>7. \A printed : \A l \in lines(printed) :
           l.dir = dir /\ l.name \in printed /\ l.of = where
    BY DEF ls_copy!Line
  <1>8. \A name \in children.names : \E l \in lines(children.names) :
           l.dir = dir /\ l.name = name
    <2> TAKE name \in children.names
    <2> DEFINE l == ls_copy!Line(name, where)
    <2>1. l.dir = dir /\ l.name = name BY DEF ls_copy!Line
    <2>2. l \in lines(children.names) OBVIOUS
    <2> QED BY <2>1, <2>2
  <1> HIDE DEF lines
  <1>9. \A l \in listed' :
           l.dir = dir /\ l.name \in seen /\ l.of \in {dir, "name only"}
    <2>1. \E printed \in SUBSET children.names : listed' = lines(printed)
      <3>1. children.names \in SUBSET children.names OBVIOUS
      <3>2. \A before \in SUBSET (children.names \ gone) :
               before \in SUBSET children.names
        OBVIOUS
      <3> QED BY <1>1, <3>1, <3>2, Zenon
    <2>2. PICK printed \in SUBSET children.names : listed' = lines(printed)
      BY <2>1, Zenon
    <2>3. printed \subseteq seen BY <1>3
    <2>4. \A l \in listed' : l.dir = dir /\ l.name \in printed /\ l.of = where
      BY <1>7, <2>2, Zenon
    <2> QED BY <1>4, <2>3, <2>4, Zenon
  <1>10. outcome' = "complete" =>
            \A name \in since : \E l \in listed' : l.dir = dir /\ l.name = name
    BY <1>1, <1>3, <1>8
  <1>11. LinesInv'
    BY <1>1, <1>2, <1>3, <1>9, <1>10, Zenon DEF LinesInv, Listed
  <1> QED BY <1>6, <1>11 DEF LsInv

\* Every step keeps the invariant of ls.
LEMMA LsKept ==
    ASSUME LsInv, [ls_copy!Next]_(ls_copy!lsVars)
    PROVE  LsInv'
  <1>1. CASE UNCHANGED ls_copy!lsVars
    <2>1. /\ UNCHANGED <<version, args, dir, entries, since, seen, returned,
                         entry, children, listed, outcome>>
          /\ Idle' <=> Idle
      BY <1>1 DEF ls_copy!lsVars, Idle
    <2> QED BY <2>1, Zenon DEF LsInv, DirsInv, LinesInv, Own, Listed
  <1>2. CASE \E d \in ls_copy!Dirs :
                ls_copy!OpenDir(d) \/ ls_copy!CannotOpen(d)
    BY <1>2, LsOpens
  <1>3. CASE \E d \in ls_copy!Dirs, name \in Names : ls_copy!Change(d, name)
    BY <1>3, LsChanges
  <1> QED BY <1>1, <1>2, <1>3, LsReads, LsLooks, LsEnds, LsReadsNames, LsPrints
          DEF ls_copy!Next

-----------------------------------------------------------------------------
(* Types *)

\* The cell that main works on is one of the buffer's.
LEMMA WhoTypesInit ==
    who_copy!UtmpAssumption /\ who_copy!Init => record_ptr \in who_copy!Cells
  BY DEF who_copy!UtmpAssumption, who_copy!Init, who_copy!Cells
\* It stays one.
LEMMA WhoTypesKept ==
    ASSUME who_copy!UtmpAssumption, WhoInv, record_ptr \in who_copy!Cells,
           [who_copy!Next]_(who_copy!utmpVars)
    PROVE  record_ptr' \in who_copy!Cells
  <1>0. /\ NUM_RECORDS \in Nat /\ NUM_RECORDS > 0 /\ Len(utmp_file) \in Nat
        /\ offset \in Nat /\ current_record \in Nat
        /\ number_of_recs_in_buffer \in Nat
        /\ current_record <= number_of_recs_in_buffer
        /\ number_of_recs_in_buffer <= NUM_RECORDS
    BY DEF who_copy!UtmpAssumption, WhoInv
  <1> USE DEF who_copy!Cells
  <1>1. CASE UNCHANGED who_copy!utmpVars BY <1>1 DEF who_copy!utmpVars
  <1>2. CASE who_copy!NextInBuffer
    BY <1>0, <1>2 DEF who_copy!NextInBuffer, who_copy!TakeRecord
  <1>3. CASE who_copy!utmp_fill
    BY <1>0, <1>3 DEF who_copy!utmp_fill, who_copy!TakeRecord
  <1>4. CASE who_copy!show_info BY <1>4 DEF who_copy!show_info
  <1>5. CASE who_copy!LogIn \/ who_copy!LogOut
    BY <1>5 DEF who_copy!LogIn, who_copy!LogOut
  <1> QED
    BY <1>1, <1>2, <1>3, <1>4, <1>5 DEF who_copy!Next, who_copy!next_utmp

\* The types of the programs that take records one by one.
LEMMA RecordsTypesInit ==
    utmp!RecordsAssumption /\ utmp!Init => utmp!RecordsTypeOK
  <1> SUFFICES ASSUME utmp!RecordsAssumption, utmp!Init
               PROVE  utmp!RecordsTypeOK
    OBVIOUS
  <1>1. RecordsInv BY RecordsInit
  <1>2. /\ asked \in utmp!Commands /\ ut_buffer = utmp!Dead /\ typed = 0
        /\ written = utmp_file
    BY DEF utmp!Init
  <1>3. utmp!Dead \in utmp!Record BY DEF utmp!Dead, utmp!Record
  <1>4. MaxTyped \in Nat BY DEF utmp!RecordsAssumption
  <1>5. utmp_file \in Seq(utmp!Record) /\ offset \in 0 .. Len(utmp_file)
    BY <1>1, Zenon DEF RecordsInv, RecordsTypes
  <1> QED BY <1>2, <1>3, <1>4, <1>5 DEF utmp!RecordsTypeOK

\* Every step keeps them.
LEMMA RecordsTypesKept ==
    ASSUME utmp!RecordsAssumption, RecordsInv, utmp!RecordsTypeOK,
           [utmp!Next]_(utmp!recordVars)
    PROVE  utmp!RecordsTypeOK'
  <1>0. /\ asked \in utmp!Commands /\ utmp_file \in Seq(utmp!Record)
        /\ DOMAIN written = DOMAIN utmp_file /\ ut_buffer \in utmp!Record
        /\ typed \in 0 .. MaxTyped /\ MaxTyped \in Nat
        /\ offset \in 0 .. Len(utmp_file)
    BY DEF utmp!RecordsTypeOK, utmp!RecordsAssumption
  <1>a. RecordsInv' BY RecordsKept
  <1>b. utmp_file' \in Seq(utmp!Record) /\ offset' \in 0 .. Len(utmp_file')
    BY <1>a DEF RecordsInv, RecordsTypes
  <1>s. ASSUME asked' = asked, DOMAIN written' = DOMAIN utmp_file',
               ut_buffer' \in utmp!Record, typed' \in 0 .. MaxTyped
        PROVE  utmp!RecordsTypeOK'
    BY <1>0, <1>b, <1>s
       DEF utmp!RecordsTypeOK, utmp!Commands, utmp!Record, utmp!Terminals
  <1>1. CASE UNCHANGED utmp!recordVars
    BY <1>0, <1>1, <1>s DEF utmp!recordVars
  <1>2. CASE utmp!ReadRecord
    <2>1. /\ ut_buffer' = utmp_file[offset + 1] /\ offset < Len(utmp_file)
          /\ UNCHANGED <<asked, written, utmp_file, typed>>
      BY <1>2 DEF utmp!ReadRecord, utmp!Go
    <2>2. ut_buffer' \in utmp!Record BY <1>0, <2>1
    <2> QED BY <1>0, <1>s, <2>1, <2>2
  <1>3. CASE utmp!EndOfFile \/ utmp!show_info
    BY <1>0, <1>3, <1>s DEF utmp!EndOfFile, utmp!show_info, utmp!Go
  <1>4. CASE utmp!Mark
    <2>1. /\ utmp_file' = [utmp_file EXCEPT ![offset] = utmp!Dead]
          /\ UNCHANGED <<asked, written, ut_buffer, typed>>
      BY <1>4 DEF utmp!Mark, utmp!Go
    <2>2. DOMAIN utmp_file' = DOMAIN utmp_file BY <2>1
    <2> QED BY <1>0, <1>s, <2>1, <2>2
  <1>5. CASE utmp!OpenTerminal \/ utmp!EndOfInput \/ utmp!WriteEof
    BY <1>0, <1>5, <1>s
       DEF utmp!OpenTerminal, utmp!EndOfInput, utmp!WriteEof, utmp!Go
  <1>6. CASE utmp!CopyLine
    <2>1. /\ typed < MaxTyped /\ typed' = typed + 1
          /\ UNCHANGED <<asked, written, utmp_file, ut_buffer>>
      BY <1>6 DEF utmp!CopyLine, utmp!Go
    <2> QED BY <1>0, <1>s, <2>1
  <1>7. ASSUME NEW k, NEW record, utmp!Put(k, record)
        PROVE  utmp!RecordsTypeOK'
    <2>1. /\ utmp_file' = [utmp_file EXCEPT ![k] = record]
          /\ written' = [written EXCEPT ![k] = record]
          /\ UNCHANGED <<asked, ut_buffer, typed>>
      BY <1>7 DEF utmp!Put
    <2>2. DOMAIN utmp_file' = DOMAIN utmp_file
          /\ DOMAIN written' = DOMAIN written
      BY <2>1
    <2> QED BY <1>0, <1>s, <2>1, <2>2
  <1>8. CASE utmp!LogIn \/ utmp!LogOut
    BY <1>7, <1>8, Zenon DEF utmp!LogIn, utmp!LogOut
  <1> QED
    BY <1>1, <1>2, <1>3, <1>4, <1>5, <1>6, <1>8 DEF utmp!Next

\* The types of more_copy.
LEMMA MoreTypesInit ==
    more_copy!MoreAssumption /\ more_copy!Init => more_copy!MoreTypeOK
  BY DEF more_copy!MoreAssumption, more_copy!Init, more_copy!MoreTypeOK

\* Every step keeps them.
LEMMA MoreTypesKept ==
    ASSUME more_copy!MoreAssumption, MoreInv, more_copy!MoreTypeOK,
           [more_copy!Next]_(more_copy!moreVars)
    PROVE  more_copy!MoreTypeOK'
  <1>0. /\ i \in 0 .. NumFiles /\ more \in {"open", "read", "ask", "show"}
        /\ file_lines \in Nat /\ NumFiles \in Nat /\ FileLengths \subseteq Nat
    BY DEF more_copy!MoreTypeOK, more_copy!MoreAssumption
  <1>a. num_of_lines' \in Int
    <2>1. MoreInv' BY MoreKept
    <2> QED BY <2>1 DEF MoreInv
  <1>s. ASSUME i' \in 0 .. NumFiles, file_lines' \in Nat,
               more' \in {"open", "read", "ask", "show"}
        PROVE  more_copy!MoreTypeOK'
    BY <1>a, <1>s DEF more_copy!MoreTypeOK
  <1>1. CASE UNCHANGED more_copy!moreVars
    BY <1>0, <1>1, <1>s DEF more_copy!moreVars
  <1>2. CASE more_copy!OpenFile \/ more_copy!SkipFile
    <2>1. i < NumFiles /\ i' = i + 1
      BY <1>2, Zenon DEF more_copy!OpenFile, more_copy!SkipFile
    <2>2. \/ file_lines' \in FileLengths /\ more' = "read"
          \/ file_lines' = file_lines /\ more' = more
      BY <1>2, Zenon DEF more_copy!OpenFile, more_copy!SkipFile
    <2>3. i' \in 0 .. NumFiles BY <1>0, <2>1
    <2>4. file_lines' \in Nat /\ more' \in {"open", "read", "ask", "show"}
      BY <1>0, <2>2
    <2> QED BY <1>s, <2>3, <2>4, Zenon
  <1>3. CASE more_copy!ReadLine
    BY <1>0, <1>3, <1>s DEF more_copy!ReadLine
  <1>4. CASE more_copy!ShowLine \/ more_copy!EndOfFile
    BY <1>0, <1>4, <1>s DEF more_copy!ShowLine, more_copy!EndOfFile
  <1>5. CASE more_copy!FillStream \/ more_copy!EndOfInput
    BY <1>0, <1>5, <1>s DEF more_copy!FillStream, more_copy!EndOfInput
  <1>6. CASE more_copy!Reply
    <2>1. UNCHANGED <<i, file_lines>> /\ more' \in {"ask", "show"}
      BY <1>6, Zenon DEF more_copy!Reply
    <2> QED BY <1>0, <1>s, <2>1
  <1>7. CASE more_copy!TypeReply \/ more_copy!HangUp
    BY <1>0, <1>7, <1>s DEF more_copy!TypeReply, more_copy!HangUp
  <1> QED
    BY <1>1, <1>2, <1>3, <1>4, <1>5, <1>6, <1>7 DEF more_copy!Next

\* Where main of du_copy_v1 is.
DuPlaces == {"between", "begin", "walk", "exited"}
\* With DuInv that gives the types.
LEMMA DuTypesSafe == DuInv /\ du \in DuPlaces => du_copy!DuTypeOK
  BY DEF DuInv, DuPlaces, du_copy!DuTypeOK

\* Every step of du goes from one of these places to another.
LEMMA DuTypesKept ==
    ASSUME du \in DuPlaces, [du_copy!Next]_(du_copy!duVars)
    PROVE  du' \in DuPlaces
  BY DEF DuPlaces, du_copy!Next, du_copy!duVars, du_copy!BeginTree,
         du_copy!file_usage, du_copy!TooDeep, du_copy!Exit

\* What is left of a stack of calls when one has returned.
LEMMA FrontOf ==
    ASSUME NEW S, NEW s \in Seq(S), s # <<>>
    PROVE  /\ pwd_copy!Front(s) \in Seq(S)
           /\ Len(pwd_copy!Front(s)) = Len(s) - 1
  <1> DEFINE n == Len(s) - 1
  <1>1. n \in Nat /\ n <= Len(s) OBVIOUS
  <1>2. pwd_copy!Front(s) = SubSeq(s, 1, n) BY Zenon DEF pwd_copy!Front
  <1> HIDE DEF n
  <1>3. SubSeq(s, 1, n) \in Seq(S) /\ Len(SubSeq(s, 1, n)) = n BY <1>1
  <1> QED BY <1>2, <1>3 DEF n

\* The names that the listings have.
NamesListed ==
    UNION {{names[d][k].name : k \in DOMAIN names[d]} : d \in TwoDevices}
\* Those that version 1 takes directories for.
Numbered == {<<"directory", d>> : d \in TwoDevices}
\* The names that pwd carries up.
PwdNames == NamesListed \union Numbered \union {pwd_copy!DotDot}
\* The types of pwd, with those.
PwdTypes ==
    /\ pwd_copy!PwdTypeOK
    /\ parent \in [TwoDevices -> TwoDevices]
    /\ frames \in Seq(PwdNames)

\* pwd starts with them.
LEMMA PwdTypesInit == pwd_copy!Init => PwdTypes
  <1> SUFFICES ASSUME pwd_copy!Init PROVE PwdTypes
    OBVIOUS
  <1>1. /\ version \in {1, 2} /\ pwd = "climb" /\ cwd \in TwoDevices
        /\ parent \in [TwoDevices -> TwoDevices]
        /\ frames = <<>> /\ height = 0
    BY Zenon DEF pwd_copy!Init
  <1>2. frames \in Seq(PwdNames) /\ Len(frames) = 0 BY <1>1
  <1> QED BY <1>1, <1>2 DEF PwdTypes, pwd_copy!PwdTypeOK

\* Every step of pwd keeps them.
LEMMA PwdTypesKept ==
    ASSUME PwdTypes, [pwd_copy!Next]_(pwd_copy!pwdVars)
    PROVE  PwdTypes'
  <1> DEFINE S == PwdNames
  <1>0. /\ version \in {1, 2}
        /\ pwd \in {"climb", "return", "printed", "failed"}
        /\ cwd \in TwoDevices /\ frames \in Seq(S) /\ Len(frames) \in Nat
        /\ height = IF version = 1 THEN 0 ELSE Len(frames)
        /\ parent \in [TwoDevices -> TwoDevices] /\ parent[cwd] \in TwoDevices
    BY DEF PwdTypes, pwd_copy!PwdTypeOK
  <1>n. names' = names => S' = S BY DEF PwdNames, NamesListed, Numbered
  <1> HIDE DEF S
  <1>s. ASSUME names' = names, version' = version, parent' = parent,
               cwd' \in TwoDevices,
               pwd' \in {"climb", "return", "printed", "failed"},
               frames' \in Seq(S),
               height' = IF version = 1 THEN 0 ELSE Len(frames')
        PROVE  PwdTypes'
    <2>1. frames' \in Seq(S') BY <1>n, <1>s
    <2> QED BY <1>0, <1>s, <2>1 DEF PwdTypes, pwd_copy!PwdTypeOK, S
  <1>1. CASE UNCHANGED pwd_copy!pwdVars
    BY <1>0, <1>1, <1>s DEF pwd_copy!pwdVars
  <1>2. CASE pwd_copy!Climb
    <2>1. PICK its_name \in pwd_copy!NameOf(cwd', cwd) :
             frames' = Append(frames, its_name)
      BY <1>2, Zenon DEF pwd_copy!Climb
    <2>2. /\ cwd' = parent[cwd]
          /\ height' = IF version = 1 THEN height ELSE height + 1
          /\ UNCHANGED <<version, parent, names, pwd>>
      BY <1>2, Zenon DEF pwd_copy!Climb
    <2>3. cwd' \in TwoDevices BY <1>0, <2>2
    <2>4. its_name \in S
      <3>1. CASE version = 1
        <4>1. its_name \in pwd_copy!inum_to_name_1(cwd', cwd)
          BY <3>1, Zenon DEF pwd_copy!NameOf
        <4>2. \/ its_name = pwd_copy!DotDot
              \/ \E c \in pwd_copy!Child(cwd') :
                    its_name = pwd_copy!Entry(c).name
          BY <4>1, Zenon DEF pwd_copy!inum_to_name_1
        <4>3. pwd_copy!Child(cwd') \subseteq TwoDevices
          BY Zenon DEF pwd_copy!Child
        <4>4. \A c : pwd_copy!Entry(c).name = <<"directory", c>>
          BY DEF pwd_copy!Entry
        <4>5. \A c \in TwoDevices : <<"directory", c>> \in S
          <5>1. \A c \in TwoDevices : <<"directory", c>> \in Numbered
            BY Zenon DEF Numbered
          <5> QED BY <5>1 DEF PwdNames, S
        <4>6. pwd_copy!DotDot \in S BY DEF PwdNames, S
        <4> QED BY <4>2, <4>3, <4>4, <4>5, <4>6, Zenon
      <3>2. CASE version # 1
        <4>1. its_name \in pwd_copy!inum_to_name(cwd', cwd)
          BY <3>2, Zenon DEF pwd_copy!NameOf
        <4>2. PICK k \in DOMAIN names[cwd'] : its_name = names[cwd'][k].name
          BY <4>1, Zenon DEF pwd_copy!inum_to_name
        <4>3. its_name \in {names[cwd'][j].name : j \in DOMAIN names[cwd']}
          BY <4>2, Zenon
        <4>4. its_name \in NamesListed BY <2>3, <4>3, Zenon DEF NamesListed
        <4> QED BY <4>4 DEF PwdNames, S
      <3> QED BY <3>1, <3>2
    <2>5. frames' \in Seq(S) /\ Len(frames') = Len(frames) + 1
      BY <1>0, <2>1, <2>4
    <2> QED BY <1>0, <1>s, <2>2, <2>3, <2>5
  <1>3. CASE pwd_copy!CouldNotStat
    BY <1>0, <1>3, <1>s, Zenon DEF pwd_copy!CouldNotStat
  <1>4. CASE pwd_copy!Top
    BY <1>0, <1>4, <1>s, Zenon DEF pwd_copy!Top
  <1>5. CASE pwd_copy!Return
    <2>1. /\ frames # <<>> /\ frames' = pwd_copy!Front(frames)
          /\ height' = IF version = 1 THEN height ELSE height - 1
          /\ UNCHANGED <<version, parent, names, pwd, cwd>>
      BY <1>5, Zenon DEF pwd_copy!Return
    <2>3. frames \in Seq(S) /\ frames # <<>> BY <1>0, <2>1
    <2>4. /\ pwd_copy!Front(frames) \in Seq(S)
          /\ Len(pwd_copy!Front(frames)) = Len(frames) - 1
      BY ONLY <2>3, FrontOf
    <2>2. frames' \in Seq(S) /\ Len(frames') = Len(frames) - 1
      BY <2>1, <2>4, Zenon
    <2> QED BY <1>0, <1>s, <2>1, <2>2
  <1>6. CASE pwd_copy!PrintPath
    BY <1>0, <1>6, <1>s, Zenon DEF pwd_copy!PrintPath
  <1> QED
    BY <1>1, <1>2, <1>3, <1>4, <1>5, <1>6 DEF pwd_copy!Next

\* What ScreenInv does not say of the types.
ScreenBounds ==
    /\ step \in {"start", "draw", "read", "exited"}
    /\ tty \subseteq non_block!Flags /\ original_state \subseteq non_block!Flags
    /\ ch \in non_block!Keys /\ typed_keys \in Seq(non_block!Keys)

\* non_block_demo starts with that.
LEMMA ScreenTypesInit == non_block!Init => ScreenBounds
  <1> SUFFICES ASSUME non_block!Init PROVE ScreenBounds
    OBVIOUS
  <1>1. /\ step = "start" /\ tty \in SUBSET non_block!Flags
        /\ original_state = {} /\ ch \in non_block!Keys /\ typed_keys = <<>>
    BY Zenon DEF non_block!Init
  <1> QED BY <1>1 DEF ScreenBounds

\* Every step keeps it.
LEMMA ScreenTypesKept ==
    ASSUME ScreenBounds, [non_block!Next]_(non_block!nonBlockVars)
    PROVE  ScreenBounds'
  <1> DEFINE K == non_block!Keys
  <1>0. /\ step \in {"start", "draw", "read", "exited"}
        /\ tty \subseteq non_block!Flags
        /\ original_state \subseteq non_block!Flags
        /\ ch \in K /\ typed_keys \in Seq(K)
    BY DEF ScreenBounds
  <1>k. K' = K /\ non_block!Flags' = non_block!Flags
    BY DEF non_block!Keys, non_block!Flags
  <1> HIDE DEF K
  <1>s. ASSUME step' \in {"start", "draw", "read", "exited"},
               tty' \subseteq non_block!Flags,
               original_state' \subseteq non_block!Flags,
               ch' \in K, typed_keys' \in Seq(K)
        PROVE  ScreenBounds'
    BY <1>k, <1>s DEF ScreenBounds, K
  <1>1. CASE UNCHANGED non_block!nonBlockVars
    BY <1>0, <1>1, <1>s DEF non_block!nonBlockVars
  <1>2. CASE non_block!Prepare
    BY <1>0, <1>2, <1>s DEF non_block!Prepare
  <1>3. CASE non_block!Draw
    <2>1. /\ step' = "read"
          /\ UNCHANGED <<tty, original_state, ch, typed_keys>>
      BY <1>3, Zenon DEF non_block!Draw
    <2> QED BY <1>0, <1>s, <2>1
  <1>4. CASE non_block!Read
    <2>1. /\ step' = "draw" /\ UNCHANGED <<tty, original_state>>
          /\ \/ ch' = ch /\ typed_keys' = typed_keys
             \/ /\ typed_keys # <<>>
                /\ ch' = Head(typed_keys) /\ typed_keys' = Tail(typed_keys)
      BY <1>4, Zenon DEF non_block!Read
    <2>2. ch' \in K /\ typed_keys' \in Seq(K) BY <1>0, <2>1
    <2> QED BY <1>0, <1>s, <2>1, <2>2
  <1>5. CASE non_block!CleanUp
    <2>1. /\ step' = "exited" /\ typed_keys' = <<>>
          /\ tty' = original_state /\ UNCHANGED <<original_state, ch>>
      BY <1>5, Zenon DEF non_block!CleanUp
    <2> QED BY <1>0, <1>s, <2>1
  <1>6. CASE non_block!TypeKey
    <2>1. /\ step # "exited"
          /\ UNCHANGED <<step, tty, original_state, ch>>
          /\ \E key \in K : typed_keys' = Append(typed_keys, key)
      BY <1>6, Zenon DEF non_block!TypeKey, K
    <2> QED BY <1>0, <1>s, <2>1
  <1> QED BY <1>1, <1>2, <1>3, <1>4, <1>5, <1>6 DEF non_block!Next

\* The screen never holds more than fits on it.
LEMMA ScreenTypesSafe ==
    ASSUME non_block!ScreenAssumption, ScreenInv, ScreenBounds
    PROVE  non_block!NonBlockTypeOK
  <1>1. non_block!Full \in Nat
    <2>1. cols \in Nat /\ rows - 1 \in Nat BY DEF non_block!ScreenAssumption
    <2> DEFINE r == rows - 1
    <2> HIDE DEF r
    <2>2. cols * r \in Nat BY <2>1 DEF r
    <2> QED BY <2>2 DEF r, non_block!Full
  <1>2. screen \in 0 .. non_block!Full
    BY <1>1 DEF ScreenInv
  <1> QED BY <1>2 DEF ScreenBounds, non_block!NonBlockTypeOK

\* What CpInv does not say of the types.
CpCalls == {"open", "creat", "read", "write", "grow", "mmap", "memcpy",
            "close", "over"}
\* How cp may exit.
CpStatus == {"none", "success", "failure", "SIGBUS"}
\* Numbers of bytes, with that of the NUL.
CpBytes == 0 .. MaxBytes
\* The destination has room for the whole source and the one byte of an empty
\* one.
CpBounds ==
    /\ source <= MaxBytes /\ space \in 0 .. MaxSpace
    /\ target \in Seq(CpBytes) /\ Len(target) <= MaxBytes + 1
    /\ next \in CpCalls /\ status \in CpStatus

\* cp starts with that.
LEMMA CpTypesInit == cp_copy!CopyAssumption /\ cp_copy!Init => CpBounds
  <1> SUFFICES ASSUME cp_copy!CopyAssumption, cp_copy!Init PROVE CpBounds
    OBVIOUS
  <1>1. /\ source \in 0 .. MaxBytes /\ space \in 0 .. MaxSpace
        /\ target = <<>> /\ next = "open" /\ status = "none"
        /\ MaxBytes \in Nat
    BY DEF cp_copy!Init, cp_copy!CopyAssumption
  <1> QED BY <1>1 DEF CpBounds, CpCalls, CpStatus, CpBytes

\* With CpInv it gives the types.
LEMMA CpTypesSafe ==
    ASSUME cp_copy!CopyAssumption, CpInv, CpBounds
    PROVE  cp_copy!CopyTypeOK
  <1>1. /\ source \in Nat /\ file_offset \in 0 .. source
        /\ file_size \in 0 .. source /\ source <= MaxBytes /\ MaxBytes \in Nat
    BY DEF CpInv, CpBounds, cp_copy!CopyAssumption
  <1>2. /\ source \in 0 .. MaxBytes /\ file_offset \in 0 .. MaxBytes
        /\ file_size \in 0 .. MaxBytes
    BY <1>1
  <1>3. \A k \in DOMAIN target : target[k] \in 0 .. MaxBytes
    <2>1. target \in Seq(CpBytes) BY DEF CpBounds
    <2>2. \A k \in DOMAIN target : target[k] \in CpBytes BY <2>1
    <2> QED BY <2>2, Zenon DEF CpBytes
  <1> QED BY <1>2, <1>3 DEF CpBounds, CpCalls, CpStatus, cp_copy!CopyTypeOK

\* Some of the source's bytes, one after the other.
LEMMA SomeBytes ==
    ASSUME NEW m \in Nat, NEW n \in Nat, m + n <= MaxBytes, MaxBytes \in Nat
    PROVE  /\ cp_copy!Bytes(m + 1, m + n) \in Seq(CpBytes)
           /\ Len(cp_copy!Bytes(m + 1, m + n)) = n
  <1> DEFINE b == cp_copy!Bytes(m + 1, m + n)
  <1>1. b \in Seq(Nat) /\ Len(b) = n /\ \A k \in 1 .. n : b[k] = m + k
    BY BytesLemma
  <1> HIDE DEF b
  <1>2. \A k \in 1 .. n : b[k] \in CpBytes BY <1>1 DEF CpBytes
  <1>3. b \in Seq(CpBytes) BY <1>1, <1>2
  <1> QED BY <1>1, <1>3 DEF b

\* Every step of cp keeps CpBounds.
LEMMA CpTypesKept ==
    ASSUME cp_copy!CopyAssumption, CpInv, CpBounds,
           [cp_copy!Next]_(cp_copy!copyVars)
    PROVE  CpBounds'
  <1>0. /\ BUFFER_SIZE \in Nat /\ MaxBytes \in Nat /\ MaxSpace \in Nat
        /\ source \in Nat /\ source <= MaxBytes /\ space \in 0 .. MaxSpace
        /\ target \in Seq(CpBytes) /\ Len(target) \in Nat
        /\ Len(target) <= MaxBytes + 1 /\ next \in CpCalls
        /\ status \in CpStatus /\ file_offset \in 0 .. source
        /\ file_size \in 0 .. source
    BY DEF cp_copy!CopyAssumption, CpInv, CpBounds
  <1>s. ASSUME source' <= MaxBytes, space' \in 0 .. MaxSpace,
               target' \in Seq(CpBytes), Len(target') <= MaxBytes + 1,
               next' \in CpCalls, status' \in CpStatus
        PROVE  CpBounds'
    BY <1>s DEF CpBounds, CpBytes, CpCalls, CpStatus
  <1>c. /\ {"creat", "read", "grow", "write", "close", "mmap", "memcpy",
            "over"} \subseteq CpCalls
        /\ {"failure", "success", "SIGBUS"} \subseteq CpStatus
    BY DEF CpCalls, CpStatus
  <1>1. CASE UNCHANGED cp_copy!copyVars
    BY <1>0, <1>1, <1>s DEF cp_copy!copyVars
  <1>2. CASE cp_copy!die \/ cp_copy!close
    BY <1>0, <1>2, <1>c, <1>s DEF cp_copy!die, cp_copy!close, cp_copy!Stop
  <1>3. CASE cp_copy!open
    BY <1>0, <1>3, <1>c, <1>s DEF cp_copy!open, cp_copy!Go
  <1>4. CASE cp_copy!creat
    <2>1. /\ source' = IF same THEN 0 ELSE source
          /\ next' \in {"grow", "read"}
          /\ UNCHANGED <<target, space, status>>
      BY <1>4, Zenon DEF cp_copy!creat, cp_copy!Go
    <2> QED BY <1>0, <1>c, <1>s, <2>1
  <1>5. CASE cp_copy!Appended
    <2>1. /\ source < MaxBytes /\ space > 0
          /\ source' = source + 1 /\ space' = space - 1
          /\ UNCHANGED <<target, next, status>>
      BY <1>5, Zenon DEF cp_copy!Appended
    <2> QED BY <1>0, <1>s, <2>1
  <1>6. CASE cp_copy!read
    <2>1. /\ next' \in {"write", "close"}
          /\ UNCHANGED <<source, target, space, status>>
      BY <1>6, Zenon DEF cp_copy!read, cp_copy!Go
    <2> QED BY <1>0, <1>c, <1>s, <2>1
  <1>7. CASE cp_copy!write
    <2>1. PICK n \in 1 .. file_offset :
             /\ buf = cp_copy!Bytes(file_offset - n + 1, file_offset)
             /\ target = cp_copy!Bytes(1, file_offset - n)
      BY <1>7 DEF cp_copy!write, CpInv
    <2> DEFINE m == file_offset - n
               wrote == cp_copy!Least(Len(buf), space)
    <2>2. m \in Nat /\ n \in Nat /\ m + n = file_offset /\ m + n <= MaxBytes
      BY <1>0, <2>1
    <2>3. /\ target' = target \o SubSeq(buf, 1, wrote)
          /\ space' = space - wrote /\ source' = source
          /\ \/ next' = "read" /\ status' = status
             \/ next' = "over" /\ status' = "failure"
      BY <1>7, Zenon DEF cp_copy!write, cp_copy!Go, cp_copy!Stop
    <2>4. buf = cp_copy!Bytes(m + 1, m + n) BY <2>1, <2>2
    <2>5. target = cp_copy!Bytes(1, m) BY <2>1
    <2> HIDE DEF m
    <2>6. buf \in Seq(CpBytes) /\ Len(buf) = n
      BY ONLY <1>0, <2>2, <2>4, SomeBytes
    <2>7. Len(target) = m
      <3>1. Len(cp_copy!Bytes(1, m)) = m BY ONLY <2>2, FirstBytes
      <3> QED BY <2>5, <3>1
    <2>8. wrote \in 0 .. n /\ wrote <= space
      BY <1>0, <2>2, <2>6 DEF cp_copy!Least
    <2> HIDE DEF wrote
    <2>9. /\ SubSeq(buf, 1, wrote) \in Seq(CpBytes)
          /\ Len(SubSeq(buf, 1, wrote)) = wrote
      BY <2>2, <2>6, <2>8
    <2>10. /\ target' \in Seq(CpBytes) /\ Len(target') = m + wrote
      BY <1>0, <2>3, <2>7, <2>9
    <2>11. Len(target') <= MaxBytes + 1 /\ space' \in 0 .. MaxSpace
      BY <1>0, <2>2, <2>3, <2>8, <2>10
    <2>12. next' \in CpCalls /\ status' \in CpStatus
      BY <1>0, <1>c, <2>3
    <2> QED BY <1>0, <1>s, <2>3, <2>10, <2>11, <2>12
  <1>8. CASE cp_copy!grow
    <2> DEFINE size == IF source = 0 THEN 1 ELSE source
               grown == [k \in 1 .. size |-> 0]
    <2>1. /\ \/ space > 0 /\ target' = grown /\ space' = space - 1
             \/ target' = target /\ space' = space
          /\ next' = "mmap" /\ status' = status /\ source' = source
      BY <1>8, Zenon DEF cp_copy!grow, cp_copy!Go
    <2>2. size \in Nat /\ size <= MaxBytes + 1 BY <1>0
    <2> HIDE DEF size
    <2>3. 0 \in CpBytes BY <1>0 DEF CpBytes
    <2>4. grown \in Seq(CpBytes) /\ Len(grown) = size BY <2>2, <2>3
    <2> HIDE DEF grown
    <2> QED BY <1>0, <1>c, <1>s, <2>1, <2>2, <2>4
  <1>9. CASE cp_copy!mmap
    <2>1. /\ \/ next' = "over" /\ status' = "failure"
             \/ next' = "memcpy" /\ status' = status
          /\ UNCHANGED <<source, target, space>>
      BY <1>9, Zenon DEF cp_copy!mmap, cp_copy!Go, cp_copy!Stop
    <2> QED BY <1>0, <1>c, <1>s, <2>1
  <1>10. CASE cp_copy!memcpy
    <2> DEFINE holes == Len(target) - 1
               fits == target # <<>> /\ holes <= space
               n == IF target = <<>> THEN 0 ELSE cp_copy!Least(holes, space)
               part == SubSeq(target, n + 1, Len(target))
    <2>1. /\ target' = IF fits THEN cp_copy!Bytes(1, file_size)
                       ELSE cp_copy!Bytes(1, n) \o part
          /\ space' = space - n /\ source' = source
          /\ \/ next' = "close" /\ status' = status
             \/ next' = "over" /\ status' = "SIGBUS"
      BY <1>10, Zenon DEF cp_copy!memcpy, cp_copy!Go, cp_copy!Stop
    <2>2. n \in Nat /\ n <= space /\ n <= Len(target) /\ n <= MaxBytes
      <3>1. CASE target = <<>> BY <1>0, <3>1
      <3>2. CASE target # <<>>
        <4>1. Len(target) > 0 BY <1>0, <3>2
        <4> QED BY <1>0, <3>2, <4>1 DEF cp_copy!Least
      <3> QED BY <3>1, <3>2
    <2> HIDE DEF n
    <2>3. ASSUME NEW k \in Nat, k <= MaxBytes
          PROVE  /\ cp_copy!Bytes(1, k) \in Seq(CpBytes)
                 /\ Len(cp_copy!Bytes(1, k)) = k
      <3>1. 0 + 1 = 1 /\ 0 + k = k OBVIOUS
      <3>2. /\ cp_copy!Bytes(0 + 1, 0 + k) \in Seq(CpBytes)
            /\ Len(cp_copy!Bytes(0 + 1, 0 + k)) = k
        <4>1. 0 \in Nat /\ 0 + k <= MaxBytes BY <2>3
        <4> QED BY ONLY <1>0, <2>3, <4>1, SomeBytes
      <3> QED BY <3>1, <3>2
    <2>4. part \in Seq(CpBytes) /\ Len(part) = Len(target) - n
      BY <1>0, <2>2
    <2> HIDE DEF part
    <2>5. target' \in Seq(CpBytes) /\ Len(target') <= MaxBytes + 1
      <3>1. CASE fits
        <4>1. file_size \in Nat /\ file_size <= MaxBytes BY <1>0
        <4>2. /\ cp_copy!Bytes(1, file_size) \in Seq(CpBytes)
              /\ Len(cp_copy!Bytes(1, file_size)) = file_size
          BY <2>3, <4>1
        <4> QED BY <1>0, <2>1, <3>1, <4>1, <4>2
      <3>2. CASE ~fits
        <4> DEFINE b == cp_copy!Bytes(1, n)
        <4>1. b \in Seq(CpBytes) /\ Len(b) = n BY <2>2, <2>3
        <4>2. target' = b \o part BY <2>1, <3>2
        <4> HIDE DEF b
        <4>3. b \o part \in Seq(CpBytes) /\ Len(b \o part) = Len(target)
          BY <1>0, <2>2, <2>4, <4>1
        <4> QED BY <1>0, <4>2, <4>3
      <3> QED BY <3>1, <3>2
    <2>6. space' \in 0 .. MaxSpace BY <1>0, <2>1, <2>2
    <2>7. next' \in CpCalls /\ status' \in CpStatus BY <1>0, <1>c, <2>1
    <2> QED BY <1>0, <1>s, <2>1, <2>5, <2>6, <2>7
  <1> QED
    BY <1>1, <1>2, <1>3, <1>4, <1>5, <1>6, <1>7, <1>8, <1>9, <1>10
       DEF cp_copy!Next

\* At most one entry waits for lstat.
Waiting == entry = {} \/ \E name \in Names : entry = {name}
\* What LsInv does not say of the types.  An entry of fts without a status
\* stops the listing, so that none of an earlier directory is left in the next.
LsBounds ==
    /\ since \subseteq seen /\ seen \subseteq Names /\ returned \subseteq Names
    /\ \A l \in listed : l.name \in Names
    /\ Waiting
    /\ children.FTS_NS \subseteq children.names
    /\ children.FTS_NS # {} => version = "fts" /\ outcome = "spinning" /\ ~Idle
    /\ changes \in 0 .. MaxChanges
    /\ outcome \in {"none", "complete", "spinning"}

\* ls starts with that.
LEMMA LsTypesInit == ls_copy!LsAssumption /\ ls_copy!Init => LsBounds
  <1> SUFFICES ASSUME ls_copy!LsAssumption, ls_copy!Init PROVE LsBounds
    OBVIOUS
  <1>1. /\ since = {} /\ seen = {} /\ returned = {} /\ entry = {}
        /\ children = [names |-> {}, FTS_NS |-> {}]
        /\ listed = {} /\ changes = 0 /\ outcome = "none"
        /\ MaxChanges \in Nat
    BY Zenon DEF ls_copy!Init, ls_copy!LsAssumption
  <1>2. children.FTS_NS = {} /\ children.names = {} BY <1>1
  <1> QED BY <1>1, <1>2 DEF LsBounds, Waiting

\* With LsInv it gives the types.
LEMMA LsTypesSafe ==
    ASSUME LsInv, LsBounds
    PROVE  ls_copy!LsTypeOK
  <1>1. ls_copy!Cardinality(entry) <= 1
    <2>1. ls_copy!Cardinality(entry) = Cardinality(entry)
      BY Zenon DEF ls_copy!Cardinality, Cardinality
    <2>2. CASE entry = {} BY <2>1, <2>2, FS_EmptySet
    <2>3. ASSUME NEW name, entry = {name}
          PROVE  ls_copy!Cardinality(entry) <= 1
      <3>1. Cardinality({name}) = 1 BY FS_Singleton
      <3> QED BY <2>1, <2>3, <3>1
    <2> QED BY <2>2, <2>3 DEF LsBounds, Waiting
  <1>2. /\ dir \in ls_copy!Dirs \union {"none"} /\ args \subseteq ls_copy!Dirs
        /\ entry \subseteq returned
        /\ children.names \subseteq Names
        /\ \A l \in listed : l.dir \in ls_copy!Dirs
    BY DEF LsInv, DirsInv, LinesInv
  <1> QED BY <1>1, <1>2, Zenon DEF LsBounds, ls_copy!LsTypeOK

\* Every step of ls keeps LsBounds.
LEMMA LsTypesKept ==
    ASSUME ls_copy!LsAssumption, LsInv, LsBounds,
           [ls_copy!Next]_(ls_copy!lsVars)
    PROVE  LsBounds'
  <1> DEFINE lists == UNCHANGED <<since, seen, returned, listed, entry,
                                  children, changes, outcome>>
             none == children.FTS_NS
  <1>0. /\ since \subseteq seen /\ seen \subseteq Names
        /\ returned \subseteq Names
        /\ \A l \in listed : l.name \in Names
        /\ none \subseteq children.names
        /\ none # {} => version = "fts" /\ outcome = "spinning" /\ ~Idle
        /\ changes \in 0 .. MaxChanges
        /\ outcome \in {"none", "complete", "spinning"}
        /\ Waiting
        /\ MaxChanges \in Nat
        /\ children \in [names : SUBSET Names, FTS_NS : SUBSET Names]
        /\ entries \in [ls_copy!Dirs -> SUBSET Names]
        /\ ~Idle => dir \in ls_copy!Dirs
    BY DEF LsBounds, LsInv, DirsInv, ls_copy!LsAssumption
  <1>1. CASE UNCHANGED ls_copy!lsVars
    <2>1. Idle' <=> Idle BY <1>1, Zenon DEF ls_copy!lsVars, Idle
    <2> QED BY <1>1, <2>1, Zenon DEF ls_copy!lsVars, LsBounds, Waiting
  <1>2. ASSUME NEW d \in ls_copy!Dirs, ls_copy!OpenDir(d)
        PROVE  LsBounds'
    <2>1. /\ since' = entries[d] /\ seen' = entries[d] /\ returned' = {}
          /\ outcome' = "none"
          /\ UNCHANGED <<version, entry, children, listed, changes>>
      BY <1>2, Zenon DEF ls_copy!OpenDir
    <2>2. none = {} BY <1>0, <1>2, Zenon DEF ls_copy!OpenDir, Idle
    <2>3. entries[d] \subseteq Names BY <1>0
    <2> QED BY <1>0, <2>1, <2>2, <2>3 DEF LsBounds, Waiting
  <1>3. ASSUME NEW d \in ls_copy!Dirs, ls_copy!CannotOpen(d)
        PROVE  LsBounds'
    <2>1. /\ outcome' = "none"
          /\ UNCHANGED <<version, since, seen, returned, entry, children,
                         listed, changes>>
      BY <1>3, Zenon DEF ls_copy!CannotOpen
    <2>2. none = {} BY <1>0, <1>3, Zenon DEF ls_copy!CannotOpen, Idle
    <2> QED BY <1>0, <2>1, <2>2 DEF LsBounds, Waiting
  <1>4. CASE ls_copy!readdir
    <2>1. PICK name \in seen \ returned :
             /\ returned' = returned \union {name}
             /\ \/ entry' = {name} /\ listed' = listed
                \/ /\ listed' = listed \union {ls_copy!Line(name, "name only")}
                   /\ entry' = entry
      BY <1>4, Zenon DEF ls_copy!readdir
    <2>2. UNCHANGED <<version, since, seen, children, changes, outcome>>
      BY <1>4, Zenon DEF ls_copy!readdir
    <2>3. Idle' <=> Idle BY <1>4, Zenon DEF ls_copy!readdir, Idle
    <2>4. name \in Names /\ ls_copy!Line(name, "name only").name = name
      BY <1>0 DEF ls_copy!Line
    <2>5. \A l \in listed' : l.name \in Names
      BY <1>0, <2>1, <2>4, Zenon
    <2>6. returned' \subseteq Names BY <1>0, <2>1, <2>4
    <2>7. Waiting' BY <1>0, <2>1, <2>4, Zenon DEF Waiting
    <2> QED BY <1>0, <2>2, <2>3, <2>5, <2>6, <2>7, Zenon DEF LsBounds
  <1>5. CASE ls_copy!lstat
    <2> DEFINE there == ls_copy!LookedUpIn
               lines == {ls_copy!Line(name, there) :
                            name \in entry \intersect entries[there]}
    <2>1. /\ entry' = {} /\ listed' = listed \union lines
          /\ UNCHANGED <<version, since, seen, returned, children, changes,
                         outcome>>
      BY <1>5, Zenon DEF ls_copy!lstat
    <2>2. Idle' <=> Idle BY <1>5, Zenon DEF ls_copy!lstat, Idle
    <2> HIDE DEF there
    <2>3. \A l \in lines : l.name \in entry BY DEF ls_copy!Line
    <2> HIDE DEF lines
    <2>4. entry \subseteq Names BY <1>0 DEF Waiting
    <2>5. \A l \in listed' : l.name \in Names
      BY <1>0, <2>1, <2>3, <2>4, Zenon
    <2>6. Waiting' BY <2>1, Zenon DEF Waiting
    <2> QED BY <1>0, <2>1, <2>2, <2>5, <2>6, Zenon DEF LsBounds
  <1>6. CASE ls_copy!EndOfDirectory
    <2>1. /\ version # "fts" /\ outcome' = "complete"
          /\ UNCHANGED <<version, since, seen, returned, entry, children,
                         listed, changes>>
      BY <1>6, Zenon DEF ls_copy!EndOfDirectory
    <2> QED BY <1>0, <2>1 DEF LsBounds, Waiting
  <1>7. CASE ls_copy!ReadNames
    <2>1. /\ outcome = "none" /\ returned' = entries[dir]
          /\ children' = [children EXCEPT !.names = entries[dir]]
          /\ outcome' \in {"none", "complete"}
          /\ UNCHANGED <<version, since, seen, entry, listed, changes>>
      BY <1>7, Zenon DEF ls_copy!ReadNames
    <2>2. dir \in ls_copy!Dirs BY <1>0, <1>7, Zenon DEF ls_copy!ReadNames, Idle
    <2>3. entries[dir] \subseteq Names BY <1>0, <2>2
    <2>4. none = {} BY <1>0, <2>1
    <2>5. children'.FTS_NS = {} BY <1>0, <2>1, <2>4
    <2> QED BY <1>0, <2>1, <2>3, <2>5 DEF LsBounds, Waiting
  <1>8. CASE ls_copy!PrintChildren
    <2> DEFINE where == IF long THEN dir ELSE "name only"
               lines(printed) == {ls_copy!Line(name, where) : name \in printed}
               gone == children.names \ entries[dir]
    <2>1. /\ version = "fts" /\ ~Idle /\ outcome = "none"
          /\ children' = [children EXCEPT !.FTS_NS = gone]
          /\ UNCHANGED <<version, since, seen, returned, entry, changes>>
      BY <1>8, Zenon DEF ls_copy!PrintChildren, Idle
    <2>2. \/ /\ gone = {} /\ listed' = lines(children.names)
             /\ outcome' = "complete"
          \/ /\ \E before \in SUBSET (children.names \ gone) :
                   listed' = lines(before)
             /\ outcome' = "spinning" /\ ~Idle'
      <3>1. CASE gone = {}
        BY <1>8, <3>1, Zenon DEF ls_copy!PrintChildren
      <3>2. CASE gone # {}
        BY <1>8, <3>2, Zenon DEF ls_copy!PrintChildren, Idle
      <3> QED BY <3>1, <3>2
    <2> HIDE DEF where
    <2>3. ASSUME NEW printed, printed \subseteq children.names
          PROVE  \A l \in lines(printed) : l.name \in Names
      <3>1. \A l \in lines(printed) : l.name \in printed BY DEF ls_copy!Line
      <3> HIDE DEF lines
      <3> QED BY <1>0, <2>3, <3>1
    <2> HIDE DEF lines
    <2>4. gone \subseteq children.names OBVIOUS
    <2> HIDE DEF gone
    <2>5. children'.FTS_NS = gone /\ children'.names = children.names
      BY <1>0, <2>1
    <2>6. \A l \in listed' : l.name \in Names
      <3>1. CASE listed' = lines(children.names)
        BY <2>3, <3>1, Zenon
      <3>2. ASSUME NEW before \in SUBSET (children.names \ gone),
                   listed' = lines(before)
            PROVE  \A l \in listed' : l.name \in Names
        <4>1. before \subseteq children.names OBVIOUS
        <4> QED BY <2>3, <3>2, <4>1, Zenon
      <3> QED BY <2>2, <3>1, <3>2, Zenon
    <2>7. /\ children'.FTS_NS # {} =>
                version' = "fts" /\ outcome' = "spinning" /\ ~Idle'
          /\ outcome' \in {"none", "complete", "spinning"}
      BY <2>1, <2>2, <2>5
    <2> QED BY <1>0, <2>1, <2>4, <2>5, <2>6, <2>7 DEF LsBounds, Waiting
  <1>9. ASSUME NEW d \in ls_copy!Dirs, NEW name \in Names,
               ls_copy!Change(d, name)
        PROVE  LsBounds'
    <2> DEFINE now == IF name \in entries[d] THEN entries[d] \ {name}
                      ELSE entries[d] \union {name}
    <2>1. /\ changes < MaxChanges /\ changes' = changes + 1
          /\ since' = IF d = dir THEN since \intersect now ELSE since
          /\ seen' = IF d = dir THEN seen \union now ELSE seen
          /\ UNCHANGED <<version, returned, entry, children, listed, outcome>>
      BY <1>9, Zenon DEF ls_copy!Change
    <2>2. Idle' <=> Idle BY <1>9, Zenon DEF ls_copy!Change, Idle
    <2>3. now \subseteq Names BY <1>0
    <2> HIDE DEF now
    <2>4. since' \subseteq seen' /\ seen' \subseteq Names BY <1>0, <2>1, <2>3
    <2>5. changes' \in 0 .. MaxChanges BY <1>0, <2>1
    <2> QED BY <1>0, <2>1, <2>2, <2>4, <2>5, Zenon DEF LsBounds, Waiting
  <1> QED
    BY <1>1, <1>2, <1>3, <1>4, <1>5, <1>6, <1>7, <1>8, <1>9
       DEF ls_copy!Next

-----------------------------------------------------------------------------
(* One program at a time *)

\* A step of the program that runs, or none.
ProgramSteps ==
    /\ program = "who" => [who_copy!Next]_(who_copy!utmpVars)
    /\ program = "utmp" => [utmp!Next]_(utmp!recordVars)
    /\ program = "more" => [more_copy!Next]_(more_copy!moreVars)
    /\ program = "du" => [du_copy!Next]_(du_copy!duVars)
    /\ program = "non_block" => [non_block!Next]_(non_block!nonBlockVars)
    /\ program = "cp" => [cp_copy!Next]_(cp_copy!copyVars)
    /\ program = "ls" => [ls_copy!Next]_(ls_copy!lsVars)
    /\ program = "pwd" => [pwd_copy!Next]_(pwd_copy!pwdVars)
    /\ program = "prompt" =>
          [lastline!do_lastline_mode]_(lastline!promptVars)
    /\ program = "editor" => [editor!Next]_(editor!editorVars)

\* When MCTools stutters, so do all programs.
LEMMA NothingHappens ==
    ASSUME UNCHANGED vars
    PROVE  program' = program /\ ProgramSteps
  <1>1. program' = program BY DEF vars
  <1>2. /\ UNCHANGED who_copy!utmpVars
        /\ UNCHANGED utmp!recordVars
    BY DEF vars, utmpVars, fileVars, whoVars, recordVars, who_copy!utmpVars,
           utmp!recordVars
  <1>3. UNCHANGED more_copy!moreVars
    BY DEF vars, moreVars, more_copy!moreVars
  <1>4. UNCHANGED du_copy!duVars
    BY DEF vars, duVars, du_copy!duVars
  <1>5. UNCHANGED non_block!nonBlockVars
    BY DEF vars, nonBlockVars, non_block!nonBlockVars
  <1>6. UNCHANGED cp_copy!copyVars
    BY DEF vars, filesVars, copyVars, cp_copy!copyVars
  <1>7. UNCHANGED ls_copy!lsVars
    BY DEF vars, filesVars, lsVars, ls_copy!lsVars
  <1>8. UNCHANGED lastline!promptVars
    BY DEF vars, promptVars, lastline!promptVars
  <1>9. UNCHANGED editor!editorVars
    BY DEF vars, editorVars, editor!editorVars, editor!bufferVars,
           editor!lineVars, editor!viewVars
  <1>10. UNCHANGED pwd_copy!pwdVars
    BY DEF vars, filesVars, pwdVars, pwd_copy!pwdVars
  <1> QED
    BY <1>1, <1>2, <1>3, <1>4, <1>5, <1>6, <1>7, <1>8, <1>9, <1>10
       DEF ProgramSteps

\* The program that runs stays the one that runs.
LEMMA OneProgram ==
    ASSUME [Next]_vars
    PROVE  program' = program /\ ProgramSteps
  <1>1. CASE UNCHANGED vars BY <1>1, NothingHappens
  <1>2. CASE Next
    <2>1. /\ program' = program
          /\ program = "who" => who_copy!Next
          /\ program = "utmp" => utmp!Next
          /\ program = "more" => more_copy!Next
          /\ program = "du" => du_copy!Next
          /\ program = "non_block" => non_block!Next
          /\ program = "cp" => cp_copy!Next
          /\ program = "ls" => ls_copy!Next
          /\ program = "pwd" => pwd_copy!Next
          /\ program = "prompt" => lastline!do_lastline_mode
          /\ program = "editor" => editor!Next
      BY <1>2 DEF Next
    <2> QED BY <2>1 DEF ProgramSteps
  <1> QED BY <1>1, <1>2

\* Each program is in its own invariant.
ToolsInv ==
    /\ program = "who" => WhoInv
    /\ program = "utmp" => RecordsInv
    /\ program = "more" => MoreInv
    /\ program = "du" => DuInv
    /\ program = "non_block" => ScreenInv
    /\ program = "cp" => CpInv
    /\ program = "ls" => LsInv
    /\ program = "prompt" => PromptInv
    /\ program = "editor" => EditorInv /\ ViewInv /\ BehindInv

\* Each program starts in its invariant.
LEMMA ToolsInit == Init => ToolsInv
  <1> SUFFICES ASSUME Init PROVE ToolsInv
    OBVIOUS
  <1>1. /\ program = "who" => who_copy!Init
        /\ program = "utmp" => utmp!Init
        /\ program = "more" => more_copy!Init
        /\ program = "du" => du_copy!Init
        /\ program = "non_block" => non_block!Init
        /\ program = "cp" => cp_copy!Init
        /\ program = "ls" => ls_copy!Init
        /\ program = "prompt" => lastline!Init
        /\ program = "editor" => editor!Init
    BY DEF Init
  <1>2. /\ who_copy!UtmpAssumption /\ utmp!RecordsAssumption
        /\ more_copy!MoreAssumption /\ du_copy!DuAssumption
        /\ non_block!ScreenAssumption /\ cp_copy!CopyAssumption
        /\ editor!EditorAssumption
    BY AllSizes
  <1> QED
    BY <1>1, <1>2, WhoInit, RecordsInit, MoreInit, DuInit, ScreenInit, CpInit,
       LsInit, PromptInit, EditorInit, ViewInit, BehindInit
       DEF ToolsInv

\* Every step keeps the invariant of the program that takes it.
LEMMA ToolsKept == ToolsInv /\ [Next]_vars => ToolsInv'
  <1> SUFFICES ASSUME ToolsInv, [Next]_vars PROVE ToolsInv'
    OBVIOUS
  <1>1. program' = program /\ ProgramSteps BY OneProgram
  <1>2. /\ who_copy!UtmpAssumption /\ utmp!RecordsAssumption
        /\ more_copy!MoreAssumption /\ du_copy!DuAssumption
        /\ non_block!ScreenAssumption /\ cp_copy!CopyAssumption
        /\ editor!EditorAssumption
    BY AllSizes
  <1>3. program = "who" => WhoInv'
    BY <1>1, <1>2, WhoKept DEF ToolsInv, ProgramSteps
  <1>4. program = "utmp" => RecordsInv'
    BY <1>1, <1>2, RecordsKept DEF ToolsInv, ProgramSteps
  <1>5. program = "more" => MoreInv'
    BY <1>1, <1>2, MoreKept DEF ToolsInv, ProgramSteps
  <1>6. program = "du" => DuInv'
    BY <1>1, <1>2, DuKept DEF ToolsInv, ProgramSteps
  <1>7. program = "non_block" => ScreenInv'
    BY <1>1, <1>2, ScreenKept DEF ToolsInv, ProgramSteps
  <1>8. program = "cp" => CpInv'
    BY <1>1, <1>2, CpKept DEF ToolsInv, ProgramSteps
  <1>9. program = "ls" => LsInv'
    BY <1>1, LsKept DEF ToolsInv, ProgramSteps
  <1>10. program = "prompt" => PromptInv'
    BY <1>1, PromptKept DEF ToolsInv, ProgramSteps
  <1>11. program = "editor" => EditorInv' /\ ViewInv' /\ BehindInv'
    BY <1>1, <1>2, EditorKept, ViewKept, BehindKept
       DEF ToolsInv, ProgramSteps
  <1> QED
    BY <1>1, <1>3, <1>4, <1>5, <1>6, <1>7, <1>8, <1>9, <1>10, <1>11
       DEF ToolsInv

-----------------------------------------------------------------------------
(* Types *)

\* What a program keeps beside its invariant: with that it implies its types.
\* (The path that pwd prints is only model-checked; its types are not.)
ToolsTypes ==
    /\ program = "who" => record_ptr \in who_copy!Cells
    /\ program = "utmp" => utmp!RecordsTypeOK
    /\ program = "more" => more_copy!MoreTypeOK
    /\ program = "du" => du \in DuPlaces
    /\ program = "pwd" => PwdTypes
    /\ program = "non_block" => ScreenBounds
    /\ program = "cp" => CpBounds
    /\ program = "ls" => LsBounds
    /\ program = "prompt" => lastline!LineTypeOK
    /\ program = "editor" => BoundsInv

\* Each program starts with it.
LEMMA TypesInit == Init => ToolsTypes
  <1> SUFFICES ASSUME Init PROVE ToolsTypes
    OBVIOUS
  <1>1. /\ program = "who" => who_copy!Init
        /\ program = "utmp" => utmp!Init
        /\ program = "more" => more_copy!Init
        /\ program = "du" => du_copy!Init
        /\ program = "pwd" => pwd_copy!Init
        /\ program = "non_block" => non_block!Init
        /\ program = "cp" => cp_copy!Init
        /\ program = "ls" => ls_copy!Init
        /\ program = "prompt" => lastline!Init
        /\ program = "editor" => editor!Init
    BY DEF Init
  <1>2. /\ who_copy!UtmpAssumption /\ utmp!RecordsAssumption
        /\ more_copy!MoreAssumption /\ cp_copy!CopyAssumption
        /\ ls_copy!LsAssumption /\ MaxCommand \in Nat
        /\ editor!EditorAssumption
    BY AllSizes
  <1>3. program = "du" => du \in DuPlaces
    BY <1>1 DEF du_copy!Init, DuPlaces
  <1> QED
    BY <1>1, <1>2, <1>3, WhoTypesInit, RecordsTypesInit, MoreTypesInit,
       PwdTypesInit, ScreenTypesInit, CpTypesInit, LsTypesInit,
       PromptTypesInit, BoundsInit
       DEF ToolsTypes

\* Every step keeps it.
LEMMA ToolsTypesKept == ToolsInv /\ ToolsTypes /\ [Next]_vars => ToolsTypes'
  <1> SUFFICES ASSUME ToolsInv, ToolsTypes, [Next]_vars PROVE ToolsTypes'
    OBVIOUS
  <1>1. program' = program /\ ProgramSteps BY OneProgram
  <1>2. /\ who_copy!UtmpAssumption /\ utmp!RecordsAssumption
        /\ more_copy!MoreAssumption /\ cp_copy!CopyAssumption
        /\ ls_copy!LsAssumption /\ MaxCommand \in Nat
        /\ editor!EditorAssumption
    BY AllSizes
  <1> USE DEF ToolsInv, ToolsTypes, ProgramSteps
  <1>3. program = "who" => record_ptr' \in who_copy!Cells
    BY <1>1, <1>2, WhoTypesKept
  <1>4. program = "utmp" => utmp!RecordsTypeOK'
    BY <1>1, <1>2, RecordsTypesKept
  <1>5. program = "more" => more_copy!MoreTypeOK'
    BY <1>1, <1>2, MoreTypesKept
  <1>6. program = "du" => du' \in DuPlaces
    BY <1>1, DuTypesKept
  <1>7. program = "pwd" => PwdTypes'
    BY <1>1, PwdTypesKept
  <1>8. program = "non_block" => ScreenBounds'
    BY <1>1, ScreenTypesKept
  <1>9. program = "cp" => CpBounds'
    BY <1>1, <1>2, CpTypesKept
  <1>10. program = "ls" => LsBounds'
    BY <1>1, <1>2, LsTypesKept
  <1>11. program = "prompt" => lastline!LineTypeOK'
    BY <1>1, <1>2, PromptTypesKept
  <1>12. program = "editor" => BoundsInv'
    BY <1>1, <1>2, BoundsKept
  <1> QED
    BY <1>1, <1>3, <1>4, <1>5, <1>6, <1>7, <1>8, <1>9, <1>10, <1>11, <1>12
       DEF who_copy!Cells, DuPlaces

\* The two together imply the types.
LEMMA TypesSafe == ToolsInv /\ ToolsTypes => TypeOK
  <1> SUFFICES ASSUME ToolsInv, ToolsTypes PROVE TypeOK
    OBVIOUS
  <1>1. /\ non_block!ScreenAssumption /\ cp_copy!CopyAssumption
        /\ editor!EditorAssumption
    BY AllSizes
  <1> USE DEF ToolsInv, ToolsTypes
  <1>2. program = "who" => who_copy!UtmpTypeOK
    <2> SUFFICES ASSUME program = "who" PROVE who_copy!UtmpTypeOK
      OBVIOUS
    <2>1. /\ NUM_RECORDS \in Nat /\ Len(utmp_file) \in Nat
      BY AllSizes DEF WhoInv, who_copy!UtmpAssumption
    <2> QED BY <2>1 DEF WhoInv, who_copy!UtmpTypeOK
  <1>3. program = "du" => du_copy!DuTypeOK BY DuTypesSafe
  <1>4. program = "pwd" => pwd_copy!PwdTypeOK BY DEF PwdTypes
  <1>5. program = "non_block" => non_block!NonBlockTypeOK
    BY <1>1, ScreenTypesSafe
  <1>6. program = "cp" => cp_copy!CopyTypeOK BY <1>1, CpTypesSafe
  <1>7. program = "ls" => ls_copy!LsTypeOK BY LsTypesSafe
  <1>8. program = "editor" => editor!EditorTypeOK BY <1>1, EditorTypesSafe
  <1> QED BY <1>2, <1>3, <1>4, <1>5, <1>6, <1>7, <1>8 DEF TypeOK

-----------------------------------------------------------------------------
(* Theorems *)

\* Whichever program runs is always in its invariant.
THEOREM ToolsInvariance == Spec => []ToolsInv
  BY ToolsInit, ToolsKept, PTL DEF Spec

\* All programs keep their types: indices and cursors stay where they may
\* point, and counters in their bounds.
THEOREM TypesOfTools == Spec => []TypeOK
  <1>1. Spec => []ToolsTypes
    <2>1. Init => ToolsInv /\ ToolsTypes BY ToolsInit, TypesInit
    <2>2. ToolsInv /\ ToolsTypes /\ [Next]_vars => (ToolsInv /\ ToolsTypes)'
      BY ToolsKept, ToolsTypesKept
    <2> QED BY <2>1, <2>2, PTL DEF Spec
  <1> QED BY <1>1, ToolsInvariance, TypesSafe, PTL

\* more asks exactly when it has shown the lines that were asked for, until it
\* is told to quit (more_copy.c:71-101), for all sizes of the screen and files,
\* and whatever is typed ahead.
THEOREM MoreAsksInTime == Spec => []AsksForEachPage
  <1>1. ToolsInv => AsksForEachPage
    BY MoreSafe DEF ToolsInv, AsksForEachPage
  <1> QED BY <1>1, ToolsInvariance, PTL

\* Whatever keys are obeyed again and whatever writes fail, the dots are no more
\* than the menu says and stay above it, and the terminal gets its flags back
\* (non_block_demo.c:84-123), for all sizes of the screen.
THEOREM DotsStayOnScreen == Spec => []ScreenIsKept
  <1>1. ToolsInv => ScreenIsKept
    BY DEF ToolsInv, ScreenInv, ScreenIsKept
  <1> QED BY <1>1, ToolsInvariance, PTL

\* du never prints more than a tree uses, and what it uses unless two nodes of
\* a level follow each other (du_copy_v1.c:56-65), for trees of any shape and
\* depth.
THEOREM TotalsNeverOver == Spec => []UsageNeverOver
  <1>1. ToolsInv => UsageNeverOver
    BY DuSafe DEF ToolsInv, UsageNeverOver
  <1> QED BY <1>1, ToolsInvariance, PTL

\* cp reports success only if it has copied all that the source held, in its
\* order (cp_copy_v1.c:40-55, cp_copy_v3.c:63-91), for all sizes of the source,
\* the buffer and the room on the disk.
THEOREM SuccessIsACopy == Spec => []CopyIsTrue
  <1>1. ToolsInv => CopyIsTrue
    BY CpSafe DEF ToolsInv, CopyIsTrue
  <1> QED BY <1>1, ToolsInvariance, PTL

\* who lists whoever stays, once, in the order of the file, with and without a
\* buffer (utmp_utils.h:44-97), and ls every entry that stays, with its own
\* status (ls_copy_v3.c:74-97), for all sizes of the file, the buffer and the
\* directories, and whatever changes them meanwhile.
THEOREM NobodyIsLeftOut == Spec => []ListsAreComplete
  <1>1. ToolsInv => ListsAreComplete
    BY WhoSafe, RecordsSafe, LsSafe DEF ToolsInv, ListsAreComplete
  <1> QED BY <1>1, ToolsInvariance, PTL

\* The prompt does what is typed and nothing else: the automaton accepts the
\* lines that are commands (simplevi.c:265-393).  who_copy_v4 marks the terminal
\* it was given and no other (l.40-48), and write_copy finds whoever stays and
\* sends what is typed (write_copy_v2.c:31-81).  For lines, files and messages
\* of all sizes.
THEOREM CommandsDoAsTold == Spec => []CommandsAreObeyed
  <1>1. ToolsInv => CommandsAreObeyed
    <2> SUFFICES ASSUME ToolsInv PROVE CommandsAreObeyed
      OBVIOUS
    <2>1. program = "prompt" => lastline!CommandsAreObeyed
      BY Obeyed DEF ToolsInv, PromptInv
    <2>2. program = "utmp" => utmp!OthersAreKept /\ utmp!MessageIsWhole
      BY RecordsSafe DEF ToolsInv
    <2> QED BY <2>1, <2>2 DEF CommandsAreObeyed
  <1> QED BY <1>1, ToolsInvariance, PTL

\* Wherever characters are typed, the lengths in the table of lines add up to
\* the characters stored (simplevi.c:753-795), for all sizes of the screen, the
\* text and the table.
THEOREM LengthsAddUp == Spec => []AllCharactersCounted
  <1>1. ToolsInv => AllCharactersCounted
    BY EditorSafe DEF ToolsInv, AllCharactersCounted
  <1> QED BY <1>1, ToolsInvariance, PTL

\* Step by step, the cursor on the screen gets where get_cursor_at would put it
\* (simplevi.c:834-874, 946-977), for all sizes of the screen and lines of any
\* length.
THEOREM CursorGoesAlong == Spec => CursorFollows
  <1>1. ToolsInv /\ [Next]_vars =>
           [program = "editor" => editor!CursorKept]_vars
    <2> SUFFICES ASSUME ToolsInv, [Next]_vars, program = "editor"
                 PROVE  editor!CursorKept
      OBVIOUS
    <2>1. [editor!Next]_(editor!editorVars) BY OneProgram DEF ProgramSteps
    <2>2. EditorInv /\ ViewInv BY DEF ToolsInv
    <2> QED BY <2>1, <2>2, AllSizes, ViewKept
  <1> QED BY <1>1, ToolsInvariance, PTL DEF Spec, CursorFollows

\* A printable character or a newline, inserted where the two cursors agree,
\* leaves them together and the table of lines true to the text, whatever the
\* text is (simplevi.c:749-795).
THEOREM TableStaysTrue == Spec => EditsKeepTable
  <1>1. ToolsInv /\ [Next]_vars =>
           [program = "editor" => editor!TableKept]_vars
    <2> SUFFICES ASSUME ToolsInv, [Next]_vars, program = "editor"
                 PROVE  editor!TableKept
      OBVIOUS
    <2>1. [editor!Next]_(editor!editorVars) BY OneProgram DEF ProgramSteps
    <2>2. EditorInv /\ ViewInv /\ BehindInv BY DEF ToolsInv
    <2> QED BY <2>1, <2>2, AllSizes, TableStep
  <1> QED BY <1>1, ToolsInvariance, PTL DEF Spec, EditsKeepTable
=============================================================================
