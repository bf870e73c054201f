------------------------------- MODULE DuCopy -------------------------------
(***************************************************************************)
(* du_copy/du_copy_v1.c: nftw calls file_usage for each file of a tree,    *)
(* those of a directory before the directory, and file_usage adds sizes up *)
(* by level.  The tree grows as it is walked: after a node at some level   *)
(* come its directory, one level up, or another node at least as deep.     *)
(***************************************************************************)
EXTENDS Integers

CONSTANTS
    MAXDEPTH,
    FileSizes,    \* what st_size may be
    MaxNodes      \* bound: nodes of all trees together

DuAssumption ==
    /\ MAXDEPTH \in Nat \ {0}
    /\ FileSizes \subseteq Nat
    /\ MaxNodes \in Nat

VARIABLES
    total_size, prev_level,
    cur_size,     \* what it has printed last
    du,           \* main is between two trees, at the first node of one, ...
    nodes,        \* visited so far
    \* history
    used,         \* per level: sizes of the nodes whose directory is to come
    cur_used,     \* of the node visited last, all that is below included
    level_twice   \* in this tree a node came right after one of its level

duVars == <<total_size, prev_level, cur_size, du, nodes, used, cur_used,
            level_twice>>

\* The level that makes nftw stop is one beyond the array.
Levels == 0 .. MAXDEPTH
Zero == [level \in Levels |-> 0]

Init ==
    /\ total_size = Zero /\ prev_level = -1 /\ cur_size = 0
    /\ du = "between" /\ nodes = 0
    /\ used = Zero /\ cur_used = 0 /\ level_twice = FALSE

\* memset; prev_level, which is static, stays.
BeginTree ==
    /\ du = "between"
    /\ total_size' = Zero
    /\ du' = "begin"
    /\ used' = Zero /\ cur_used' = 0 /\ cur_size' = 0 /\ level_twice' = FALSE
    /\ UNCHANGED <<prev_level, nodes>>

\* What the node really uses.
Account(cur_level, st_size) ==
    LET all == st_size + IF cur_level < MAXDEPTH THEN used[cur_level + 1] ELSE 0
    IN  /\ cur_used' = all
        /\ used' = [level \in Levels |->
                       CASE level = cur_level -> used[level] + all
                         [] level = cur_level + 1 -> 0
                         [] OTHER -> used[level]]
        /\ level_twice' = (level_twice \/ prev_level = cur_level)

\* Mutant of AddUp: the sum of the level that was left is kept.
AddUpOnly(cur_level, st_size) ==
    /\ cur_size' = total_size[prev_level] + st_size
    /\ total_size' = [total_size EXCEPT ![cur_level] = @ + cur_size']

\* The directory of what came before.
AddUp(cur_level, st_size) ==
    /\ cur_size' = total_size[prev_level] + st_size
    /\ total_size' = [total_size EXCEPT ![cur_level] = @ + cur_size',
                                        ![prev_level] = 0]

Size(cur_level, st_size) ==
    \/ /\ prev_level = cur_level
       /\ cur_size' = st_size /\ UNCHANGED total_size
    \/ prev_level > cur_level /\ AddUp(cur_level, st_size)
    \/ /\ prev_level < cur_level
       /\ cur_size' = st_size
       /\ total_size' = [total_size EXCEPT ![cur_level] = st_size]

\* The level of the next node of a tree is any for the first.
Follows(cur_level) == du = "walk" => cur_level >= prev_level - 1

\* The root, at level 0, is the last of its tree.
file_usage(cur_level, st_size) ==
    /\ du \in {"begin", "walk"} /\ nodes < MaxNodes
    /\ cur_level < MAXDEPTH
    /\ Follows(cur_level)
    /\ nodes' = nodes + 1
    /\ Account(cur_level, st_size)
    /\ Size(cur_level, st_size)
    /\ prev_level' = cur_level
    /\ du' = IF cur_level = 0 THEN "between" ELSE "walk"

\* "Exceeded maximum depth."
TooDeep ==
    /\ du \in {"begin", "walk"} /\ nodes < MaxNodes
    /\ du' = "exited"
    /\ UNCHANGED <<total_size, prev_level, cur_size, nodes, used, cur_used,
                   level_twice>>

\* The arguments have come to an end.
Exit ==
    /\ du = "between" /\ prev_level = 0
    /\ du' = "exited"
    /\ UNCHANGED <<total_size, prev_level, cur_size, nodes, used, cur_used,
                   level_twice>>

Next ==
    \/ BeginTree
    \/ \E level \in Levels, st_size \in FileSizes :
          file_usage(level, st_size)
    \/ TooDeep
    \/ Exit

----------------------------------------------------------------------------
(* Properties *)

DuTypeOK ==
    /\ DOMAIN total_size = Levels
    /\ prev_level \in -1 .. MAXDEPTH - 1
    /\ du \in {"between", "begin", "walk", "exited"}

\* What is printed for a node never exceeds what it uses, and is exactly that
\* in a tree in which no node comes right after another of its level.
UsageNeverOver ==
    /\ cur_size <= cur_used
    /\ ~level_twice => cur_size = cur_used
=============================================================================
