------------------------------ MODULE PwdCopy ------------------------------
(***************************************************************************)
(* pwd_copy, both versions: pwd climbs to the root, looks in each          *)
(* directory for the name of the one it came from, and writes the path on  *)
(* the way back.  The file system does not change meanwhile.  Version 1    *)
(* knows directories by their inode numbers alone, as readdir gives them.  *)
(*                                                                         *)
(* A directory is its device and inode number.  `names' is what readdir    *)
(* gives in a directory, in its order, but for "." and "..", which never   *)
(* are what is looked for: entries that lead to a directory (the names of  *)
(* its children, or symbolic links, which stat follows) and links that     *)
(* lead nowhere.  For a directory on another device, readdir gives the     *)
(* number of the one that is hidden below it, which is like no other here. *)
(***************************************************************************)
EXTENDS Integers, SequencesExt   \* with FiniteSets

CONSTANTS Directories, Root

PwdAssumption == Root \in Directories /\ Directories \subseteq Nat \X Nat

VARIABLES
    version,
    parent,     \* what ".." is in each directory
    names,
    pwd,        \* what the program does
    cwd,        \* where chdir has got it
    frames,     \* the calls of print_path that wait for one further up
    height, abs_pathname,
    start       \* history: where it was called

pwdVars == <<version, parent, names, pwd, cwd, frames, height, abs_pathname,
             start>>

Nowhere == <<0, 0>>
Slash == <<"/">>
DotDot == <<"..">>

----------------------------------------------------------------------------
(* File systems *)

Child(d) == {c \in Directories \ {Root} : parent[c] = d}
IsTree(up) ==
    /\ up[Root] = Root
    /\ \A set \in SUBSET (Directories \ {Root}) :
          set # {} => \E d \in set : up[d] \notin set

\* A name is that of the directory it was made for, or the link's.
Entry(d) == [name |-> <<"directory", d>>, to |-> d]
Link(to) == [name |-> <<"link">>, to |-> to]
Listings(d) == SetToSeqs({Entry(c) : c \in Child(d)})

\* At most one link in the file system, at one end of a listing.
WithLink(listing) ==
    {listing} \union
    {[listing EXCEPT ![d] = <<Link(to)>> \o @] :
        d \in Directories, to \in Directories \union {Nowhere}}
    \union
    {[listing EXCEPT ![d] = Append(@, Link(to))] :
        d \in Directories, to \in Directories \union {Nowhere}}

Init ==
    /\ parent \in {up \in [Directories -> Directories] : IsTree(up)}
    /\ \E listing \in
             [Directories -> UNION {Listings(d) : d \in Directories}] :
          /\ \A d \in Directories : listing[d] \in Listings(d)
          \* version 1 does not follow links, and is given none
          /\ \/ version = 1 /\ names = listing
             \/ version = 2 /\ names \in WithLink(listing)
    /\ start \in Directories
    /\ cwd = start
    /\ frames = <<>> /\ height = 0 /\ abs_pathname = <<>>
    /\ pwd = "climb"

----------------------------------------------------------------------------

\* The first entry that leads to a directory, in one where stat fails for
\* none before it.
inum_to_name(dir, d) ==
    {names[dir][k].name : k \in
        {k \in DOMAIN names[dir] :
            /\ names[dir][k].to = d
            /\ \A j \in 1 .. k - 1 : names[dir][j].to \notin {d, Nowhere}}}

\* Version 1: the entry with the number of d, be it "..", which in the root
\* of a device is the directory itself.
inum_to_name_1(dir, d) ==
    LET numbered == <<dir[1], d[2]>>
    IN  {Entry(c).name : c \in Child(dir) \intersect {numbered}}
        \union {DotDot : c \in {parent[dir]} \intersect {numbered}}

NameOf(dir, d) == IF version = 1 THEN inum_to_name_1(dir, d)
                  ELSE inum_to_name(dir, d)

\* Mutant of AtRoot: devices are not compared.
SameInode == parent[cwd][2] = cwd[2]

AtRoot == IF version = 1 THEN parent[cwd][2] = cwd[2] ELSE parent[cwd] = cwd

\* chdir(".."), inum_to_name, and the call for the directory above.
Climb ==
    /\ pwd = "climb" /\ ~AtRoot
    /\ cwd' = parent[cwd]
    /\ \E its_name \in NameOf(cwd', cwd) :
          frames' = Append(frames, its_name)
    /\ height' = IF version = 1 THEN height ELSE height + 1
    /\ UNCHANGED <<version, parent, names, pwd, abs_pathname, start>>

\* "could not stat", "Error looking for i-node number"
CouldNotStat ==
    /\ pwd = "climb" /\ ~AtRoot
    /\ cwd' = parent[cwd]
    /\ NameOf(cwd', cwd) = {}
    /\ pwd' = "failed"
    /\ UNCHANGED <<version, parent, names, frames, height, abs_pathname, start>>

\* "must be at root"
Top ==
    /\ pwd = "climb" /\ AtRoot
    /\ abs_pathname' = Append(abs_pathname, Slash)
    /\ pwd' = "return"
    /\ UNCHANGED <<version, parent, names, cwd, frames, height, start>>

Return ==
    /\ pwd = "return" /\ frames # <<>>
    /\ abs_pathname' =
          IF version = 1 THEN abs_pathname \o <<Slash, Last(frames)>>
          ELSE abs_pathname \o <<Last(frames)>>
               \o (IF height > 1 THEN <<Slash>> ELSE <<>>)
    /\ frames' = Front(frames)
    /\ height' = IF version = 1 THEN height ELSE height - 1
    /\ UNCHANGED <<version, parent, names, pwd, cwd, start>>

PrintPath ==
    /\ pwd = "return" /\ frames = <<>>
    /\ pwd' = "printed"
    /\ UNCHANGED <<version, parent, names, cwd, frames, height, abs_pathname, start>>

Next == Climb \/ CouldNotStat \/ Top \/ Return \/ PrintPath

----------------------------------------------------------------------------
(* Properties *)

PwdTypeOK ==
    /\ version \in {1, 2}
    /\ pwd \in {"climb", "return", "printed", "failed"}
    /\ cwd \in Directories
    /\ height = IF version = 1 THEN 0 ELSE Len(frames)

\* Where the names of a path lead from the root.
Resolve(path) ==
    LET steps == SelectSeq(path, LAMBDA e : e # Slash)
        lead[n \in 0 .. Len(steps)] ==
            IF n = 0 THEN {Root}
            ELSE UNION {{e.to : e \in {e \in ToSet(names[d]) :
                                          e.name = steps[n]}} :
                           d \in lead[n - 1] \intersect Directories}
    IN  lead[Len(steps)]

\* Nothing is mounted between d and the root, nor on d itself.
OneDevice(d) ==
    LET above[n \in Nat] == IF n = 0 THEN d ELSE parent[above[n - 1]]
    IN  \A n \in 0 .. Cardinality(Directories) : above[n][1] = Root[1]

\* The path that is printed begins with a slash, has one between two names and
\* none at its end (version 1 begins with two), and leads from the root to
\* where the program was called; version 1 finds it wherever nothing is mounted
\* on the way.
PathLeadsBack ==
    /\ pwd = "printed" /\ version = 2 =>
          /\ Len(abs_pathname) = 1 \/ Len(abs_pathname) % 2 = 0
          /\ \A n \in DOMAIN abs_pathname :
                n % 2 = 1 <=> abs_pathname[n] = Slash
          /\ Resolve(abs_pathname) = {start}
    /\ version = 1 /\ OneDevice(start) =>
          /\ pwd # "failed"
          /\ pwd = "printed" => Resolve(abs_pathname) = {start}
=============================================================================
