------------------------------- MODULE LsCopy -------------------------------
(***************************************************************************)
(* ls_copy: versions 1 to 3 read a directory entry by entry, ls_fts has    *)
(* fts read and stat all entries first.  Meanwhile others create and       *)
(* remove entries.                                                         *)
(*                                                                         *)
(* Two directories are enough to tell what is looked up in which: "here"   *)
(* is the working directory.                                               *)
(***************************************************************************)
EXTENDS Integers, FiniteSets

CONSTANTS Names,          \* of entries, which both directories may have
          MaxChanges      \* bound: entries created and removed

LsAssumption == MaxChanges \in Nat

Dirs == {"here", "there"}

VARIABLES
    version,     \* "v1", "v2", "v3" or "fts"
    long,        \* long listing
    args,        \* the directories still to be listed
    dir,         \* the one that is being listed, or "none"
    fresh,       \* no listing of it is under way: opendir comes next
    entries,     \* the names in each directory
    since,       \* of dir: the names that were there ever since it was opened
    seen,        \* of dir: the names that were there at some time since
    returned,    \* the names that readdir has returned
    entry,       \* the one that is waiting for lstat, as a set
    children,    \* fts: the names it has read, and which of them have no status
    shown,       \* what was printed: directory, name, and where the status is of
    changes,     \* history: how many entries were created or removed
    outcome      \* of the listing of dir: "none", "complete" or "spinning"

lsVars == <<version, long, args, dir, fresh, entries, since, seen, returned,
            entry, children, shown, changes, outcome>>

\* ls_fts lists the working directory, and no directory at all when it is
\* given any: its loop over the arguments has the comparison the wrong way.
Init ==
    /\ version \in {"v1", "v2", "v3", "fts"}
    /\ long \in BOOLEAN
    /\ version = "v1" => ~long
    /\ version = "v2" => long
    /\ args \in IF version = "fts" THEN {{"here"}, {}}
                ELSE SUBSET Dirs \ {{}}
    /\ dir = "none" /\ fresh = TRUE
    /\ entries \in [Dirs -> SUBSET Names]
    /\ since = {} /\ seen = {} /\ returned = {} /\ entry = {}
    /\ children = [names |-> {}, FTS_NS |-> {}]
    /\ shown = {}
    /\ changes = 0
    /\ outcome = "none"

\* Someone creates or removes an entry.
Change(d, name) ==
    /\ changes < MaxChanges
    /\ changes' = changes + 1
    /\ LET now == IF name \in entries[d] THEN entries[d] \ {name}
                  ELSE entries[d] \cup {name}
       IN  /\ entries' = [entries EXCEPT ![d] = now]
           /\ since' = IF d = dir THEN since \cap now ELSE since
           /\ seen' = IF d = dir THEN seen \cup now ELSE seen
    /\ UNCHANGED <<version, long, args, dir, fresh, returned, entry, children,
                   shown, outcome>>

\* opendir or fts_open.  The next argument is listed when this one is done.
OpenDir(d) ==
    /\ d \in args /\ fresh
    /\ args' = args \ {d} /\ dir' = d /\ fresh' = FALSE
    /\ since' = entries[d] /\ seen' = entries[d]
    /\ returned' = {} /\ outcome' = "none"
    /\ UNCHANGED <<version, long, entries, entry, children, shown, changes>>

\* "Cannot open": the directory is not listed.
CannotOpen(d) ==
    /\ d \in args /\ fresh
    /\ args' = args \ {d}
    /\ dir' = "none" /\ outcome' = "none"
    /\ UNCHANGED <<version, long, fresh, entries, since, seen, returned, entry,
                   children, shown, changes>>

Line(name, of) == [dir |-> dir, name |-> name, of |-> of]

----------------------------------------------------------------------------
(* Versions 1 to 3 *)

\* readdir returns an entry once.  It may be one that is gone meanwhile, and
\* may miss one that is new.
readdir ==
    /\ version # "fts" /\ ~fresh /\ entry = {}
    /\ \E name \in seen \ returned :
          /\ returned' = returned \cup {name}
          /\ IF long THEN entry' = {name} /\ UNCHANGED shown
             ELSE shown' = shown \cup {Line(name, "name only")}
                  /\ UNCHANGED entry
    /\ UNCHANGED <<version, long, args, dir, fresh, entries, since, seen,
                   children, changes, outcome>>

\* Mutant of LookedUpIn: version 3 looks there, too.
WorkingDirectory == "here"

\* Version 3 puts the directory's name before the entry's; version 2 does not,
\* and looks in the working directory.
LookedUpIn == IF version = "v2" THEN "here" ELSE dir

\* Without a status (it was removed in between), the loop goes on.
lstat ==
    /\ entry # {}
    /\ entry' = {}
    /\ shown' = shown \cup {Line(name, LookedUpIn) :
                               name \in entry \cap entries[LookedUpIn]}
    /\ UNCHANGED <<version, long, args, dir, fresh, entries, since, seen,
                   returned, children, changes, outcome>>

EndOfDirectory ==
    /\ version # "fts" /\ ~fresh /\ entry = {}
    /\ since \subseteq returned
    /\ fresh' = TRUE /\ outcome' = "complete"
    /\ UNCHANGED <<version, long, args, dir, entries, since, seen, returned,
                   entry, children, shown, changes>>

----------------------------------------------------------------------------
(* ls_fts *)

\* fts_children reads the names first ...
ReadNames ==
    /\ version = "fts" /\ ~fresh /\ outcome = "none" /\ returned = {}
    /\ returned' = entries[dir]
    /\ children' = [children EXCEPT !.names = entries[dir]]
    /\ IF entries[dir] = {} THEN fresh' = TRUE /\ outcome' = "complete"
       ELSE UNCHANGED <<fresh, outcome>>
    /\ UNCHANGED <<version, long, args, dir, entries, since, seen, entry,
                   shown, changes>>

\* ... and then their status.  The loop prints the entries, and turns for ever
\* on the first that has no status: continue does not take the next one.
PrintChildren ==
    /\ version = "fts" /\ ~fresh /\ outcome = "none" /\ returned # {}
    /\ LET gone == children.names \ entries[dir]
       IN  /\ children' = [children EXCEPT !.FTS_NS = gone]
           /\ IF gone = {}
              THEN /\ shown' = {Line(name, IF long THEN dir ELSE "name only") :
                                   name \in children.names}
                   /\ fresh' = TRUE /\ outcome' = "complete"
              ELSE \E before \in SUBSET (children.names \ gone) :
                      /\ shown' = {Line(name, IF long THEN dir
                                              ELSE "name only") :
                                      name \in before}
                      /\ outcome' = "spinning" /\ UNCHANGED fresh
    /\ UNCHANGED <<version, long, args, dir, entries, since, seen, returned,
                   entry, changes>>

Next ==
    \/ \E d \in Dirs : OpenDir(d) \/ CannotOpen(d)
    \/ readdir \/ lstat \/ EndOfDirectory
    \/ ReadNames \/ PrintChildren
    \/ \E d \in Dirs, name \in Names : Change(d, name)

Spec == Init /\ [][Next]_lsVars

----------------------------------------------------------------------------
(* Properties *)

LsTypeOK ==
    /\ dir \in Dirs \cup {"none"} /\ args \subseteq Dirs
    /\ since \subseteq seen /\ seen \subseteq Names
    /\ returned \subseteq Names
    /\ entry \subseteq returned /\ Cardinality(entry) <= 1
    /\ children.names \subseteq Names /\ children.FTS_NS \subseteq children.names
    /\ \A l \in shown : l.dir \in Dirs /\ l.name \in Names
    /\ changes \in 0 .. MaxChanges
    /\ outcome \in {"none", "complete", "spinning"}

\* A listing has every entry that was there from its opening to its end, and
\* none that was not there at all; a status is the entry's own and of no
\* namesake.  Version 2 keeps this in the working directory only.
ListingIsTrue ==
    (version = "v2" => dir = "here") =>
    /\ outcome = "complete" =>
          \A name \in since : \E l \in shown : l.dir = dir /\ l.name = name
    /\ \A l \in shown :
          l.dir = dir => l.name \in seen /\ l.of \in {dir, "name only"}
=============================================================================
