------------------------------- MODULE CpCopy -------------------------------
(***************************************************************************)
(* cp_copy: versions 1 and 2 copy with read and write, version 3 maps both *)
(* files and copies memory.  While they run, someone may append to the     *)
(* source, and the disk may become full.                                   *)
(*                                                                         *)
(* A file is the sequence of its bytes, and a byte the number of its place *)
(* in the source; the NUL that version 3 writes to grow the file is 0.     *)
(***************************************************************************)
EXTENDS Integers, Sequences, SequencesExt

CONSTANTS BUFFER_SIZE,  \* of versions 1 and 2
          MaxBytes,     \* bound: bytes of the source
          MaxSpace      \* bound: bytes free on the disk

CopyAssumption == BUFFER_SIZE \in Nat \ {0} /\ MaxBytes \in Nat /\ MaxSpace \in Nat

VARIABLES
    version,   \* of the program
    same,      \* source and destination are one file
    source,    \* how many bytes the source holds
    target,    \* the destination's bytes
    space,     \* free on the disk
    next,      \* the call that comes next
    buf,       \* what was read and not written
    offset,    \* in the source: of versions 1 and 2
    file_size, \* of version 3; of all: how long the source was when copying began
    status     \* how it exited, or "SIGBUS"; or "none"

copyVars == <<version, same, source, target, space, next, buf, offset,
              file_size, status>>

Init ==
    /\ version \in 1 .. 3 /\ same \in BOOLEAN
    /\ source \in 0 .. MaxBytes /\ space \in 0 .. MaxSpace
    /\ target = <<>>
    /\ next = "open"
    /\ buf = <<>> /\ offset = 0 /\ file_size = 0
    /\ status = "none"

Bytes(first, last) == [k \in 1 .. last + 1 - first |-> first + k - 1]
Least(m, n) == IF m <= n THEN m ELSE n
Stop(value) == next' = "over" /\ status' = value
Go(call) == next' = call /\ UNCHANGED status

\* die: the user or the system refuses one of the calls that are checked.
die ==
    /\ next \in {"open", "creat", "read", "grow", "mmap", "close"}
    /\ next = "close" => version < 3
    /\ Stop("failure")
    /\ UNCHANGED <<version, same, source, target, space, buf, offset, file_size>>

open ==
    /\ next = "open"
    /\ Go("creat")
    /\ UNCHANGED <<version, same, source, target, space, buf, offset, file_size>>

\* The destination is cut to length 0, and with it the source if it is the
\* same file.  (Version 3 looks for the source's size after this.)
creat ==
    /\ next = "creat"
    /\ source' = IF same THEN 0 ELSE source
    /\ file_size' = source'
    /\ Go(IF version = 3 THEN "grow" ELSE "read")
    /\ UNCHANGED <<version, same, target, space, buf, offset>>

Appended ==
    /\ next # "over" /\ ~same /\ source < MaxBytes /\ space > 0
    /\ source' = source + 1 /\ space' = space - 1
    /\ UNCHANGED <<version, same, target, next, buf, offset, file_size, status>>

----------------------------------------------------------------------------
(* Versions 1 and 2 *)

read ==
    /\ version < 3 /\ next = "read"
    /\ LET n_chars == Least(BUFFER_SIZE, source - offset)
       IN  /\ buf' = Bytes(offset + 1, offset + n_chars)
           /\ offset' = offset + n_chars
           /\ Go(IF n_chars > 0 THEN "write" ELSE "close")
    /\ UNCHANGED <<version, same, source, target, space, file_size>>

\* Mutant of write: only -1 counts as an error.
ShortWriteIsFine ==
    /\ version < 3 /\ next = "write"
    /\ LET n == Least(Len(buf), space)
       IN  /\ target' = target \o SubSeq(buf, 1, n)
           /\ space' = space - n
           /\ IF n > 0 THEN Go("read") ELSE Stop("failure")
    /\ UNCHANGED <<version, same, source, buf, offset, file_size>>

write ==
    /\ version < 3 /\ next = "write"
    /\ LET n == Least(Len(buf), space)
       IN  /\ target' = target \o SubSeq(buf, 1, n)
           /\ space' = space - n
           /\ IF n = Len(buf) THEN Go("read") ELSE Stop("failure")
    /\ UNCHANGED <<version, same, source, buf, offset, file_size>>

close ==
    /\ next = "close"
    /\ Stop("success")
    /\ UNCHANGED <<version, same, source, target, space, buf, offset, file_size>>

----------------------------------------------------------------------------
(* Version 3 *)

\* Seek to file_size - 1 and write a byte there; neither is checked.  In an
\* empty file the seek fails and the byte is its first.
grow ==
    /\ next = "grow"
    /\ file_size' = source
    /\ LET size == IF source = 0 THEN 1 ELSE source
       IN  IF space > 0
           THEN target' = [k \in 1 .. size |-> 0] /\ space' = space - 1
           ELSE UNCHANGED <<target, space>>
    /\ Go("mmap")
    /\ UNCHANGED <<version, same, source, buf, offset>>

\* An empty file cannot be mapped.
mmap ==
    /\ next = "mmap"
    /\ IF file_size = 0 THEN Stop("failure") ELSE Go("memcpy")
    /\ UNCHANGED <<version, same, source, target, space, buf, offset, file_size>>

\* A byte that finds no room on the disk, or that is not in the file because
\* the write before failed, is a bus error.
memcpy ==
    /\ next = "memcpy"
    /\ LET holes == Len(target) - 1
           fits == target # <<>> /\ holes <= space
           n == IF target = <<>> THEN 0 ELSE Least(holes, space)
       IN  /\ target' = IF fits THEN Bytes(1, file_size)
                        ELSE Bytes(1, n) \o SubSeq(target, n + 1, Len(target))
           /\ space' = space - n
           /\ IF fits THEN Go("close") ELSE Stop("SIGBUS")
    /\ UNCHANGED <<version, same, source, buf, offset, file_size>>

Next == \/ die \/ open \/ creat \/ Appended \/ read \/ write \/ close
        \/ grow \/ mmap \/ memcpy

Spec == Init /\ [][Next]_copyVars

----------------------------------------------------------------------------
(* Properties *)

CopyTypeOK ==
    /\ source \in 0 .. MaxBytes /\ space \in 0 .. MaxSpace
    /\ \A k \in DOMAIN target : target[k] \in 0 .. MaxBytes
    /\ Len(target) <= MaxBytes + 1
    /\ offset \in 0 .. MaxBytes /\ file_size \in 0 .. MaxBytes
    /\ next \in {"open", "creat", "read", "write", "grow", "mmap", "memcpy",
                 "close", "over"}
    /\ status \in {"none", "success", "failure", "SIGBUS"}

\* A copy that reports success has every byte that the source held when the
\* copying began, and nothing but bytes of the source in their order.  (Of a
\* file that is copied to itself nothing is left then.)
CopyIsTrue ==
    status = "success" =>
       /\ IsPrefix(target, Bytes(1, source))
       /\ file_size <= Len(target)
=============================================================================
