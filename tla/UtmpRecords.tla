---------------------------- MODULE UtmpRecords ----------------------------
(***************************************************************************)
(* The programs that read the utmp file record by record: who_copy_v3      *)
(* lists who is logged in, who_copy_v4 marks a terminal as free, and       *)
(* write_copy, in both versions, looks for a user's terminal and writes to *)
(* it what is typed.  Meanwhile people log in and out.                     *)
(*                                                                         *)
(* Terminals are numbers, and record k is that of terminal k.  A terminal  *)
(* on the command line is the set of those whose names begin with what was *)
(* typed; who_copy_v4 compares whole names.                                *)
(***************************************************************************)
EXTENDS Integers, SequencesExt

CONSTANTS
    UserNames,
    NumTerminals,
    MaxTyped      \* bound: lines typed to write_copy

\* The empty name, which no user has.
NoName == "none"

RecordsAssumption ==
    /\ NumTerminals \in Nat /\ MaxTyped \in Nat
    /\ NoName \notin UserNames

VARIABLES
    asked,        \* the command line
    utmp_file, offset,
    at,           \* where the program is
    ut_buffer,    \* the record it has read last
    shown,        \* what who_copy_v3 has listed
    typed,        \* lines write_copy has read
    received,     \* what has come to which terminal
    written,      \* history: the records as others have written them
    stayed        \* history: terminals with the same user since it began

recordVars == <<asked, utmp_file, offset, at, ut_buffer, shown, typed,
                received, written, stayed>>

\* A record may keep the name of a user that is gone.
Record == [name : UserNames, user : {TRUE}] \union
          [name : UserNames \union {NoName}, user : {FALSE}]
Dead == [name |-> NoName, user |-> FALSE]
InUse(file) == {k \in DOMAIN file : file[k].user}
Terminals == 1 .. NumTerminals

Commands ==
    {[command |-> "who", name |-> NoName, lines |-> Terminals]} \union
    {[command |-> "logout", name |-> NoName, lines |-> {k}] :
        k \in Terminals} \union
    [command : {"write"}, name : UserNames, lines : SUBSET Terminals]

Init ==
    /\ asked \in Commands
    /\ utmp_file \in BoundedSeq(Record, NumTerminals)
    /\ offset = 0
    /\ at = "read"
    /\ ut_buffer = Dead
    /\ shown = <<>> /\ typed = 0 /\ received = <<>>
    /\ written = utmp_file
    /\ stayed = InUse(utmp_file)

----------------------------------------------------------------------------
(* The loop of reads *)

Go(to) ==
    /\ at' = to
    /\ UNCHANGED <<asked, written, stayed>>

\* Each program looks at other fields: who_copy_v4 at the name and not at the
\* type, and write_copy likewise.
Wanted(k, record) ==
    CASE asked.command = "who" -> record.user
      [] asked.command = "logout" -> k \in asked.lines /\ record.name = NoName
      [] asked.command = "write" -> k \in asked.lines /\ record.name = asked.name

ReadRecord ==
    /\ at = "read" /\ offset < Len(utmp_file)
    /\ offset' = offset + 1
    /\ ut_buffer' = utmp_file[offset + 1]
    /\ Go(IF Wanted(offset + 1, ut_buffer') THEN asked.command ELSE "read")
    /\ UNCHANGED <<utmp_file, shown, typed, received>>

\* "User %s is not logged in."
EndOfFile ==
    /\ at = "read" /\ offset = Len(utmp_file)
    /\ Go(IF asked.command = "write" THEN "not found" ELSE "done")
    /\ UNCHANGED <<utmp_file, offset, ut_buffer, shown, typed, received>>

show_info ==
    /\ at = "who"
    /\ shown' = Append(shown, offset)
    /\ Go("read")
    /\ UNCHANGED <<utmp_file, offset, ut_buffer, typed, received>>

\* It seeks back over the record it has read and writes it.
Mark ==
    /\ at = "logout"
    /\ utmp_file' = [utmp_file EXCEPT ![offset] = Dead]
    /\ Go("done")
    /\ UNCHANGED <<offset, ut_buffer, shown, typed, received>>

----------------------------------------------------------------------------
(* write_copy *)

\* What create_message writes, the lines by their numbers, and eof.
Message == 0
Eof == -1
Send(text) == received' = Append(received, [line |-> offset, text |-> text])

\* The terminal is opened, and create_message's line is the first.
OpenTerminal ==
    /\ at = "write"
    /\ \/ Send(Message) /\ Go("copy")
       \/ Go("failed") /\ UNCHANGED received
    /\ UNCHANGED <<utmp_file, offset, ut_buffer, shown, typed>>

\* A write that fails ends the loop.
CopyLine ==
    /\ at = "copy" /\ typed < MaxTyped
    /\ typed' = typed + 1
    /\ \/ Send(typed') /\ Go("copy")
       \/ Go("eof") /\ UNCHANGED received
    /\ UNCHANGED <<utmp_file, offset, ut_buffer, shown>>

EndOfInput ==
    /\ at = "copy"
    /\ Go("eof")
    /\ UNCHANGED <<utmp_file, offset, ut_buffer, shown, typed, received>>

\* Nobody looks at how this write ends.
WriteEof ==
    /\ at = "eof"
    /\ Send(Eof) \/ UNCHANGED received
    /\ Go("done")
    /\ UNCHANGED <<utmp_file, offset, ut_buffer, shown, typed>>

----------------------------------------------------------------------------
(* Other processes *)

Ended == at \in {"done", "not found", "failed"}

Put(k, record) ==
    /\ ~Ended
    /\ utmp_file' = [utmp_file EXCEPT ![k] = record]
    /\ written' = [written EXCEPT ![k] = record]
    /\ stayed' = stayed \ {k}
    /\ UNCHANGED <<asked, offset, at, ut_buffer, shown, typed, received>>

LogIn ==
    \E k \in DOMAIN utmp_file \ InUse(utmp_file), name \in UserNames :
        Put(k, [name |-> name, user |-> TRUE])

LogOut ==
    \E k \in InUse(utmp_file) : \E name \in {NoName, utmp_file[k].name} :
        Put(k, [name |-> name, user |-> FALSE])

Next ==
    \/ ReadRecord \/ EndOfFile \/ show_info \/ Mark
    \/ OpenTerminal \/ CopyLine \/ EndOfInput \/ WriteEof
    \/ LogIn \/ LogOut

Spec == Init /\ [][Next]_recordVars

----------------------------------------------------------------------------
(* Properties *)

RecordsTypeOK ==
    /\ asked \in Commands
    /\ utmp_file \in Seq(Record) /\ DOMAIN written = DOMAIN utmp_file
    /\ offset \in 0 .. Len(utmp_file)
    /\ ut_buffer \in Record
    /\ typed \in 0 .. MaxTyped

\* who_copy_v3 lists nobody twice, and whoever stays.
WhoIsComplete ==
    /\ \A j, k \in DOMAIN shown : j < k => shown[j] < shown[k]
    /\ at = "done" /\ asked.command = "who" => stayed \subseteq ToSet(shown)

\* who_copy_v4 writes to the record of the terminal it was given and to no
\* other, and not if the same user has been there since before.
OthersAreKept ==
    \A k \in DOMAIN utmp_file :
        utmp_file[k] # written[k] =>
            asked.command = "logout" /\ k \in asked.lines /\ k \notin stayed

\* write_copy says that a user is not logged in only if the user was not at a
\* terminal that was asked for all the time; what it sends gets to one that
\* was asked for: a message, lines in order and none left out, and an end.
MessageIsWhole ==
    /\ at = "not found" =>
          \A k \in stayed \intersect asked.lines :
              utmp_file[k].name # asked.name
    /\ \A n \in DOMAIN received :
          /\ received[n].line = offset /\ offset \in asked.lines
          /\ \/ n = 1 /\ received[n].text = Message
             \/ n > 1 /\ received[n].text = n - 1
             \/ n = Len(received) /\ n > 1 /\ received[n].text = Eof
=============================================================================
