----------------------------- MODULE UtmpReader -----------------------------
(***************************************************************************)
(* who_copy/who_copy_v5: who lists the records of the utmp file that say   *)
(* that somebody is logged in.  utmp_utils.h reads NUM_RECORDS of them at a *)
(* time and hands out pointers into its buffer.  Meanwhile people log in   *)
(* and out, which changes records in place and adds new ones at the end.   *)
(***************************************************************************)
EXTENDS Integers, SequencesExt

CONSTANTS
    NUM_RECORDS,
    MaxRecords    \* bound: records in the file

UtmpAssumption ==
    /\ NUM_RECORDS \in Nat \ {0}
    /\ MaxRecords \in Nat

VARIABLES
    utmp_file,    \* for each record: is it a USER_PROCESS?
    offset,       \* records read from it
    utmp_buf, number_of_recs_in_buffer, current_record,
    record_ptr,   \* cell of utmp_buf that main works on
    who,          \* where main is
    shown,        \* the records it has listed
    stayed        \* history: records that were users since who began

utmpVars == <<utmp_file, offset, utmp_buf, number_of_recs_in_buffer,
              current_record, record_ptr, who, shown, stayed>>

Cells == 0 .. NUM_RECORDS - 1
Users == {k \in 1 .. Len(utmp_file) : utmp_file[k]}

\* A record in the buffer is its number and what it said when it was read.
NoRecord == [number |-> 0, user |-> FALSE]

\* main and open_utmp
Init ==
    /\ utmp_file \in BoundedSeq(BOOLEAN, MaxRecords)
    /\ offset = 0
    /\ utmp_buf = [k \in Cells |-> NoRecord]
    /\ number_of_recs_in_buffer = 0 /\ current_record = 0
    /\ record_ptr = 0
    /\ who = "next"
    /\ shown = <<>>
    /\ stayed = Users

----------------------------------------------------------------------------
(* who *)

TakeRecord(k) ==
    /\ record_ptr' = k
    /\ current_record' = k + 1
    /\ who' = "show"

NextInBuffer ==
    /\ who = "next"
    /\ current_record # number_of_recs_in_buffer
    /\ TakeRecord(current_record)
    /\ UNCHANGED <<utmp_file, offset, utmp_buf, number_of_recs_in_buffer,
                   shown, stayed>>

\* A read of the file stops at its present end.
Fill(n) ==
    /\ utmp_buf' = [k \in Cells |->
                       IF k < n THEN [number |-> offset + k + 1,
                                      user |-> utmp_file[offset + k + 1]]
                       ELSE utmp_buf[k]]
    /\ offset' = offset + n
    /\ number_of_recs_in_buffer' = n

\* Mutant of utmp_fill: a buffer that is not full is taken for the end.
FillWhole ==
    LET left == Len(utmp_file) - offset
        n == IF left < NUM_RECORDS THEN 0 ELSE NUM_RECORDS
    IN  /\ who = "next"
        /\ current_record = number_of_recs_in_buffer
        /\ Fill(n)
        /\ IF n = 0
           THEN current_record' = 0 /\ who' = "done" /\ UNCHANGED record_ptr
           ELSE TakeRecord(0)
        /\ UNCHANGED <<utmp_file, shown, stayed>>

utmp_fill ==
    LET left == Len(utmp_file) - offset
        n == IF left < NUM_RECORDS THEN left ELSE NUM_RECORDS
    IN  /\ who = "next"
        /\ current_record = number_of_recs_in_buffer
        /\ Fill(n)
        /\ IF n = 0
           THEN current_record' = 0 /\ who' = "done" /\ UNCHANGED record_ptr
           ELSE TakeRecord(0)
        /\ UNCHANGED <<utmp_file, shown, stayed>>

next_utmp == NextInBuffer \/ utmp_fill

show_info ==
    /\ who = "show"
    /\ LET record == utmp_buf[record_ptr]
       IN  shown' = IF record.user THEN Append(shown, record.number)
                    ELSE shown
    /\ who' = "next"
    /\ UNCHANGED <<utmp_file, offset, utmp_buf, number_of_recs_in_buffer,
                   current_record, record_ptr, stayed>>

----------------------------------------------------------------------------
(* Other processes *)

LogIn ==
    /\ who # "done"
    /\ \/ /\ Len(utmp_file) < MaxRecords
          /\ utmp_file' = Append(utmp_file, TRUE)
       \/ \E k \in DOMAIN utmp_file \ Users :
             utmp_file' = [utmp_file EXCEPT ![k] = TRUE]
    /\ UNCHANGED <<offset, utmp_buf, number_of_recs_in_buffer, current_record,
                   record_ptr, who, shown, stayed>>

LogOut ==
    /\ who # "done"
    /\ \E k \in Users :
          /\ utmp_file' = [utmp_file EXCEPT ![k] = FALSE]
          /\ stayed' = stayed \ {k}
    /\ UNCHANGED <<offset, utmp_buf, number_of_recs_in_buffer, current_record,
                   record_ptr, who, shown>>

Next == next_utmp \/ show_info \/ LogIn \/ LogOut

----------------------------------------------------------------------------
(* Properties *)

UtmpTypeOK ==
    /\ offset \in 0 .. Len(utmp_file)
    /\ number_of_recs_in_buffer \in 0 .. NUM_RECORDS
    /\ current_record \in 0 .. number_of_recs_in_buffer
    /\ record_ptr \in Cells
    /\ who \in {"next", "show", "done"}

\* Nobody is listed twice, the order is that of the file, and whoever is
\* logged in all the time is listed.
WhoIsComplete ==
    /\ \A j, k \in DOMAIN shown : j < k => shown[j] < shown[k]
    /\ who = "done" => stayed \subseteq ToSet(shown)
=============================================================================
