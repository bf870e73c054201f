---------------------------- MODULE BoundedFifo ----------------------------
(***************************************************************************)
(* What a bounded first-in first-out channel promises: the numbers         *)
(* 1 .. Total are put in in order, at most Capacity of them are in the     *)
(* channel at any time, and they come out in the order they went in, none  *)
(* of them lost, repeated or altered.                                      *)
(***************************************************************************)
EXTENDS Integers, Sequences

CONSTANTS Capacity,  \* how many items the channel holds at most
          Total      \* how many items the sender has to send

VARIABLES queue,     \* the items in the channel, oldest first
          sent,      \* how many items were put in
          received   \* every item taken out so far, in order

fifoVars == <<queue, sent, received>>

Init == queue = <<>> /\ sent = 0 /\ received = <<>>

Put ==
    /\ sent < Total
    /\ Len(queue) < Capacity
    /\ sent' = sent + 1
    /\ queue' = Append(queue, sent + 1)
    /\ UNCHANGED received

Get ==
    /\ queue # <<>>
    /\ received' = Append(received, Head(queue))
    /\ queue' = Tail(queue)
    /\ UNCHANGED sent

Next == Put \/ Get

Spec == Init /\ [][Next]_fifoVars
=============================================================================
