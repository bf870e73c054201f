------------------------------- MODULE Stream -------------------------------
(***************************************************************************)
(* What pipes, FIFOs and connections promise, whatever processes they run  *)
(* through: on each of them, what comes out is what went in, in order, and *)
(* a reader who leaves because it has come to the end has everything.  A   *)
(* service that answers each request once, in the order of its client, is  *)
(* a stream from the client to itself.                                     *)
(***************************************************************************)
EXTENDS Sequences, Integers

\* Functions over the streams there are.
VARIABLES sent,      \* all that went in
          received,  \* all that came out
          sender,    \* "open" or "closed"
          reader     \* "reading", "finished" at the end, or "left" before it

streamVars == <<sent, received, sender, reader>>

Init ==
    \A c \in DOMAIN sent :
        /\ sent[c] = <<>> /\ received[c] = <<>>
        /\ sender[c] = "open" /\ reader[c] = "reading"

\* f changes at c only, to something that satisfies the rest of the action.
At(f, g, c) == g = [f EXCEPT ![c] = g[c]]
Longer(s, t) == Len(t) > Len(s) /\ SubSeq(t, 1, Len(s)) = s

\* Without a pipe on its way, an item arrives as it is sent.
Send(c) ==
    /\ sender[c] = "open"
    /\ At(sent, sent', c) /\ Longer(sent[c], sent'[c])
    /\ \/ UNCHANGED received
       \/ At(received, received', c) /\ received[c] = sent[c]
          /\ received'[c] = sent'[c]
    /\ At(sender, sender', c)
    /\ UNCHANGED reader

Close(c) ==
    /\ sender[c] = "open" /\ sender' = [sender EXCEPT ![c] = "closed"]
    /\ UNCHANGED <<sent, received, reader>>

Receive(c) ==
    /\ reader[c] = "reading"
    /\ At(received, received', c) /\ Longer(received[c], received'[c])
    /\ received'[c] = SubSeq(sent[c], 1, Len(received'[c]))
    /\ UNCHANGED <<sent, sender, reader>>

Finish(c) ==
    /\ reader[c] = "reading" /\ sender[c] = "closed" /\ received[c] = sent[c]
    /\ reader' = [reader EXCEPT ![c] = "finished"]
    /\ UNCHANGED <<sent, received, sender>>

\* A reader that is also the sender closes its end as it leaves.
Leave(c) ==
    /\ reader[c] = "reading" /\ reader' = [reader EXCEPT ![c] = "left"]
    /\ At(sender, sender', c) /\ sender'[c] \in {sender[c], "closed"}
    /\ UNCHANGED <<sent, received>>

Next == \E c \in DOMAIN sent :
    Send(c) \/ Close(c) \/ Receive(c) \/ Finish(c) \/ Leave(c)

Spec == Init /\ [][Next]_streamVars
=============================================================================
