----------------------------- MODULE ByteStream -----------------------------
(***************************************************************************)
(* What a terminal's output promises: the bytes put arrive in the order in *)
(* which they were put, each once, until the connection ends.  Then what   *)
(* has not arrived never will.                                             *)
(***************************************************************************)
EXTENDS Integers, Sequences

VARIABLES
    queue,      \* bytes on their way
    delivered,  \* bytes that arrived
    ended

Init == queue = <<>> /\ delivered = <<>> /\ ended = FALSE

\* Bytes are numbered in the order in which they are put.
Put ==
    /\ ~ended
    /\ Len(queue') > Len(queue)
    /\ queue' = [i \in 1 .. Len(queue') |-> Len(delivered) + i]
    /\ UNCHANGED <<delivered, ended>>

Deliver ==
    /\ ~ended
    /\ \E n \in 1 .. Len(queue) :
         /\ delivered' = delivered \o SubSeq(queue, 1, n)
         /\ queue' = SubSeq(queue, n + 1, Len(queue))
    /\ ended' = ended

\* The peer has left, or what the socket would not take is dropped at the end.
End ==
    /\ ended' = TRUE
    /\ queue' = <<>>
    /\ delivered' = delivered

Next == Put \/ Deliver \/ End

Spec == Init /\ [][Next]_<<queue, delivered, ended>>
=============================================================================
