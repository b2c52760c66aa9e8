--------------------------- MODULE IngressChannel ---------------------------
(***************************************************************************)
(* What an ingress source promises to the owner of the channel it writes to *)
(* (comments of writeToOutChan and of the shutdown sequence of RealMain):    *)
(* records are appended while the source is open, never more than the       *)
(* channel holds; once it is stopped nothing is written any more, so the    *)
(* owner may close the channel; what was accepted before is still there for *)
(* the receiver, in order.                                                  *)
(***************************************************************************)
EXTENDS Naturals, Sequences

CONSTANTS Record, ChanCap
VARIABLES buffer, open, closed

Init == buffer = <<>> /\ open = TRUE /\ closed = FALSE

Write ==
    /\ open /\ Len(buffer) < ChanCap
    /\ \E r \in Record : buffer' = Append(buffer, r)
    /\ UNCHANGED <<open, closed>>

Stop == open /\ open' = FALSE /\ UNCHANGED <<buffer, closed>>

Close == ~open /\ ~closed /\ closed' = TRUE /\ UNCHANGED <<buffer, open>>

Read ==
    /\ buffer # <<>>
    /\ buffer' = Tail(buffer)
    /\ UNCHANGED <<open, closed>>

Next == Write \/ Stop \/ Close \/ Read
Spec == Init /\ [][Next]_<<buffer, open, closed>>
=============================================================================
