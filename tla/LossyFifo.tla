------------------------------ MODULE LossyFifo ------------------------------
(***************************************************************************)
(* What a CONNECT-IP session promises about the packets the host sends:    *)
(* they leave in the order they were accepted, each at most once, a packet  *)
(* may be dropped on the way, and whatever is still inside when the session *)
(* ends is lost with it.                                                    *)
(***************************************************************************)
EXTENDS Naturals, Sequences, SequencesExt

VARIABLES accepted, inside, out, open

vars == <<accepted, inside, out, open>>

Init == accepted = 0 /\ inside = <<>> /\ out = <<>> /\ open = TRUE

Accept ==
    /\ open
    /\ accepted' = accepted + 1
    /\ inside' = Append(inside, accepted')
    /\ UNCHANGED <<out, open>>

Deliver ==
    /\ open
    /\ \E k \in 1 .. Len(inside) :
          /\ out' = out \o SubSeq(inside, 1, k)
          /\ inside' = SubSeq(inside, k + 1, Len(inside))
    /\ UNCHANGED <<accepted, open>>

Drop ==
    /\ open
    /\ \E i \in 1 .. Len(inside) : inside' = RemoveAt(inside, i)
    /\ UNCHANGED <<accepted, out, open>>

(* The last step of the session may still deliver some of them.             *)
End ==
    /\ open
    /\ open' = FALSE
    /\ \E k \in 0 .. Len(inside) : out' = out \o SubSeq(inside, 1, k)
    /\ inside' = <<>>
    /\ UNCHANGED accepted

(* A reader that outlives its session takes a packet nobody will send.      *)
AcceptTooLate ==
    /\ ~open
    /\ accepted' = accepted + 1
    /\ UNCHANGED <<inside, out, open>>

Next == Accept \/ Deliver \/ Drop \/ End \/ AcceptTooLate

Spec == Init /\ [][Next]_vars

=============================================================================
