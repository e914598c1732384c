-------------------------------- MODULE Fifo --------------------------------
(***************************************************************************)
(* What a pipe promises: the bytes come out in the order they went in,     *)
(* none of them lost, doubled or made up, and at most Capacity of them are *)
(* under way.                                                              *)
(***************************************************************************)
EXTENDS Sequences, Naturals

CONSTANTS Byte, Capacity

VARIABLES q,      \* the bytes under way
          moved   \* the bytes the last step put in or took out

Init == q = <<>> /\ moved = <<>>

Put(s) == Len(q) + Len(s) <= Capacity /\ q' = q \o s /\ moved' = s
Get(k) == q' = SubSeq(q, k + 1, Len(q)) /\ moved' = SubSeq(q, 1, k)
Renew == q' = <<>> /\ moved' = <<>>

Next ==
  \/ \E n \in 0..Capacity : \E s \in [1..n -> Byte] : Put(s)
  \/ \E k \in 0..Len(q) : Get(k)
  \/ Renew

Spec == Init /\ [][Next]_<<q, moved>>
=============================================================================
