------------------------------ MODULE MCBanker ------------------------------
(* Instances of Banker for TLC. *)
EXTENDS Banker

LastSlot == {NPROC}
=============================================================================
