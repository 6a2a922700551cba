----------------------------- MODULE MCEncoder -----------------------------
(* Encoder on a clock of a few ticks; see MCEncoder.cfg for the bounds.     *)
EXTENDS Encoder
=============================================================================
