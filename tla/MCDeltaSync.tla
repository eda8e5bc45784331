----------------------------- MODULE MCDeltaSync -----------------------------
(* Instances of DeltaSync for TLC; none uses symmetry. *)
EXTENDS DeltaSync, TLC

=============================================================================
