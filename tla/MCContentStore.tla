--------------------------- MODULE MCContentStore ---------------------------
(***************************************************************************)
(* Instances of ContentStore for TLC.  Requests are interchangeable, so    *)
(* they form a symmetry set in the runs; no property here is a liveness one. *)
(***************************************************************************)
EXTENDS ContentStore, TLC

RequestSymmetry == Permutations(Requests)

=============================================================================
