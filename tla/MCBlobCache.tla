---------------------------- MODULE MCBlobCache ----------------------------
EXTENDS BlobCache

Symmetry == Permutations(Keys) \cup Permutations(Procs) \cup Permutations(Calls)

(* Temporary files left behind are only counted: no step and no property   *)
(* of the run looks at their number, so states that differ in it are one.  *)
NoLitter == <<storeVars, index, file, doomed, news, deaf, sweep, told, faults>>
=============================================================================
