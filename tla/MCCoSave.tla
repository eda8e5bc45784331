------------------------------ MODULE MCCoSave ------------------------------
(***************************************************************************)
(* Instances of CoSave for TLC.  Pages are interchangeable, and so are     *)
(* request slots.                                                          *)
(***************************************************************************)
EXTENDS CoSave, TLC

RoomSymmetry == Permutations(Requests) \cup Permutations(Conns)

=============================================================================
