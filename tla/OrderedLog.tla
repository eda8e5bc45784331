----------------------------- MODULE OrderedLog -----------------------------
(***************************************************************************)
(* What readers of a document's channel are promised, whatever relays the  *)
(* frames: one order of positions, and of every sender's frames a reader   *)
(* takes one after the other with none left out.  How far it gets at a     *)
(* time, and when it starts over, is left open.                            *)
(***************************************************************************)
EXTENDS Naturals, Sequences

CONSTANT Readers

VARIABLES
    author,  \* who posted each position
    view     \* what each reader has taken of it; empty for nobody

(* Of every sender a reader has taken all its frames up to some point.     *)
InOrder(taken) ==
    \A hi \in taken : \A q \in 1..hi : author[q] = author[hi] => q \in taken

Init ==
    /\ author = <<>>
    /\ view = [c \in Readers |-> {}]

(* A reader keeps what it has and goes on where it stopped, or starts over *)
(* with nothing.                                                           *)
GoesOn(c) ==
    \/ view'[c] \in {view[c], {}}
    \/ /\ view[c] \subseteq view'[c]
       /\ view'[c] \subseteq DOMAIN author
       /\ InOrder(view'[c])

Append1(c) ==
    /\ author' = Append(author, c)
    /\ UNCHANGED view

Read ==
    /\ UNCHANGED author
    /\ view' \in [Readers -> SUBSET (DOMAIN author)]
    /\ \A c \in Readers : GoesOn(c)

Next == Read \/ \E c \in Readers : Append1(c)

Spec == Init /\ [][Next]_<<author, view>>
=============================================================================
