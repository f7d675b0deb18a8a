----------------------------- MODULE MCCheckout -----------------------------
(* Small instances of Checkout.                                            *)
EXTENDS Checkout

\* Planes of four rows, at a price per seat of 2 (economy) or 3 (business).
MCFlightPrice == [f \in Flight |-> 2]
MCCapacity    == [f \in Flight |-> 40]

\* Two economy seats.
MCSeat == {<<3, 0>>, <<3, 1>>}

MCPrice == 0..4

Symmetry == Permutations(User) \cup Permutations(Flight)
=============================================================================
