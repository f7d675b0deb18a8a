-------------------------------- MODULE MCWire --------------------------------
(* Small instances of Wire; the constants are numbers and sets of numbers. *)
EXTENDS Wire
=============================================================================
