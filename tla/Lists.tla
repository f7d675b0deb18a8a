-------------------------------- MODULE Lists --------------------------------
(***************************************************************************)
(* The loop by which the application narrows an array down to the elements *)
(* that pass a test: filter_flights (frontend global.c:185-198) and        *)
(* filter_announces_by_tickets (global.c:306-317).  Each copies what it    *)
(* keeps behind what it has kept so far.                                   *)
(***************************************************************************)
EXTENDS Sequences, SequencesExt

\* The elements of s that are in S.
Kept(s, S) == FoldLeft(LAMBDA kept, x : IF x \in S THEN Append(kept, x) ELSE kept, <<>>, s)
=============================================================================
