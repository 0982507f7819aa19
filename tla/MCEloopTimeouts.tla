------------------------- MODULE MCEloopTimeouts -------------------------
(****************************************************************************)
(* A small instance of EloopTimeouts.  A second has two microseconds and an *)
(* int is at most 3, so an unsigned int is at most 7.                       *)
(****************************************************************************)
EXTENDS EloopTimeouts, TLC

Symmetry == Permutations(EloopData)

(* Delays the casts leave alone: nothing, one and three microseconds (a carry), *)
(* one second.                                                                  *)
SmallDelays == {<<0, 0>>, <<0, 1>>, <<0, 3>>, <<1, 0>>}

==========================================================================
