----------------------------- MODULE MCEloop -----------------------------
(***************************************************************************)
(* A small instance of Eloop.  A second has two microseconds and an int    *)
(* goes to three: five microseconds turn negative.                         *)
(***************************************************************************)
EXTENDS Eloop

MixedDelays == {<<0, 1>>, <<1, 5>>}
==========================================================================
