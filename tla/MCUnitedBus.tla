---------------------------- MODULE MCUnitedBus ----------------------------
(***************************************************************************)
(* The United Bus for TLC.  The .cfg files give a ring of two or three     *)
(* slots at rest and three or four dilated, with the cortex and the senses *)
(* as readers; the routes below make every case of the barrier and of the  *)
(* reader's filter happen.                                                 *)
(***************************************************************************)
EXTENDS UnitedBus

\* The senses to the cortex and to everyone, an organ that the barrier stops,
\* and the cortex to the senses.
MCRoutes == {<<4, 0>>, <<4, 255>>, <<2, 0>>, <<0, 4>>}
=============================================================================
