------------------------------ MODULE MCOrgans ------------------------------
(***************************************************************************)
(* The organs on a small ring for TLC: the readers are the cortex, the     *)
(* senses and the dream daemon.  A weight that the host trusts and one it  *)
(* does not, so that a graft is both taken and rejected; MaxDna is filled  *)
(* by two trusts of one signature.                                         *)
(***************************************************************************)
EXTENDS Organs, TLC

CONSTANTS self, alien, w1, w2

\* The watchdog is disarmed while the organism runs.
MCBindings == {<<3, "none">>}

MCDnaOf == (w1 :> self) @@ (w2 :> alien)

\* Bound on the organs in use at once: trusts, triggered reflexes and frames.
FewOrgans == Len(genome) + status.triggered + frames <= 2
=============================================================================
