---------------------------- MODULE MCVitalOrgan ----------------------------
(***************************************************************************)
(* The vital organ: its life loop, what it learns and how it keeps its     *)
(* balance.  The loop's states depend on none of the other parts, and only *)
(* the personality is shared, which the board reads: interleavings add     *)
(* nothing, so a behaviour moves one part, the board under personalities   *)
(* that the memory can come to.                                            *)
(*                                                                         *)
(* The periods of the loop keep the order they have in the code, the       *)
(* memory and the board its numbers; the synapses are scaled down so that  *)
(* two nodes and two links reach every limit.                              *)
(***************************************************************************)
EXTENDS VitalLoop, Epigenome, Homeostasis, Synapses, Bitwise

VARIABLE focus

learning == <<epigenomeVars, homeostasisVars, synapsesVars>>
organVars == <<vars, learning, focus>>

Budgets == [o \in Organs |-> 3]

MCBitXor(a, b) == a ^^ b

(* Where a life of hardship and a serene one lead.                         *)
Biases == {2, 251}

MCWeights == {-3, 2}
MCSignals == {2}
MCActivationFloor == -2
MCDepressionFloor == -2

(* A clock in 24-hour mode is read right in both of its encodings.         *)
ASSUME ClockRead ==
    \A h \in 0 .. 23 : /\ Hours(h, TRUE, TRUE) = h
                       /\ Hours((h \div 10) * 16 + (h % 10), FALSE, TRUE) = h

(* Bound of the model: a life is mostly hard or mostly easy.               *)
MostlyOne ==
    /\ memory.trauma <= 1 \/ memory.success <= 1
    /\ memory.total <= memory.trauma + memory.success + 1

OrganInit ==
    /\ focus \in {"life", "memory", "balance", "synapses"}
    /\ Init
    /\ EpigenomeInit
    /\ HomeostasisInit
    /\ SynapsesInit

Lives(A) == focus = "life" /\ A /\ UNCHANGED <<learning, focus>>

OrganNext ==
    \/ Lives(Next)
    \/ /\ focus = "memory"
       /\ EpigenomeNext /\ MostlyOne'
       /\ UNCHANGED <<vars, homeostasisVars, synapsesVars, focus>>
    \/ /\ focus = "balance"
       /\ \E bias \in Biases : HomeostasisNext(bias)
       /\ UNCHANGED <<vars, epigenomeVars, synapsesVars, focus>>
    \/ /\ focus = "synapses"
       /\ SynapsesNext
       /\ UNCHANGED <<vars, epigenomeVars, homeostasisVars, focus>>

OrganSpec == OrganInit /\ [][OrganNext]_organVars /\ WF_organVars(Lives(Beat))
=============================================================================
