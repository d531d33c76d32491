------------------------------ MODULE MCKernel ------------------------------
(***************************************************************************)
(* The two parts of the kernel that decide who acts: the control planes    *)
(* and the scheduler.  They share no variable, so their interleavings add  *)
(* nothing: a behaviour moves one of them.                                 *)
(*                                                                         *)
(* The planes see one vital organ and two that are not, with healths on    *)
(* both sides of every threshold and above 100.  The scheduler has two     *)
(* slots, a day of two beats and one restart, so that slots are used again *)
(* with what is left in them.                                              *)
(***************************************************************************)
EXTENDS ControlPlanes, Brainstem

\* The organs that report to the planes.
CONSTANTS kernel, swarm, cortex

VARIABLE focus

kernelVars == <<planeVars, schedulerVars, focus>>

KernelInit ==
    /\ focus \in {"planes", "scheduler"}
    /\ PlanesInit
    /\ BrainstemInit

Governs(A) == focus = "planes" /\ A /\ UNCHANGED <<schedulerVars, focus>>
Schedules(A) == focus = "scheduler" /\ A /\ UNCHANGED <<planeVars, focus>>

KernelNext ==
    \/ Governs(PlanesNext)
    \/ Schedules(BrainstemNext)

(* The timer ticks, and the heartbeat goes on along its list.              *)
KernelSpec ==
    /\ KernelInit /\ [][KernelNext]_kernelVars
    /\ WF_kernelVars(Governs(Tick)) /\ WF_kernelVars(Schedules(Run))
=============================================================================
