------------------------------ MODULE MCBotCore ------------------------------
(***************************************************************************)
(* The bot behind bot_baremetal.h: an agent with its DNA, the map of its   *)
(* territory and its instinct layer.  They share no state, so their        *)
(* interleavings add nothing: a behaviour moves one of them.               *)
(*                                                                         *)
(* Two pids and pools of one or two elements, so that each pool fills up;  *)
(* an agent whose DNA has room for two patterns; triggers from each part   *)
(* of the table with confidences on both sides of their thresholds, and a  *)
(* history of two events whose head turns over after four.                 *)
(***************************************************************************)
EXTENDS Territory, BotDna, Instinct

VARIABLE focus

botVars == <<territoryVars, dnaVars, instinctVars, focus>>

MCRoles == {"MEM_WATCH", "QUARANTINE"}
MCMarks == {"HOSTILE"}
MCTriggers == {"MEM_WRITE_EXEC", "PROC_DEBUGGER", "FS_MASS_ENCRYPT", "BOT_KILL_ATTEMPT"}
MCConfidences == {60, 85}
MCWired == CallbackType \ {"on_quarantine"}

BotInit ==
    /\ focus \in {"territory", "dna", "instinct"}
    /\ TerritoryInit
    /\ DnaInit
    /\ InstinctInit

BotNext ==
    \/ /\ focus = "territory"
       /\ TerritoryNext
       /\ UNCHANGED <<dnaVars, instinctVars, focus>>
    \/ /\ focus = "dna"
       /\ DnaNext
       /\ UNCHANGED <<territoryVars, instinctVars, focus>>
    \/ /\ focus = "instinct"
       /\ InstinctNext
       /\ UNCHANGED <<territoryVars, dnaVars, focus>>

BotSpec == BotInit /\ [][BotNext]_botVars
=============================================================================
