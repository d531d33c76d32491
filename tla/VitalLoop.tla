----------------------------- MODULE VitalLoop -----------------------------
(***************************************************************************)
(* The life loop of vital-baremetal: consciousness, circadian rhythm,      *)
(* pain and energy (life_loop.c, consciousness_fsm.c, nociception.c,       *)
(* energy_metabolism.c), the saved pulse (vital_persistence.c).            *)
(*                                                                         *)
(* A heartbeat runs the layers in a fixed order, and several of them ask   *)
(* for a change of consciousness, so one beat may change it more than      *)
(* once.  The board of homeostasis_regulator.c is private and nothing      *)
(* writes it, so it stays at its targets and the organism stays viable:    *)
(* the agony layer, the only way into SURVIVAL, is left out.  So are the   *)
(* Yin/Yang tension, the personality and the synapses, which no state      *)
(* below depends on, and the globules, which UnitedBus models.             *)
(***************************************************************************)
EXTENDS Integers, FiniteSetsExt

CONSTANTS
    Organs,         \* the organs registered with the liver
    Budget,         \* calories_allocated of each
    Demands,        \* amounts organs ask for with metabolism_request_energy
    Supplies,       \* amounts given with metabolism_generate_energy
    GuardianStates, \* what get_guardian_state may return (0 in the stand-alone build)
    InitialPool,    \* energy at birth (1 000 000)
    Basal,          \* basal_metabolic_rate (100)
    EconomyBasal,   \* the same in economy mode (50)
    EconomyBelow,   \* pool below which the economy mode starts (10 000)
    RecycleEvery,   \* beats between two recyclings of the budgets (50 000)
    PhaseDuration,  \* CIRCADIAN_PHASE_DURATION (25 000)
    AwareLimit,     \* beats after which idleness turns into a dream (50 000)
    DreamLimit,     \* beats after which a dream ends (10 000)
    AlertLimit,     \* beats after which an alert is resolved (5 000)
    SaveEvery,      \* beats between two saves (10 000)
    Period,         \* the pulse is counted up to twice this, then folded back by it
    PoolCap,        \* no energy is supplied beyond this
    MaxReboots      \* bound on restarts

ASSUME VitalAssumption ==
    /\ Budget \in [Organs -> Nat \ {0}]
    /\ Demands \subseteq Nat /\ Supplies \subseteq Nat
    /\ GuardianStates \subseteq 0 .. 2
    /\ \A n \in {Basal, EconomyBasal, RecycleEvery, PhaseDuration, AwareLimit, DreamLimit,
                 AlertLimit, SaveEvery, Period} : n \in Nat \ {0}
    /\ InitialPool \in Nat /\ EconomyBelow \in Nat /\ PoolCap \in Nat /\ MaxReboots \in Nat
    /\ Period >= PhaseDuration /\ Period % SaveEvery = 0

VARIABLES
    mind,       \* current_state, and for how many beats (total_cycles - state_entry_cycle)
    phase,      \* circadian_phase
    phaseAge,   \* pulse_count - phase_start_pulse
    pulse,      \* spark.pulse_count
    guardian,   \* the guardian's state in the last beat
    pool,       \* liver.total_energy_pool
    basal,      \* liver.basal_metabolic_rate
    cycle,      \* cycle_counter, modulo RecycleEvery
    consumed,   \* calories_consumed of each organ
    fasting,    \* the organs with is_fasting set
    soul,       \* the pulse saved in OO_DNA.BIN
    reboots

vars == <<mind, phase, phaseAge, pulse, guardian, pool, basal, cycle, consumed, fasting,
          soul, reboots>>

----------------------------------------------------------------------------
States == {"VOID", "EMBRYONIC", "DORMANT", "DREAMING", "AWARE", "FOCUSED", "ALERT",
           "SURVIVAL", "TRANSCEND"}

\* CONSCIOUSNESS_TRANSITION_MATRIX.
Legal ==
    [VOID      |-> {"EMBRYONIC"},
     EMBRYONIC |-> {"DORMANT", "AWARE"},
     DORMANT   |-> {"DREAMING", "AWARE"},
     DREAMING  |-> {"DORMANT", "AWARE", "TRANSCEND"},
     AWARE     |-> {"DORMANT", "DREAMING", "FOCUSED", "ALERT"},
     FOCUSED   |-> {"AWARE", "ALERT", "TRANSCEND"},
     ALERT     |-> {"AWARE", "FOCUSED", "SURVIVAL"},
     SURVIVAL  |-> {"VOID", "ALERT"},
     TRANSCEND |-> {"DORMANT", "DREAMING", "AWARE", "FOCUSED", "ALERT", "SURVIVAL"}]

\* Mutant: a refused transition restarts the clock of the current state.
TransitionRestarting(m, target) ==
    [state |-> IF target \in Legal[m.state] THEN target ELSE m.state, since |-> 0]

\* consciousness_transition: an illegal one changes nothing, not even the clock.
Transition(m, target) ==
    IF target \in Legal[m.state] THEN [state |-> target, since |-> 0] ELSE m

\* nociception_fire with PAIN_SEARING.
Searing(m) == Transition(m, "ALERT")

\* The states that time ends, where they lead, and when.
TimedStates == [AWARE    |-> [limit |-> AwareLimit, next |-> "DREAMING"],
                DREAMING |-> [limit |-> DreamLimit, next |-> "AWARE"],
                ALERT    |-> [limit |-> AlertLimit, next |-> "FOCUSED"]]

\* consciousness_tick.  The clock of a state that time does not end is not kept.
ConsciousnessTick(m) ==
    IF m.state \notin DOMAIN TimedStates THEN m
    ELSE IF m.since + 1 > TimedStates[m.state].limit
         THEN Transition(m, TimedStates[m.state].next)
         ELSE [m EXCEPT !.since = @ + 1]

----------------------------------------------------------------------------
\* The circadian rhythm: the next phase and the consciousness each one calls for.
NextPhase == [DAWN |-> "ZENITH", ZENITH |-> "DUSK", DUSK |-> "NADIR", NADIR |-> "DAWN"]
Calls == [DAWN |-> "AWARE", ZENITH |-> "FOCUSED", DUSK |-> "AWARE", NADIR |-> "DREAMING"]

PhaseTurns == phaseAge + 1 >= PhaseDuration

Circadian(m) == IF PhaseTurns THEN Transition(m, Calls[NextPhase[phase]]) ELSE m

----------------------------------------------------------------------------
\* The liver: metabolism_tick.

Famine == pool <= basal

\* Mutant: a famine is not felt.
FeelFamineNever(m) == m

FeelFamine(m) == IF Famine THEN Searing(m) ELSE m

Asleep(m) == m.state \in {"DORMANT", "DREAMING"}

\* Mutant: sleep only makes up for the basal cost.
PoolAfterSlow(m) ==
    (IF Famine THEN 0 ELSE pool - basal) + (IF Asleep(m) THEN basal ELSE 0)

\* Being alive costs the basal rate; sleep gives twice as much back.
PoolAfter(m) ==
    (IF Famine THEN 0 ELSE pool - basal) + (IF Asleep(m) THEN 2 * basal ELSE 0)

\* Mutant: the organs that fast are forgotten.
RecycleFasting == consumed' = [o \in Organs |-> consumed[o] \div 2] /\ UNCHANGED fasting

\* The budgets are partly restored.
Recycle == consumed' = [o \in Organs |-> consumed[o] \div 2] /\ fasting' = {}

Metabolise(m) ==
    /\ pool' = PoolAfter(m)
    /\ basal' = IF pool' < EconomyBelow THEN EconomyBasal ELSE Basal
    /\ cycle' = (cycle + 1) % RecycleEvery
    /\ \/ cycle' = 0 /\ Recycle
       \/ cycle' # 0 /\ UNCHANGED <<consumed, fasting>>

\* metabolism_request_energy.
Granted(o, amount) == Min({amount, Budget[o] - consumed[o], pool})

RequestEnergy(o, amount) ==
    /\ o \notin fasting
    /\ consumed' = [consumed EXCEPT ![o] = @ + Granted(o, amount)]
    /\ pool' = pool - Granted(o, amount)
    /\ fasting' = fasting \union {x \in {o} : consumed'[x] >= Budget[x]}
    /\ UNCHANGED <<mind, phase, phaseAge, pulse, guardian, basal, cycle, soul, reboots>>

\* metabolism_generate_energy.
GenerateEnergy(amount) ==
    /\ pool + amount <= PoolCap
    /\ pool' = pool + amount
    /\ UNCHANGED <<mind, phase, phaseAge, pulse, guardian, basal, cycle, consumed, fasting,
                   soul, reboots>>

----------------------------------------------------------------------------
Folded(p) == IF p >= 2 * Period THEN p - Period ELSE p

\* vital_eternal_heartbeat: the layers that change the state kept here, in order.
\* The guardian is read last, after consciousness_tick.
Heartbeat(g) ==
    LET m1 == Circadian(mind)
        m2 == FeelFamine(m1)
        m3 == ConsciousnessTick(m2)
    IN  /\ pulse' = Folded(pulse + 1)
        /\ phase' = IF PhaseTurns THEN NextPhase[phase] ELSE phase
        /\ phaseAge' = IF PhaseTurns THEN 0 ELSE phaseAge + 1
        /\ Metabolise(m2)
        /\ guardian' = g
        /\ mind' = IF g = 2 THEN Searing(m3) ELSE m3
        /\ soul' = IF pulse' % SaveEvery = 0 THEN pulse' ELSE soul
        /\ UNCHANGED reboots

\* vital_init.
Awake == [state |-> "AWARE", since |-> 0]
Unspent == [o \in Organs |-> 0]

Init ==
    /\ mind = Awake /\ phase = "DAWN" /\ phaseAge = 0 /\ pulse = 0 /\ guardian = 0
    /\ pool = InitialPool /\ basal = Basal /\ cycle = 0 /\ consumed = Unspent /\ fasting = {}
    /\ soul = 0 /\ reboots = 0

\* A reset of the machine.  Where the firmware passed a storage to
\* vital_persistence_init, vital_persistence_load restores the saved spark and the pulse; all else starts anew, phase_start_pulse at zero.
Reboot ==
    /\ reboots < MaxReboots
    /\ reboots' = reboots + 1
    /\ pulse' = soul /\ phaseAge' = soul
    /\ mind' = Awake /\ phase' = "DAWN" /\ guardian' = 0
    /\ pool' = InitialPool /\ basal' = Basal /\ cycle' = 0
    /\ consumed' = Unspent /\ fasting' = {}
    /\ UNCHANGED soul

Beat == \E g \in GuardianStates : Heartbeat(g)

Next ==
    \/ Beat
    \/ \E o \in Organs, amount \in Demands : RequestEnergy(o, amount)
    \/ \E amount \in Supplies : GenerateEnergy(amount)
    \/ Reboot

\* efi_main calls the heartbeat in an endless loop.
Spec == Init /\ [][Next]_vars /\ WF_vars(Beat)

----------------------------------------------------------------------------
\* Type invariant.
TypeOK ==
    /\ mind \in [state : States, since : Nat]
    /\ phase \in DOMAIN NextPhase
    /\ phaseAge \in 0 .. 2 * Period - 1
    /\ pulse \in 0 .. 2 * Period - 1
    /\ guardian \in 0 .. 2
    /\ pool \in Nat
    /\ basal \in {Basal, EconomyBasal}
    /\ cycle \in 0 .. RecycleEvery - 1
    /\ consumed \in [Organs -> Nat]
    /\ fasting \subseteq Organs
    /\ soul \in 0 .. 2 * Period - 1
    /\ reboots \in 0 .. MaxReboots

\* An organ fasts exactly while its budget is used up, whatever is asked, granted in
\* part and recycled; so the unsigned remainder of metabolism_request_energy
\* (energy_metabolism.c:54) cannot wrap.
FastingMeansSpent ==
    \A o \in Organs :
        consumed[o] <= Budget[o] /\ (o \in fasting <=> consumed[o] = Budget[o])

\* A beat that ends without energy leaves the organism alert, or focused once the
\* alert has timed out: no phase and no dream hides a famine.
FamineIsFelt == [][Beat /\ pool' = 0 => mind'.state \in {"ALERT", "FOCUSED"}]_vars

\* A beat slept through ends with more energy than it began with.
SleepRestores ==
    [][Beat /\ mind.state = "DREAMING" /\ mind'.state = "DREAMING" => pool' > pool]_vars

\* An alert ends, although a famine fires the same pain at every beat, unless the
\* guardian keeps calling.
AlertSubsides == mind.state = "ALERT" ~> mind.state # "ALERT" \/ guardian = 2
=============================================================================
