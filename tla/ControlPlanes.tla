--------------------------- MODULE ControlPlanes ---------------------------
(***************************************************************************)
(* The control planes of the organism (control-planes/src): the registry   *)
(* where organs publish their health, the homeostasis mode machine, the    *)
(* three decision planes and the control tick that runs and resolves them. *)
(*                                                                         *)
(* Organs publish between ticks in any order, so a tick sees whatever mix  *)
(* of fresh and old healths the registry holds.  Broadcasts on the bus are *)
(* kept as the last signal of each kind; their delivery is UnitedBus's.    *)
(***************************************************************************)
EXTENDS Integers, FiniteSets, FiniteSetsExt

CONSTANTS
    Vital,      \* the vital chain: UNITED, KERNEL, MEMORY, REFLEX, VITAL
    Nonvital,   \* the other organs, the cortex among them
    CORTEX,     \* the organ whose health stands for the neural load
    Reports,    \* the uint8_t healths organs report
    TickWord    \* the tick counter wraps at this value (2^32)

Organs == Vital \union Nonvital

DegradedBelow == 75   \* OO_HEALTH_DEGRADED_BELOW
SafeBelow     == 40   \* OO_HEALTH_SAFE_BELOW
RecoverAbove  == 85   \* OO_HEALTH_RECOVER_ABOVE
NormalAbove   == 90   \* OO_HEALTH_NORMAL_ABOVE

ASSUME PlanesAssumption ==
    /\ IsFiniteSet(Organs)
    /\ Vital \intersect Nonvital = {}
    /\ CORTEX \in Nonvital
    /\ Reports \subseteq 0 .. 255
    /\ TickWord \in Nat \ {0}

VARIABLES
    health,      \* g_registry: the last health of each organ, Absent before any
    mode,        \* g_mode
    ticks,       \* g_ticks
    reflex,      \* g_reflex, g_strategic, g_autonomy: last decision and reason
    strategic,
    autonomy,
    resolved,    \* what the last control_tick returned
    modeSignal,  \* the mode carried by the last mode broadcast on the bus
    telemetry    \* the last frame handed to network_exhale

planeVars ==
    <<health, mode, ticks, reflex, strategic, autonomy, resolved, modeSignal, telemetry>>

Absent == -1
Modes == {"NORMAL", "DEGRADED", "SAFE", "RECOVERY"}
Decisions == {"THROTTLE", "ISOLATE", "RECOVER", "HOLD", "OPTIMIZE"}

Status(d, r) == [decision |-> d, reason |-> r]
NotRun == Status("NONE", "NONE")
NoFrame == [mode |-> "NONE", health |-> 0, load |-> 0, tick |-> 0]

----------------------------------------------------------------------------
\* The registry.
Least(a, b) == IF b < a THEN b ELSE a

Present == {o \in Organs : health[o] # Absent}

\* organ_state_aggregate_health: the integer mean over the organs that reported.
Aggregate ==
    IF Present = {} THEN 100
    ELSE MapThenSumSet(LAMBDA o : health[o], Present) \div Cardinality(Present)

\* Mutant: the worst non-vital health is never looked up.
WorstNonvitalUnknown == 100

\* organ_state_worst_nonvital_health, which organ_autonomy_run recomputes.
WorstNonvital == FoldSet(Least, 100, {health[o] : o \in Present \intersect Nonvital})

\* organ_state_vital_chain_alive.
VitalChainAlive == \A o \in Present \intersect Vital : health[o] # 0

\* Mutants: SAFE returns to NORMAL at once; RECOVERY has no way out but SAFE.
NextModeAbrupt(h) ==
    CASE ~VitalChainAlive                                      -> "SAFE"
      [] VitalChainAlive /\ mode # "SAFE" /\ h < SafeBelow      -> "SAFE"
      [] VitalChainAlive /\ mode = "NORMAL" /\ h >= SafeBelow
         /\ h < DegradedBelow                                  -> "DEGRADED"
      [] VitalChainAlive /\ mode \in {"SAFE", "DEGRADED", "RECOVERY"}
         /\ h >= NormalAbove                                   -> "NORMAL"
      [] VitalChainAlive /\ mode = "SAFE" /\ h >= RecoverAbove
         /\ h < NormalAbove                                    -> "RECOVERY"
      [] OTHER                                                 -> mode
NextModeStuck(h) ==
    CASE ~VitalChainAlive                                      -> "SAFE"
      [] VitalChainAlive /\ mode # "SAFE" /\ h < SafeBelow      -> "SAFE"
      [] VitalChainAlive /\ mode = "NORMAL" /\ h >= SafeBelow
         /\ h < DegradedBelow                                  -> "DEGRADED"
      [] VitalChainAlive /\ mode \in {"DEGRADED"}
         /\ h >= NormalAbove                                   -> "NORMAL"
      [] VitalChainAlive /\ mode = "SAFE" /\ h >= RecoverAbove
         /\ h < NormalAbove                                    -> "RECOVERY"
      [] OTHER                                                 -> mode

\* homeostasis_mode_evaluate, without its broadcast.  The effective health h is
\* the mean, or the worst non-vital organ's health when that is lower.
NextMode(h) ==
    CASE ~VitalChainAlive                                      -> "SAFE"
      [] VitalChainAlive /\ mode # "SAFE" /\ h < SafeBelow      -> "SAFE"
      [] VitalChainAlive /\ mode = "NORMAL" /\ h >= SafeBelow
         /\ h < DegradedBelow                                  -> "DEGRADED"
      [] VitalChainAlive /\ mode \in {"DEGRADED", "RECOVERY"}
         /\ h >= NormalAbove                                   -> "NORMAL"
      [] VitalChainAlive /\ mode = "SAFE" /\ h >= RecoverAbove  -> "RECOVERY"
      [] OTHER                                                 -> mode

----------------------------------------------------------------------------
\* Mutant: the reflex looks at the mean only.
ReflexStatusMean(agg) ==
    IF agg < SafeBelow THEN Status("THROTTLE", "HEALTH_CRITICAL")
    ELSE IF agg < DegradedBelow THEN Status("ISOLATE", "HEALTH_LOW")
    ELSE Status("HOLD", "OK")

\* The three planes, as functions of the mode just evaluated and the mean health.
ReflexStatus(agg) ==
    IF ~VitalChainAlive THEN Status("THROTTLE", "VITAL_BREACH")
    ELSE IF agg < SafeBelow THEN Status("THROTTLE", "HEALTH_CRITICAL")
    ELSE IF agg < DegradedBelow THEN Status("ISOLATE", "HEALTH_LOW")
    ELSE Status("HOLD", "OK")

StrategicStatus(m, agg) ==
    CASE m = "NORMAL" /\ agg >= NormalAbove -> Status("OPTIMIZE", "OPTIMIZE")
      [] m = "NORMAL" /\ agg < NormalAbove  -> Status("HOLD", "IDLE")
      [] m = "RECOVERY"                           -> Status("RECOVER", "RECOVER")
      [] OTHER                                    -> Status("HOLD", "DEFER")

\* The local action that organ_autonomy_run takes for a worst health w.
LocalAction(w) ==
    IF w < SafeBelow THEN Status("RECOVER", "SELFHEAL")
    ELSE IF w < DegradedBelow THEN Status("THROTTLE", "LOCAL_THROTTLE")
    ELSE Status("HOLD", "IDLE")

\* decision_rank: lower wins.
Rank(d) ==
    CASE d = "THROTTLE" -> 0 [] d = "ISOLATE" -> 1 [] d = "RECOVER" -> 2
      [] d = "HOLD" -> 3 [] d = "OPTIMIZE" -> 4 [] OTHER -> 5

Stronger(d, e) == IF Rank(d) < Rank(e) THEN d ELSE e

\* Mutant: the last plane consulted wins.
ResolveLast(r, a, s) == Stronger(s, a)

\* control_tick, step 5: the reflex, unless autonomy, then strategy, outranks it.
Resolve(r, a, s) == Stronger(s, Stronger(a, r))

----------------------------------------------------------------------------
PlanesInit ==
    /\ health = [o \in Organs |-> Absent]
    /\ mode = "NORMAL"
    /\ ticks = 0
    /\ reflex = NotRun /\ strategic = NotRun /\ autonomy = NotRun
    /\ resolved = "NONE"
    /\ modeSignal = "NORMAL"
    /\ telemetry = NoFrame

\* organ_state_publish: values above 100 are clamped.
Publish(o, h) ==
    /\ health' = [health EXCEPT ![o] = Least(100, h)]
    /\ UNCHANGED <<mode, ticks, reflex, strategic, autonomy, resolved, modeSignal, telemetry>>

\* homeostasis_mode_evaluate broadcasts the new mode when it changes.
Evaluate(h) ==
    /\ mode' = NextMode(h)
    /\ modeSignal' = IF mode' # mode THEN mode' ELSE modeSignal

\* oo_telemetry_fill; the load is the complement of the cortex's health.
Frame(m, agg, t) ==
    [mode |-> m, health |-> agg, tick |-> t,
     load |-> IF health[CORTEX] = Absent THEN 0 ELSE 100 - health[CORTEX]]

Tick ==
    LET agg   == Aggregate
        worst == WorstNonvital
    IN  /\ ticks' = (ticks + 1) % TickWord
        /\ Evaluate(Least(agg, worst))
        /\ reflex' = ReflexStatus(agg)
        /\ strategic' = StrategicStatus(mode', agg)
        /\ autonomy' = LocalAction(worst)
        /\ resolved' = Resolve(reflex'.decision, autonomy'.decision, strategic'.decision)
        /\ telemetry' = Frame(mode', agg, ticks')
        /\ UNCHANGED health

PlanesNext == Tick \/ \E o \in Organs, h \in Reports : Publish(o, h)

PlanesSpec == PlanesInit /\ [][PlanesNext]_planeVars

\* The tick is driven by a timer, whatever the organs do.
PlanesFairSpec == PlanesSpec /\ WF_planeVars(Tick)

----------------------------------------------------------------------------
\* Type invariant.
PlanesTypeOK ==
    /\ health \in [Organs -> {Absent} \union 0 .. 100]
    /\ mode \in Modes
    /\ ticks \in 0 .. TickWord - 1
    /\ \A s \in {reflex, strategic, autonomy} : s.decision \in Decisions \union {"NONE"}
    /\ resolved \in Decisions \union {"NONE"}
    /\ modeSignal \in Modes

\* Whoever only follows the mode broadcasts on the bus knows the current mode.
ModeAnnounced == modeSignal = mode

\* The decision that control_tick returns is never weaker than its reflex, and
\* optimisation is never returned, whatever the other two planes propose.
ReflexPrevails ==
    /\ Rank(resolved) <= Rank(reflex.decision)
    /\ resolved # "OPTIMIZE"

\* SAFE is left through RECOVERY only, and RECOVERY or DEGRADED, never SAFE, are
\* left for NORMAL: after an emergency two ticks must agree that health is back.
SafeLeftThroughRecovery ==
    [][/\ mode = "SAFE" => mode' \in {"SAFE", "RECOVERY"}
       /\ mode = "NORMAL" => mode' # "RECOVERY"
       /\ mode = "DEGRADED" => mode' # "RECOVERY"]_mode

\* A tick taken while the vital chain is broken ends in SAFE with a throttle.
BreachForcesSafe ==
    [][Tick /\ ~VitalChainAlive => mode' = "SAFE" /\ resolved' = "THROTTLE"]_planeVars

\* After a tick the organism is in NORMAL only if no organ that reported is in
\* trouble: none non-vital below the degraded threshold, none vital at zero.
NormalMeansHealthy ==
    [][Tick /\ mode' = "NORMAL" =>
         /\ VitalChainAlive
         /\ \A o \in Present \intersect Nonvital : health[o] >= DegradedBelow]_planeVars

\* If from some time on every organ that reports is well, homeostasis is regained.
AllWell == \A o \in Present : health[o] >= NormalAbove
HomeostasisRegained == <>[]AllWell => <>[](mode = "NORMAL")
=============================================================================
