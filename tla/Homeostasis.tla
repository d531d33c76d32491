----------------------------- MODULE Homeostasis -----------------------------
(***************************************************************************)
(* The board of vital parameters (homeostasis_regulator.c) and the tension *)
(* between Yin and Yang, which every layer of the heartbeat moves          *)
(* (life_loop.c, pineal_gland.c, metabolic_forth.c).  One beat is one      *)
(* action: the layers run in order on one stack.                           *)
(*                                                                         *)
(* Words that the cortex may teach the metabolic Forth are left out: no    *)
(* organ of the repository sends any.                                      *)
(***************************************************************************)
EXTENDS Integers

CONSTANTS
    Disturbed,       \* the parameters values are injected into
    Injected,        \* those values
    MaxInjections    \* bound of the model on the number of injections

\* homeostasis_init.
Param(t, lo, hi, r) == [target |-> t, min |-> lo, max |-> hi, rate |-> r]
Board ==
    [cpu_temperature  |-> Param(55, 0, 95, 3),
     tension_yin_yang |-> Param(128, 10, 245, 2),
     immune_load      |-> Param(20, 0, 80, 5),
     cortex_activity  |-> Param(50, 0, 100, 1),
     pulse_frequency  |-> Param(60, 1, 1000, 4),
     entropy_level    |-> Param(70, 5, 100, 3),
     synaptic_weight  |-> Param(50, 0, 255, 1),
     epigenetic_bias  |-> Param(128, 0, 255, 1)]
Params == DOMAIN Board

ASSUME HomeostasisAssumption ==
    Disturbed \subseteq Params /\ Injected \subseteq Nat /\ MaxInjections \in Nat

VARIABLES
    value,       \* the value of each parameter of the board
    alert,       \* whether the last regulation pumped its white globule
    injections,  \* history: how many values were injected
    tension,     \* spark.tension
    force        \* spark.current_force

homeostasisVars == <<value, alert, injections, tension, force>>

HomeostasisInit ==
    /\ value = [p \in Params |-> Board[p].target]
    /\ alert = FALSE
    /\ injections = 0
    /\ tension = 128
    /\ force = "YANG"

Clamp(p, v) ==
    IF v < Board[p].min THEN Board[p].min ELSE IF v > Board[p].max THEN Board[p].max ELSE v

Distance(p, v) == IF v < Board[p].target THEN Board[p].target - v ELSE v - Board[p].target

\* Mutant: the correction is the full rate however near the target is.
CorrectedCoarsely(p, v) ==
    Clamp(p, IF v = Board[p].target THEN v
             ELSE IF v < Board[p].target THEN v + Board[p].rate ELSE v - Board[p].rate)

\* regulate_param: towards the target, by the rate or by what is missing.
Corrected(p, v) ==
    LET step == IF Board[p].rate < Distance(p, v) THEN Board[p].rate ELSE Distance(p, v)
    IN  IF v = Board[p].target THEN v
        ELSE Clamp(p, IF v < Board[p].target THEN v + step ELSE v - step)

\* homeostasis_is_viable.
Viable(v) ==
    /\ v["cpu_temperature"] < Board["cpu_temperature"].max
    /\ v["immune_load"] < Board["immune_load"].max
    /\ v["pulse_frequency"] > Board["pulse_frequency"].min
    /\ v["entropy_level"] > Board["entropy_level"].min

\* homeostasis_inject.
Inject(p, v) ==
    /\ injections < MaxInjections
    /\ injections' = injections + 1
    /\ value' = [value EXCEPT ![p] = Clamp(p, v)]
    /\ UNCHANGED <<alert, tension, force>>

----------------------------------------------------------------------------
\* vital_shift_balance.
Yang(t, w) == IF t > w THEN t - w ELSE 0
Yin(t, w) == IF t < 255 - w THEN t + w ELSE 255

\* vital_pineal_gland_sync: bcd_to_binary, then the afternoon bit of a 12-hour clock,
\* which the conversion has already moved elsewhere.
Binary(bcd) == (bcd \div 16) * 8 + (bcd \div 16) * 2 + (bcd % 16)
Hours(reg, isBinary, is24) ==
    LET h == IF isBinary THEN reg ELSE Binary(reg)
    IN  IF ~is24 /\ h >= 128 THEN ((h % 128) + 12) % 24 ELSE h

Pineal(t, h) ==
    CASE h \in 6 .. 11  -> Yang(t, 20)
      [] h \in 12 .. 17 -> Yang(t, 5)
      [] h \in 18 .. 21 -> Yin(t, 15)
      [] OTHER          -> Yin(t, 30)

\* Layer 4: the board's tension decides on which side regulation pushes.
Regulated(t, v) == IF v["tension_yin_yang"] > 128 THEN Yin(t, 1) ELSE Yang(t, 1)

\* Layer 11, the tension: one step towards the personality.
Oscillated(t, bias) == IF t < bias THEN t + 1 ELSE IF t > bias THEN t - 1 ELSE t

\* Mutant: the force is judged by the tension the beat began with.
DominantStale(t, f) == IF tension > 160 THEN "YIN" ELSE IF tension < 96 THEN "YANG" ELSE f

\* Layer 11, the force.
Dominant(t, f) == IF t > 160 THEN "YIN" ELSE IF t < 96 THEN "YANG" ELSE f

\* Layer 14: the personality, then vital_metabolic_tick.
Leaned(t, bias) ==
    LET t1 == IF bias < 100 /\ t > 50 THEN t - 1 ELSE t
    IN  IF bias > 150 /\ t1 < 200 THEN t1 + 1 ELSE t1
Metabolized(t) == IF t > 150 THEN Yin(t, 5) ELSE t

\* The personality when layer 14 reads it: a violation of the integrity in between is a
\* trauma, whose impact a resilience of 50 or more softens to 3 at most.
Shaken(bias) == {bias} \union {bias - impact : impact \in {i \in 1 .. 3 : i < bias}}

\* What the beat does before layer 11: the phase's turn (at dawn and at nadir it sets
\* the force, and it reads the clock), the famine, the regulation.
Balance(bias, later, turned, starving, v) ==
    LET t3 == IF starving THEN Yin(turned.tension, 20) ELSE turned.tension
        t11 == Oscillated(Regulated(t3, v), bias)
    IN  /\ force' = Dominant(t11, turned.force)
        /\ tension' = Metabolized(Leaned(t11, later))
        /\ value' = v
        /\ alert' = (v["immune_load"] >= Board["immune_load"].max)
        /\ UNCHANGED injections

SamePhase == {[tension |-> tension, force |-> force]}
PhaseTurned ==
    {[tension |-> Pineal(tension, h), force |-> f] : h \in {6, 12, 18, 22},
                                                   f \in {"YIN", "YANG", force}}

BoardBeat(bias) ==
    LET v == [p \in Params |-> Corrected(p, value[p])]
    IN  \E later \in Shaken(bias), starving \in BOOLEAN,
           turned \in SamePhase \union PhaseTurned :
          Balance(bias, later, turned, starving, v)

HomeostasisNext(bias) ==
    \/ BoardBeat(bias)
    \/ \E p \in Disturbed, v \in Injected : Inject(p, v)

\* Under a personality that is any byte, and may change from beat to beat.
HomeostasisSpec ==
    HomeostasisInit /\ [][\E bias \in 0 .. 255 : HomeostasisNext(bias)]_homeostasisVars

----------------------------------------------------------------------------
\* A beat brings every disturbed parameter strictly nearer to its target, without
\* passing it and starting to swing, and leaves the organism viable whatever was
\* injected before: the agony of layer 4 is for nothing that the board can hold.
RegulationHeals ==
    [][UNCHANGED injections =>
         /\ \A p \in Params : \/ Distance(p, value'[p]) < Distance(p, value[p])
                              \/ value[p] = Board[p].target /\ value'[p] = value[p]
         /\ Viable(value')]_homeostasisVars

\* The force that the hormones announce follows the tension, although the layers
\* after the one that sets it move the tension on: beyond what those layers can add,
\* the tension and the force never contradict each other.
ForceFollowsTension ==
    /\ tension \in 0 .. 255
    /\ tension > 166 => force = "YIN"
    /\ tension < 95 => force = "YANG"
=============================================================================
