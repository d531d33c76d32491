---------------------------- MODULE VitalProofs ----------------------------
(***************************************************************************)
(* What holds of the vital organ for all values of the constants: the life *)
(* loop, for every set of organs, every budget and every choice of periods *)
(* and rates; the board of vital parameters; the inner network, for every  *)
(* number of nodes and links; the epigenetic memory, for every life.       *)
(*                                                                         *)
(* The folds over nodes, links and lessons are unfolded to the recursive   *)
(* function they choose.  That it exists, and what it computes, is shown   *)
(* by induction, written with the set of the numbers up to which it holds. *)
(***************************************************************************)
EXTENDS VitalLoop, Homeostasis, Synapses, Epigenome, FiniteSetTheorems,
        WellFoundedInduction, TLAPS

----------------------------------------------------------------------------
(* The life loop *)


\* The states of consciousness that the loop can reach.
Waking == {"DREAMING", "AWARE", "FOCUSED", "ALERT"}

MindOK == mind \in [state : Waking, since : Nat]

VitalInv == TypeOK /\ MindOK /\ FastingMeansSpent

Minds == [state : Waking, since : Nat]

\* The periods and rates, one fact each.
LEMMA Positive ==
    /\ Basal \in Nat \ {0} /\ EconomyBasal \in Nat \ {0} /\ RecycleEvery \in Nat \ {0}
    /\ PhaseDuration \in Nat \ {0} /\ AwareLimit \in Nat \ {0} /\ DreamLimit \in Nat \ {0}
    /\ AlertLimit \in Nat \ {0} /\ Period \in Nat \ {0}
<1>1. \A n \in {Basal, EconomyBasal, RecycleEvery, PhaseDuration, AwareLimit, DreamLimit,
                AlertLimit, SaveEvery, Period} : n \in Nat \ {0}
  BY VitalAssumption
<1> QED
  BY <1>1

\* The rows of the matrix that matter, one fact each.
LEMMA LegalFacts ==
    /\ Legal["DREAMING"] = {"DORMANT", "AWARE", "TRANSCEND"}
    /\ Legal["AWARE"] = {"DORMANT", "DREAMING", "FOCUSED", "ALERT"}
    /\ Legal["FOCUSED"] = {"AWARE", "ALERT", "TRANSCEND"}
    /\ Legal["ALERT"] = {"AWARE", "FOCUSED", "SURVIVAL"}
  BY DEF Legal

\* The timers, one fact each.
LEMMA TimerFacts ==
    /\ DOMAIN TimedStates = {"AWARE", "DREAMING", "ALERT"}
    /\ TimedStates["AWARE"].limit = AwareLimit /\ TimedStates["AWARE"].next = "DREAMING"
    /\ TimedStates["DREAMING"].limit = DreamLimit /\ TimedStates["DREAMING"].next = "AWARE"
    /\ TimedStates["ALERT"].limit = AlertLimit /\ TimedStates["ALERT"].next = "FOCUSED"
  BY DEF TimedStates

\* The circadian tables.
LEMMA PhaseFacts ==
    /\ DOMAIN NextPhase = {"DAWN", "ZENITH", "DUSK", "NADIR"}
    /\ \A p \in DOMAIN NextPhase : NextPhase[p] \in DOMAIN NextPhase
    /\ \A p \in DOMAIN NextPhase : Calls[p] \in {"AWARE", "FOCUSED", "DREAMING"}
  BY DEF NextPhase, Calls

\* A request for one of the reachable states leaves the mind in one of them, and a
\* request that is granted starts its clock.
LEMMA TransitionType ==
    ASSUME NEW m \in Minds, NEW target \in Waking
    PROVE  /\ Transition(m, target) \in Minds
           /\ Transition(m, target) = m \/ Transition(m, target) = [state |-> target, since |-> 0]
  BY DEF Transition, Minds, Waking

\* The smallest of three naturals, as the grant takes it.
LEMMA MinOfThree ==
    ASSUME NEW a \in Nat, NEW b \in Nat, NEW c \in Nat
    PROVE  Min({a, b, c}) \in Nat /\ Min({a, b, c}) <= a /\ Min({a, b, c}) <= b
           /\ Min({a, b, c}) <= c
<1>1. \E x \in {a, b, c} : \A y \in {a, b, c} : x <= y
  OBVIOUS
<1>2. Min({a, b, c}) \in {a, b, c} /\ \A y \in {a, b, c} : Min({a, b, c}) <= y
  BY <1>1 DEF Min
<1> QED
  BY <1>2

\* Pain, the timers, and the rhythm keep the mind among the reachable states.
LEMMA SearingType ==
    ASSUME NEW m \in Minds
    PROVE  /\ Searing(m) \in Minds
           /\ m.state # "DREAMING" => Searing(m).state = "ALERT"
           /\ m.state = "DREAMING" => Searing(m) = m
  BY TransitionType, LegalFacts DEF Searing, Transition, Minds, Waking

\* A timer never takes a mind that has just changed back into a dream.
LEMMA TickType ==
    ASSUME NEW m \in Minds
    PROVE  /\ ConsciousnessTick(m) \in Minds
           /\ m.state = "ALERT" => ConsciousnessTick(m).state \in {"ALERT", "FOCUSED"}
           /\ m.since = 0 /\ m.state # "DREAMING" => ConsciousnessTick(m).state # "DREAMING"
<1>1. CASE m.state \notin DOMAIN TimedStates
  BY <1>1, TimerFacts DEF ConsciousnessTick, Minds, Waking
<1>2. CASE m.state \in DOMAIN TimedStates
  <2>1. m.state \in {"AWARE", "DREAMING", "ALERT"}
    BY <1>2, TimerFacts
  <2>2. TimedStates[m.state].next \in Waking
    BY <2>1, TimerFacts DEF Waking
  <2>3. Transition(m, TimedStates[m.state].next) \in Minds
    BY <2>2, TransitionType
  <2>4. [m EXCEPT !.since = @ + 1] \in Minds /\ [m EXCEPT !.since = @ + 1].state = m.state
    BY DEF Minds
  <2>5. ConsciousnessTick(m) \in Minds
    BY <1>2, <2>3, <2>4 DEF ConsciousnessTick
  <2>6. ASSUME m.state = "ALERT" PROVE ConsciousnessTick(m).state \in {"ALERT", "FOCUSED"}
    <3>1. Transition(m, "FOCUSED").state = "FOCUSED"
      BY <2>6, LegalFacts DEF Transition
    <3> QED
      BY <1>2, <2>4, <2>6, <3>1, TimerFacts DEF ConsciousnessTick
  <2>7. ASSUME m.since = 0, m.state # "DREAMING" PROVE ConsciousnessTick(m).state # "DREAMING"
    <3>1. ~(m.since + 1 > TimedStates[m.state].limit)
      BY <2>1, <2>7, TimerFacts, VitalAssumption
    <3> QED
      BY <1>2, <2>4, <2>7, <3>1 DEF ConsciousnessTick
  <2> QED
    BY <2>5, <2>6, <2>7
<1> QED
  BY <1>1, <1>2

\* The rhythm asks for reachable states only.
LEMMA CircadianType ==
    ASSUME MindOK, phase \in DOMAIN NextPhase
    PROVE  /\ Circadian(mind) \in Minds
           /\ Circadian(mind) = mind \/ Circadian(mind).since = 0
           /\ mind.state = "DREAMING" /\ Circadian(mind).state = "DREAMING"
                => Circadian(mind) = mind
<1>1. mind \in Minds
  BY DEF MindOK, Minds
<1>2. Calls[NextPhase[phase]] \in Waking
  BY PhaseFacts DEF Waking
<1>3. \/ Transition(mind, Calls[NextPhase[phase]]) = mind
      \/ Transition(mind, Calls[NextPhase[phase]]) = [state |-> Calls[NextPhase[phase]], since |-> 0]
  BY <1>1, <1>2, TransitionType
<1>4. Transition(mind, Calls[NextPhase[phase]]) \in Minds
  BY <1>1, <1>2, TransitionType
<1>5. ASSUME mind.state = "DREAMING",
             Transition(mind, Calls[NextPhase[phase]]).state = "DREAMING"
      PROVE  Transition(mind, Calls[NextPhase[phase]]) = mind
  BY <1>5, LegalFacts DEF Transition
<1> QED
  BY <1>1, <1>3, <1>4, <1>5 DEF Circadian

\* The mind after the first two layers and at the end of a beat.
LEMMA BeatMind ==
    ASSUME MindOK, phase \in DOMAIN NextPhase, NEW g \in GuardianStates, Heartbeat(g)
    PROVE  /\ FeelFamine(Circadian(mind)) \in Minds
           /\ mind' \in Minds
           /\ Famine /\ ~Asleep(FeelFamine(Circadian(mind))) => mind'.state \in {"ALERT", "FOCUSED"}
           /\ mind.state = "DREAMING" /\ mind'.state = "DREAMING"
                => Asleep(FeelFamine(Circadian(mind)))
<1> DEFINE m1 == Circadian(mind)
           m2 == FeelFamine(m1)
           m3 == ConsciousnessTick(m2)
<1>1. /\ m1 \in Minds
      /\ m1 = mind \/ m1.since = 0
      /\ mind.state = "DREAMING" /\ m1.state = "DREAMING" => m1 = mind
  BY CircadianType
<1>2. m2 \in {m1, Searing(m1)}
  BY DEF FeelFamine
<1>3. m2 \in Minds
  BY <1>1, <1>2, SearingType
<1>4. m3 \in Minds
  BY <1>3, TickType
<1>5. mind' = IF g = 2 THEN Searing(m3) ELSE m3
  BY DEF Heartbeat
<1>6. mind' \in Minds
  BY <1>4, <1>5, SearingType
<1>7. ASSUME Famine, ~Asleep(m2) PROVE mind'.state \in {"ALERT", "FOCUSED"}
  <2>1. m2 = Searing(m1)
    BY <1>7 DEF FeelFamine
  <2>2. m2.state = "ALERT"
    BY <1>1, <1>7, <2>1, SearingType DEF Asleep
  <2>3. m3.state \in {"ALERT", "FOCUSED"}
    BY <1>3, <2>2, TickType
  <2> QED
    BY <1>4, <1>5, <2>3, SearingType
<1>8. ASSUME mind.state = "DREAMING", mind'.state = "DREAMING" PROVE Asleep(m2)
  <2>1. CASE m1.state = "DREAMING"
    BY <1>1, <1>2, <2>1, SearingType DEF Asleep
  <2>2. CASE m1.state # "DREAMING"
    <3>1. m1.since = 0
      BY <1>1, <1>8, <2>2
    <3>2. m2.since = 0 /\ m2.state # "DREAMING"
      BY <1>1, <1>2, <2>2, <3>1, SearingType DEF Searing, Transition
    <3>3. m3.state # "DREAMING"
      BY <1>3, <3>2, TickType
    <3>4. mind'.state # "DREAMING"
      BY <1>4, <1>5, <3>3, SearingType
    <3> QED
      BY <1>8, <3>4
  <2> QED
    BY <2>1, <2>2
<1> QED
  BY <1>3, <1>6, <1>7, <1>8

\* A grant fits what is left of the budget and of the pool.
LEMMA GrantFits ==
    ASSUME TypeOK, FastingMeansSpent, NEW o \in Organs, NEW amount \in Demands
    PROVE  /\ Granted(o, amount) \in Nat
           /\ Granted(o, amount) <= pool
           /\ consumed[o] + Granted(o, amount) <= Budget[o]
<1>1. amount \in Nat /\ pool \in Nat /\ Budget[o] \in Nat /\ consumed[o] \in Nat
  BY VitalAssumption DEF TypeOK
<1>2. Budget[o] - consumed[o] \in Nat
  BY <1>1 DEF FastingMeansSpent
<1>3. /\ Granted(o, amount) \in Nat
      /\ Granted(o, amount) <= Budget[o] - consumed[o] /\ Granted(o, amount) <= pool
  BY <1>1, <1>2, MinOfThree DEF Granted
<1> QED
  BY <1>1, <1>3

\* The newborn organism satisfies the invariant.
LEMMA VitalInit == Init => VitalInv
<1> SUFFICES ASSUME Init PROVE VitalInv
  OBVIOUS
<1>1. TypeOK
  <2>1. 0 \in 0 .. 2 * Period - 1
    <3>1. Period \in Nat /\ Period > 0
      BY Positive
    <3>2. 2 * Period - 1 \in Nat
      BY <3>1
    <3> QED
      BY <3>2
  <2>2. 0 \in 0 .. RecycleEvery - 1 /\ 0 \in 0 .. MaxReboots /\ 0 \in 0 .. 2
    BY Positive, VitalAssumption
  <2>3. "DAWN" \in DOMAIN NextPhase
    BY PhaseFacts
  <2>4. Awake \in [state : States, since : Nat] /\ Unspent \in [Organs -> Nat]
    BY DEF Awake, Unspent, States
  <2> QED
    BY <2>1, <2>2, <2>3, <2>4, VitalAssumption DEF Init, TypeOK
<1>2. MindOK
  BY DEF Init, MindOK, Awake, Waking
<1>3. FastingMeansSpent
  BY VitalAssumption DEF Init, FastingMeansSpent, Unspent
<1> QED
  BY <1>1, <1>2, <1>3 DEF VitalInv

\* The budgets through one beat: untouched, or recycled.
LEMMA BeatBudgets ==
    ASSUME VitalInv, NEW m, Metabolise(m)
    PROVE  /\ consumed' \in [Organs -> Nat] /\ fasting' \subseteq Organs
           /\ FastingMeansSpent'
<1>1. CASE Recycle
  <2>1. \A o \in Organs : consumed[o] \in Nat /\ Budget[o] \in Nat \ {0} /\ consumed[o] <= Budget[o]
    BY VitalAssumption DEF VitalInv, TypeOK, FastingMeansSpent
  <2>2. \A o \in Organs : consumed[o] \div 2 \in Nat /\ consumed[o] \div 2 < Budget[o]
    BY <2>1
  <2>3. fasting' = {} /\ consumed' = [o \in Organs |-> consumed[o] \div 2]
    BY <1>1 DEF Recycle
  <2>4. \A o \in Organs : consumed'[o] <= Budget[o] /\ consumed'[o] # Budget[o]
    BY <2>1, <2>2, <2>3
  <2> QED
    BY <2>2, <2>3, <2>4 DEF FastingMeansSpent
<1>2. CASE UNCHANGED <<consumed, fasting>>
  BY <1>2 DEF VitalInv, TypeOK, FastingMeansSpent
<1> QED
  BY <1>1, <1>2 DEF Metabolise

\* The pool through one beat.
LEMMA BeatPool ==
    ASSUME VitalInv, NEW m, Metabolise(m)
    PROVE  pool' \in Nat /\ basal' \in {Basal, EconomyBasal} /\ cycle' \in 0 .. RecycleEvery - 1
<1>1. pool \in Nat /\ basal \in Nat /\ cycle \in Nat /\ RecycleEvery \in Nat \ {0}
  BY Positive DEF VitalInv, TypeOK
<1>2. pool' \in Nat
  <2>1. (IF Famine THEN 0 ELSE pool - basal) \in Nat
    <3>1. CASE Famine
      BY <3>1
    <3>2. CASE ~Famine
      <4>1. pool - basal \in Nat
        BY <1>1, <3>2 DEF Famine
      <4> QED
        BY <3>2, <4>1
    <3> QED
      BY <3>1, <3>2
  <2>2. (IF Asleep(m) THEN 2 * basal ELSE 0) \in Nat
    BY <1>1
  <2> QED
    BY <2>1, <2>2 DEF Metabolise, PoolAfter
<1>3. basal' \in {Basal, EconomyBasal}
  BY DEF Metabolise
<1>4. cycle' \in 0 .. RecycleEvery - 1
  BY <1>1 DEF Metabolise
<1> QED
  BY <1>2, <1>3, <1>4

\* A beat preserves the invariant.
LEMMA BeatInv ==
    ASSUME VitalInv, NEW g \in GuardianStates, Heartbeat(g)
    PROVE  VitalInv'
<1>1. mind' \in Minds
  BY BeatMind DEF VitalInv, TypeOK
<1>2. MindOK' /\ mind' \in [state : States, since : Nat]
  BY <1>1 DEF MindOK, Minds, Waking, States
<1>3. Metabolise(FeelFamine(Circadian(mind)))
  BY DEF Heartbeat
<1>4. phase' \in DOMAIN NextPhase
  BY PhaseFacts DEF VitalInv, TypeOK, Heartbeat
<1>5. /\ Period \in Nat \ {0} /\ PhaseDuration \in Nat \ {0} /\ Period >= PhaseDuration
      /\ pulse \in 0 .. 2 * Period - 1 /\ phaseAge \in 0 .. 2 * Period - 1
  BY VitalAssumption DEF VitalInv, TypeOK
<1>6. pulse' \in 0 .. 2 * Period - 1
  BY <1>5 DEF Heartbeat, Folded
<1>7. phaseAge' \in 0 .. 2 * Period - 1
  BY <1>5 DEF Heartbeat, PhaseTurns
<1>8. soul' \in 0 .. 2 * Period - 1
  BY <1>6 DEF VitalInv, TypeOK, Heartbeat
<1>9. guardian' \in 0 .. 2 /\ reboots' \in 0 .. MaxReboots
  BY VitalAssumption DEF VitalInv, TypeOK, Heartbeat
<1>10. /\ consumed' \in [Organs -> Nat] /\ fasting' \subseteq Organs
       /\ FastingMeansSpent'
  BY <1>3, BeatBudgets
<1>11. pool' \in Nat /\ basal' \in {Basal, EconomyBasal} /\ cycle' \in 0 .. RecycleEvery - 1
  BY <1>3, BeatPool
<1> QED
  BY <1>2, <1>4, <1>6, <1>7, <1>8, <1>9, <1>10, <1>11 DEF VitalInv, TypeOK

\* Every step preserves the invariant: one case per action.
LEMMA VitalStep == VitalInv /\ [Next]_vars => VitalInv'
<1> SUFFICES ASSUME VitalInv, [Next]_vars PROVE VitalInv'
  OBVIOUS
<1>1. CASE Beat
  BY <1>1, BeatInv DEF Beat
<1>2. ASSUME NEW o \in Organs, NEW amount \in Demands, RequestEnergy(o, amount)
      PROVE  VitalInv'
  <2>1. /\ Granted(o, amount) \in Nat /\ Granted(o, amount) <= pool
        /\ consumed[o] + Granted(o, amount) <= Budget[o]
    BY GrantFits DEF VitalInv
  <2>2. /\ consumed \in [Organs -> Nat] /\ pool \in Nat /\ fasting \subseteq Organs
        /\ Budget \in [Organs -> Nat \ {0}]
    BY VitalAssumption DEF VitalInv, TypeOK
  <2>3. consumed' \in [Organs -> Nat] /\ pool' \in Nat /\ fasting' \subseteq Organs
    BY <1>2, <2>1, <2>2 DEF RequestEnergy
  <2>4. \A x \in Organs : consumed'[x] = IF x = o THEN consumed[o] + Granted(o, amount)
                                         ELSE consumed[x]
    BY <1>2, <2>2 DEF RequestEnergy
  <2>5. \A x \in Organs : x \in fasting' <=> x \in fasting \/ (x = o /\ consumed'[o] >= Budget[o])
    BY <1>2 DEF RequestEnergy
  <2>6. o \notin fasting
    BY <1>2 DEF RequestEnergy
  <2>7. ASSUME NEW x \in Organs
        PROVE  consumed'[x] <= Budget[x] /\ (x \in fasting' <=> consumed'[x] = Budget[x])
    <3>1. CASE x = o
      <4>1. consumed'[o] \in Nat /\ Budget[o] \in Nat /\ consumed'[o] <= Budget[o]
        BY <2>1, <2>2, <2>3, <2>4
      <4>2. o \in fasting' <=> consumed'[o] >= Budget[o]
        BY <2>5, <2>6
      <4>3. consumed'[o] >= Budget[o] <=> consumed'[o] = Budget[o]
        BY <4>1
      <4> QED
        BY <3>1, <4>1, <4>2, <4>3
    <3>2. CASE x # o
      BY <3>2, <2>4, <2>5 DEF VitalInv, FastingMeansSpent
    <3> QED
      BY <3>1, <3>2
  <2>8. FastingMeansSpent'
    BY <2>7 DEF FastingMeansSpent
  <2>9. TypeOK'
    BY <1>2, <2>3 DEF VitalInv, TypeOK, RequestEnergy
  <2>10. MindOK'
    BY <1>2 DEF VitalInv, MindOK, RequestEnergy
  <2> QED
    BY <2>8, <2>9, <2>10 DEF VitalInv
<1>3. ASSUME NEW amount \in Supplies, GenerateEnergy(amount)
      PROVE  VitalInv'
  <2>1. pool' \in Nat
    BY <1>3, VitalAssumption DEF VitalInv, TypeOK, GenerateEnergy
  <2> QED
    BY <1>3, <2>1 DEF VitalInv, TypeOK, MindOK, FastingMeansSpent, GenerateEnergy
<1>4. CASE Reboot
  <2>1. TypeOK'
    BY <1>4, VitalAssumption, PhaseFacts DEF VitalInv, TypeOK, Reboot, Awake, Unspent, States
  <2>2. MindOK'
    BY <1>4 DEF Reboot, MindOK, Awake, Waking
  <2>3. FastingMeansSpent'
    BY <1>4, VitalAssumption DEF Reboot, FastingMeansSpent, Unspent
  <2> QED
    BY <2>1, <2>2, <2>3 DEF VitalInv
<1>5. CASE UNCHANGED vars
  BY <1>5 DEF vars, VitalInv, TypeOK, MindOK, FastingMeansSpent
<1> QED
  BY <1>1, <1>2, <1>3, <1>4, <1>5 DEF Next

\* The pool never goes below zero, and an organ fasts exactly while its budget is
\* spent (energy_metabolism.c), for every set of organs, budget and rate.
THEOREM VitalSafety == Spec => [](TypeOK /\ FastingMeansSpent)
<1>1. Spec => []VitalInv
  BY VitalInit, VitalStep, PTL DEF Spec
<1>2. VitalInv => TypeOK /\ FastingMeansSpent
  BY DEF VitalInv
<1> QED
  BY <1>1, <1>2, PTL

\* No layer of the heartbeat that runs before or after metabolism_tick hides a famine.
THEOREM FamineFelt == Spec => FamineIsFelt
<1>1. VitalInv /\ [Next]_vars => [Beat /\ pool' = 0 => mind'.state \in {"ALERT", "FOCUSED"}]_vars
  <2> SUFFICES ASSUME VitalInv, Beat, pool' = 0
               PROVE  mind'.state \in {"ALERT", "FOCUSED"}
    OBVIOUS
  <2>1. PICK g \in GuardianStates : Heartbeat(g)
    BY DEF Beat
  <2>2. pool' = PoolAfter(FeelFamine(Circadian(mind)))
    BY <2>1 DEF Heartbeat, Metabolise
  <2>3. pool \in Nat /\ basal \in Nat \ {0}
    BY Positive DEF VitalInv, TypeOK
  <2>4. Famine /\ ~Asleep(FeelFamine(Circadian(mind)))
    BY <2>2, <2>3 DEF PoolAfter, Famine
  <2> QED
    BY <2>1, <2>4, BeatMind DEF VitalInv, TypeOK
<1> QED
  BY <1>1, VitalInit, VitalStep, PTL DEF Spec, FamineIsFelt

\* A beat slept through restores energy, whatever the rates.
THEOREM SleepIsRest == Spec => SleepRestores
<1>1. VitalInv /\ [Next]_vars =>
        [Beat /\ mind.state = "DREAMING" /\ mind'.state = "DREAMING" => pool' > pool]_vars
  <2> SUFFICES ASSUME VitalInv, Beat, mind.state = "DREAMING", mind'.state = "DREAMING"
               PROVE  pool' > pool
    OBVIOUS
  <2>1. PICK g \in GuardianStates : Heartbeat(g)
    BY DEF Beat
  <2>2. pool' = PoolAfter(FeelFamine(Circadian(mind)))
    BY <2>1 DEF Heartbeat, Metabolise
  <2>3. pool \in Nat /\ basal \in Nat \ {0}
    BY Positive DEF VitalInv, TypeOK
  <2>4. Asleep(FeelFamine(Circadian(mind)))
    BY <2>1, BeatMind DEF VitalInv, TypeOK
  <2> QED
    BY <2>2, <2>3, <2>4 DEF PoolAfter, Famine
<1> QED
  BY <1>1, VitalInit, VitalStep, PTL DEF Spec, SleepRestores

----------------------------------------------------------------------------
(* The board of vital parameters *)

\* Every parameter stays on its scale, as regulation and injection clamp it.
OnScale ==
    /\ value \in [Params -> Int]
    /\ \A p \in Params : value[p] \in Board[p].min .. Board[p].max

BoardInv ==
    OnScale /\ ForceFollowsTension /\ force \in {"YIN", "YANG"} /\ injections \in Nat

\* The scales: the target is on the scale, strictly between the limits that kill.
LEMMA Scales ==
    ASSUME NEW p \in Params
    PROVE  /\ Board[p].min \in Int /\ Board[p].max \in Int /\ Board[p].target \in Int
           /\ Board[p].min <= Board[p].target /\ Board[p].target <= Board[p].max
           /\ Board[p].rate \in Nat \ {0}
<1>1. p \in {"cpu_temperature", "tension_yin_yang", "immune_load", "cortex_activity",
             "pulse_frequency", "entropy_level", "synaptic_weight", "epigenetic_bias"}
  BY DEF Params, Board
<1> QED
  BY <1>1 DEF Board, Param

\* Clamping puts a value on the scale and leaves one that is there.
LEMMA ClampFits ==
    ASSUME NEW p \in Params, NEW v \in Int
    PROVE  /\ Clamp(p, v) \in Board[p].min .. Board[p].max
           /\ v \in Board[p].min .. Board[p].max => Clamp(p, v) = v
BY Scales DEF Clamp

\* One correction: nearer to the target and not past it.
LEMMA CorrectionHeals ==
    ASSUME NEW p \in Params, NEW v \in Board[p].min .. Board[p].max
    PROVE  /\ Corrected(p, v) \in Board[p].min .. Board[p].max
           /\ \/ Distance(p, Corrected(p, v)) < Distance(p, v)
              \/ v = Board[p].target /\ Corrected(p, v) = v
           /\ Board[p].target < Board[p].max => Corrected(p, v) < Board[p].max
           /\ Board[p].min < Board[p].target => Board[p].min < Corrected(p, v)
<1> DEFINE t == Board[p].target
           r == Board[p].rate
           d == Distance(p, v)
           step == IF r < d THEN r ELSE d
           w == IF v < t THEN v + step ELSE v - step
<1>1. /\ Board[p].min \in Int /\ Board[p].max \in Int /\ t \in Int
      /\ Board[p].min <= t /\ t <= Board[p].max /\ r \in Nat \ {0} /\ v \in Int
  BY Scales
<1>2. d = (IF v < t THEN t - v ELSE v - t) /\ d \in Nat
  BY <1>1 DEF Distance
<1>3. CASE v = t
  BY <1>1, <1>3 DEF Corrected
<1>4. CASE v # t
  <2>1. /\ step \in Nat \ {0} /\ step <= d
    BY <1>1, <1>2, <1>4
  <2>2. Corrected(p, v) = Clamp(p, w)
    BY <1>4 DEF Corrected
  <2> HIDE DEF step, d
  <2>3. w \in Int /\ (v < t => v < w /\ w <= t) /\ (t < v => w < v /\ t <= w)
    BY <1>1, <1>2, <1>4, <2>1
  <2> HIDE DEF w
  <2>4. w \in Board[p].min .. Board[p].max
    BY <1>1, <1>4, <2>3
  <2>5. Corrected(p, v) = w
    BY <2>2, <2>3, <2>4, ClampFits
  <2>6. Distance(p, w) < Distance(p, v)
    BY <1>1, <1>4, <2>3 DEF Distance
  <2>7. (t < Board[p].max => w < Board[p].max) /\ (Board[p].min < t => Board[p].min < w)
    BY <1>1, <1>4, <2>3
  <2> QED
    BY <2>4, <2>5, <2>6, <2>7
<1> QED
  BY <1>3, <1>4

\* The layers that move the tension keep it a byte.
LEMMA ShiftsFit ==
    ASSUME NEW t \in 0 .. 255
    PROVE  /\ Yin(t, 20) \in 0 .. 255
           /\ \A h : Pineal(t, h) \in 0 .. 255
           /\ \A v : Regulated(t, v) \in 0 .. 255
           /\ \A bias \in 0 .. 255 : Oscillated(t, bias) \in 0 .. 255
<1>1. /\ Yang(t, 20) \in 0 .. 255 /\ Yang(t, 5) \in 0 .. 255 /\ Yang(t, 1) \in 0 .. 255
      /\ Yin(t, 15) \in 0 .. 255 /\ Yin(t, 30) \in 0 .. 255 /\ Yin(t, 20) \in 0 .. 255
      /\ Yin(t, 1) \in 0 .. 255
  BY DEF Yang, Yin
<1>2. \A h : Pineal(t, h) \in {Yang(t, 20), Yang(t, 5), Yin(t, 15), Yin(t, 30)}
  BY Zenon DEF Pineal
<1>3. \A h : Pineal(t, h) \in 0 .. 255
  BY <1>1, <1>2
<1>4. \A v : Regulated(t, v) \in 0 .. 255
  BY <1>1 DEF Regulated
<1>5. \A bias \in 0 .. 255 : Oscillated(t, bias) \in 0 .. 255
  BY DEF Oscillated
<1> QED
  BY <1>1, <1>3, <1>4, <1>5

\* What the layers after the eleventh add to the tension.
LEMMA LateLayers ==
    ASSUME NEW t \in 0 .. 255, NEW bias \in Int
    PROVE  LET late == Metabolized(Leaned(t, bias))
           IN  late \in 0 .. 255 /\ late <= t + 6 /\ late >= t - 1
                 /\ (t <= 160 => late <= 166) /\ (t >= 96 => late >= 95)
<1> DEFINE s == Leaned(t, bias)
<1>1. s \in 0 .. 255 /\ s <= t + 1 /\ s >= t - 1
  BY DEF Leaned
<1> HIDE DEF s
<1>2. /\ Metabolized(s) \in 0 .. 255 /\ Metabolized(s) <= s + 5 /\ Metabolized(s) >= s
  BY <1>1 DEF Metabolized, Yin
<1>3. /\ Metabolized(s) \in 0 .. 255 /\ Metabolized(s) <= t + 6 /\ Metabolized(s) >= t - 1
      /\ (t <= 160 => Metabolized(s) <= 166) /\ (t >= 96 => Metabolized(s) >= 95)
  BY <1>1, <1>2
<1> QED
  BY <1>3 DEF s

\* A beat keeps the invariant, and heals.
LEMMA BoardBeats ==
    ASSUME BoardInv, NEW bias \in 0 .. 255, BoardBeat(bias)
    PROVE  /\ BoardInv'
           /\ Viable(value')
           /\ \A p \in Params : \/ Distance(p, value'[p]) < Distance(p, value[p])
                                \/ value[p] = Board[p].target /\ value'[p] = value[p]
<1> DEFINE v == [p \in Params |-> Corrected(p, value[p])]
<1>1. PICK later \in Shaken(bias), starving \in BOOLEAN,
           turned \in SamePhase \union PhaseTurned :
        Balance(bias, later, turned, starving, v)
  BY DEF BoardBeat
<1>2. value' = v
  BY <1>1 DEF Balance
<1>3. \A p \in Params : /\ value'[p] = Corrected(p, value[p])
                        /\ value[p] \in Board[p].min .. Board[p].max
  BY <1>2 DEF BoardInv, OnScale
<1>4. OnScale'
  <2>1. \A p \in Params : /\ Corrected(p, value[p]) \in Board[p].min .. Board[p].max
                          /\ Corrected(p, value[p]) \in Int
    BY <1>3, CorrectionHeals, Scales
  <2> QED
    BY <1>2, <2>1 DEF OnScale
<1>5. Viable(value')
  <2>1. {"cpu_temperature", "immune_load", "pulse_frequency", "entropy_level"} \subseteq Params
    BY DEF Params, Board
  <2>2. /\ Board["cpu_temperature"].target < Board["cpu_temperature"].max
        /\ Board["immune_load"].target < Board["immune_load"].max
        /\ Board["pulse_frequency"].min < Board["pulse_frequency"].target
        /\ Board["entropy_level"].min < Board["entropy_level"].target
    BY DEF Board, Param
  <2>3. /\ Corrected("cpu_temperature", value["cpu_temperature"])
             < Board["cpu_temperature"].max
        /\ Corrected("immune_load", value["immune_load"]) < Board["immune_load"].max
        /\ Board["pulse_frequency"].min
             < Corrected("pulse_frequency", value["pulse_frequency"])
        /\ Board["entropy_level"].min < Corrected("entropy_level", value["entropy_level"])
    BY <1>3, <2>1, <2>2, CorrectionHeals
  <2>4. Viable(value') = Viable(v)
    BY <1>2
  <2>5. /\ v["cpu_temperature"] = Corrected("cpu_temperature", value["cpu_temperature"])
        /\ v["immune_load"] = Corrected("immune_load", value["immune_load"])
        /\ v["pulse_frequency"] = Corrected("pulse_frequency", value["pulse_frequency"])
        /\ v["entropy_level"] = Corrected("entropy_level", value["entropy_level"])
    BY <2>1
  <2>6. \A p \in {"pulse_frequency", "entropy_level"} :
          Board[p].min \in Int /\ Corrected(p, value[p]) \in Int
    BY <1>3, <2>1, Scales, CorrectionHeals
  <2> HIDE DEF v
  <2> QED
    BY <2>3, <2>4, <2>5, <2>6 DEF Viable
<1>6. \A p \in Params : \/ Distance(p, value'[p]) < Distance(p, value[p])
                        \/ value[p] = Board[p].target /\ value'[p] = value[p]
  BY <1>3, CorrectionHeals
<1>7. turned.tension \in 0 .. 255 /\ turned.force \in {"YIN", "YANG"}
  <2>1. tension \in 0 .. 255 /\ force \in {"YIN", "YANG"}
    BY DEF BoardInv, ForceFollowsTension
  <2>2. CASE turned \in SamePhase
    BY <2>1, <2>2 DEF SamePhase
  <2>3. CASE turned \in PhaseTurned
    <3>1. PICK h \in {6, 12, 18, 22}, f \in {"YIN", "YANG", force} :
            turned = [tension |-> Pineal(tension, h), force |-> f]
      BY <2>3 DEF PhaseTurned
    <3>2. Pineal(tension, h) \in 0 .. 255
      BY <2>1, ShiftsFit
    <3> QED
      BY <2>1, <3>1, <3>2
  <2> QED
    BY <2>2, <2>3
<1> DEFINE t3 == IF starving THEN Yin(turned.tension, 20) ELSE turned.tension
           t11 == Oscillated(Regulated(t3, v), bias)
<1>8. t11 \in 0 .. 255
  <2>1. t3 \in 0 .. 255
    BY <1>7, ShiftsFit
  <2> HIDE DEF t3
  <2>2. Regulated(t3, v) \in 0 .. 255
    BY <2>1, ShiftsFit
  <2> QED
    BY <2>2, ShiftsFit
<1>9. force' = Dominant(t11, turned.force) /\ tension' = Metabolized(Leaned(t11, later))
  BY <1>1 DEF Balance
<1>b. later \in Int
  BY <1>1 DEF Shaken
<1> HIDE DEF t11
<1>10. /\ tension' \in 0 .. 255 /\ (t11 <= 160 => tension' <= 166)
       /\ (t11 >= 96 => tension' >= 95)
  BY <1>8, <1>9, <1>b, LateLayers
<1>11. /\ force' \in {"YIN", "YANG"} /\ (t11 > 160 => force' = "YIN")
       /\ (t11 < 96 => force' = "YANG")
  BY <1>7, <1>8, <1>9 DEF Dominant
<1>12. ForceFollowsTension'
  BY <1>8, <1>10, <1>11 DEF ForceFollowsTension
<1> QED
  BY <1>1, <1>4, <1>5, <1>6, <1>11, <1>12 DEF BoardInv, Balance

\* An injection keeps the invariant: it is clamped.
LEMMA InjectionsFit ==
    ASSUME BoardInv, NEW p \in Disturbed, NEW v \in Injected, Inject(p, v)
    PROVE  BoardInv'
<1>1. p \in Params /\ v \in Int
  BY HomeostasisAssumption
<1>2. Clamp(p, v) \in Board[p].min .. Board[p].max /\ Clamp(p, v) \in Int
  BY <1>1, ClampFits, Scales
<1>3. OnScale'
  BY <1>1, <1>2 DEF BoardInv, OnScale, Inject
<1>4. ForceFollowsTension' /\ force' \in {"YIN", "YANG"} /\ injections' \in Nat
  BY DEF BoardInv, ForceFollowsTension, Inject
<1> QED
  BY <1>3, <1>4 DEF BoardInv

\* The board starts at its targets.
LEMMA BoardStarts == HomeostasisInit => BoardInv
<1> SUFFICES ASSUME HomeostasisInit PROVE BoardInv
  OBVIOUS
<1>1. OnScale
  BY Scales DEF HomeostasisInit, OnScale
<1> QED
  BY <1>1 DEF HomeostasisInit, BoardInv, ForceFollowsTension

\* Every operation on the board keeps its invariant.
LEMMA BoardSteps ==
    BoardInv /\ [\E bias \in 0 .. 255 : HomeostasisNext(bias)]_homeostasisVars => BoardInv'
<1> SUFFICES ASSUME BoardInv, [\E bias \in 0 .. 255 : HomeostasisNext(bias)]_homeostasisVars
             PROVE  BoardInv'
  OBVIOUS
<1>1. ASSUME NEW bias \in 0 .. 255, HomeostasisNext(bias) PROVE BoardInv'
  BY <1>1, BoardBeats, InjectionsFit DEF HomeostasisNext
<1>2. CASE UNCHANGED homeostasisVars
  BY <1>2 DEF homeostasisVars, BoardInv, OnScale, ForceFollowsTension
<1> QED
  BY <1>1, <1>2

\* For every personality, and however it changes from beat to beat: the force that is
\* announced never contradicts the tension, though later layers of the beat move it.
THEOREM ForceIsTrue == HomeostasisSpec => []ForceFollowsTension
<1>1. BoardInv => ForceFollowsTension
  BY DEF BoardInv
<1> QED
  BY <1>1, BoardStarts, BoardSteps, PTL DEF HomeostasisSpec

\* Every beat brings every parameter nearer to its target without passing it, and leaves
\* the organism viable, whatever was injected before.
THEOREM BeatsHeal == HomeostasisSpec => RegulationHeals
<1>1. BoardInv /\ [\E bias \in 0 .. 255 : HomeostasisNext(bias)]_homeostasisVars =>
        [UNCHANGED injections =>
           /\ \A p \in Params : \/ Distance(p, value'[p]) < Distance(p, value[p])
                                \/ value[p] = Board[p].target /\ value'[p] = value[p]
           /\ Viable(value')]_homeostasisVars
  <2> SUFFICES ASSUME BoardInv, NEW bias \in 0 .. 255, HomeostasisNext(bias),
                      injections' = injections
               PROVE  /\ \A p \in Params :
                           \/ Distance(p, value'[p]) < Distance(p, value[p])
                           \/ value[p] = Board[p].target /\ value'[p] = value[p]
                      /\ Viable(value')
    OBVIOUS
  <2>1. CASE BoardBeat(bias)
    BY <2>1, BoardBeats
  <2>2. CASE \E p \in Disturbed, v \in Injected : Inject(p, v)
    \* An injection is counted.
    <3>1. injections < MaxInjections /\ injections' = injections + 1
      BY <2>2 DEF Inject
    <3> QED
      BY <3>1 DEF BoardInv
  <2> QED
    BY <2>1, <2>2 DEF HomeostasisNext
<1> QED
  BY <1>1, BoardStarts, BoardSteps, PTL DEF HomeostasisSpec, RegulationHeals

----------------------------------------------------------------------------
(* Loops *)

----------------------------------------------------------------------------
\* Folds.  A fold is a recursive function on the subsets of a finite set.  That there is
\* such a function, and what it computes, is found by induction over the subsets; the
\* inductions are about sets of numbers and of subsets, not about predicates.

\* A set of numbers that is not empty has a least one.
LEMMA LeastOf ==
    ASSUME NEW N \in SUBSET Nat, N # {}
    PROVE  \E x \in N : \A y \in N : x <= y
<1> DEFINE R == OpToRel(<, Nat)
<1>1. IsWellFoundedOn(R, Nat)
  BY NatLessThanWellFounded
<1>2. \A x, y \in Nat : <<x, y>> \in R <=> x < y
  BY DEF OpToRel
<1> HIDE DEF R
<1>3. PICK x \in N : \A y \in N : ~(<<y, x>> \in R)
  BY <1>1, WFMin
<1>4. \A y \in N : x \in Nat /\ y \in Nat /\ ~(y < x)
  BY <1>2, <1>3
<1>5. \A y \in N : x <= y
  BY <1>4
<1> QED
  BY <1>5

\* Induction over the natural numbers.
LEMMA Climbing ==
    ASSUME NEW N \in SUBSET Nat, 0 \in N, \A n \in N : n + 1 \in N
    PROVE  N = Nat
<1> SUFFICES ASSUME Nat \ N # {} PROVE FALSE
  OBVIOUS
<1>1. Nat \ N \in SUBSET Nat
  OBVIOUS
<1>2. PICK m \in Nat \ N : \A y \in Nat \ N : m <= y
  BY <1>1, LeastOf
<1>3. m # 0 /\ m \in Nat
  BY <1>2
<1>4. m - 1 \in Nat /\ ~(m <= m - 1) /\ (m - 1) + 1 = m
  BY <1>3
<1>5. m - 1 \in N
  BY <1>2, <1>4
<1> QED
  BY <1>2, <1>4, <1>5

\* An element of every subset that has one.
Picks(pick, S) == \A s \in SUBSET S : s # {} => pick[s] \in s

\* The value on a subset follows from the value without the element that is picked.
Follows(f, S, base, pick, step) ==
    \A s \in SUBSET S : f[s] = IF s = {} THEN base ELSE step[<<s, f[s \ {pick[s]}]>>]

\* A function on the subsets of a finite set may be defined from its value on the
\* subset without the element that is picked from it.
LEMMA SubsetRecursion ==
    ASSUME NEW S, IsFiniteSet(S), NEW V, NEW base \in V, NEW pick,
           Picks(pick, S), NEW step \in [(SUBSET S) \X V -> V]
    PROVE  \E f \in [SUBSET S -> V] : Follows(f, S, base, pick, step)
<1> DEFINE val(f, s) == IF s = {} THEN base ELSE step[<<s, f[s \ {pick[s]}]>>]
           Upto(f, n) == \A s \in SUBSET S : Cardinality(s) <= n => f[s] = val(f, s)
           N == {n \in Nat : \E f \in [SUBSET S -> V] : Upto(f, n)}
<1>1. ASSUME NEW f \in [SUBSET S -> V], NEW s \in SUBSET S PROVE val(f, s) \in V
  <2>1. s \ {pick[s]} \in SUBSET S
    OBVIOUS
  <2>2. f[s \ {pick[s]}] \in V
    BY <2>1
  <2>3. <<s, f[s \ {pick[s]}]>> \in (SUBSET S) \X V
    BY <2>2
  <2>4. step[<<s, f[s \ {pick[s]}]>>] \in V
    BY <2>3
  <2> QED
    BY <2>4
<1>2. \A s \in SUBSET S : IsFiniteSet(s) /\ Cardinality(s) \in Nat
  BY FS_Subset, FS_CardinalityType
<1>3. 0 \in N
  <2>1. [s \in SUBSET S |-> base] \in [SUBSET S -> V]
    OBVIOUS
  <2>2. \A s \in SUBSET S : Cardinality(s) <= 0 => s = {}
    BY <1>2, FS_EmptySet
  <2>3. Upto([s \in SUBSET S |-> base], 0)
    BY <2>2
  <2> QED
    BY <2>1, <2>3
<1>4. ASSUME NEW n \in N PROVE n + 1 \in N
  <2>1. n \in Nat
    OBVIOUS
  <2>2. PICK f \in [SUBSET S -> V] : Upto(f, n)
    OBVIOUS
  <2> DEFINE g == [s \in SUBSET S |-> val(f, s)]
  <2>3. g \in [SUBSET S -> V]
    <3> HIDE DEF val
    <3> QED
      BY <1>1
  <2>4. \A s \in SUBSET S : g[s] = val(f, s)
    OBVIOUS
  <2> HIDE DEF g
  <2>5. ASSUME NEW s \in SUBSET S, Cardinality(s) <= n + 1, s # {}
        PROVE  g[s] = val(g, s)
    <3> DEFINE t == s \ {pick[s]}
    <3>1. t \in SUBSET S /\ Cardinality(t) = Cardinality(s) - 1
      BY <1>2, <2>5, FS_RemoveElement DEF Picks
    <3>2. Cardinality(t) <= n
      BY <1>2, <2>1, <2>5, <3>1
    <3>3. f[t] = val(f, t) /\ g[t] = val(f, t)
      <4> HIDE DEF t, val
      <4> QED
        BY <2>2, <2>4, <3>1, <3>2
    <3>4. val(g, s) = step[<<s, g[t]>>] /\ val(f, s) = step[<<s, f[t]>>]
      BY <2>5
    <3> HIDE DEF val, t
    <3> QED
      BY <2>4, <3>3, <3>4
  <2>6. ASSUME NEW s \in SUBSET S, s = {} PROVE g[s] = val(g, s)
    BY <2>4, <2>6
  <2>7. Upto(g, n + 1)
    <3> HIDE DEF val
    <3> QED
      BY <2>5, <2>6
  <2> HIDE DEF Upto
  <2> QED
    BY <2>1, <2>3, <2>7
<1>5. N = Nat
  <2> HIDE DEF N
  <2>1. N \in SUBSET Nat
    BY DEF N
  <2> QED
    BY <1>3, <1>4, <2>1, Climbing
<1>6. Cardinality(S) \in Nat
  BY <1>2
<1>7. PICK f \in [SUBSET S -> V] : Upto(f, Cardinality(S))
  BY <1>5, <1>6
<1>8. \A s \in SUBSET S : Cardinality(s) <= Cardinality(S)
  BY FS_Subset
<1>9. \A s \in SUBSET S : f[s] = val(f, s)
  <2> HIDE DEF val
  <2> QED
    BY <1>7, <1>8
<1> QED
  BY <1>9 DEF Follows

\* A subset of 1 .. n that is not empty has a largest element.
LEMMA MaxIn ==
    ASSUME NEW n \in Nat, NEW s \in SUBSET (1 .. n), s # {}
    PROVE  Max(s) \in s /\ \A y \in s : Max(s) >= y
<1> DEFINE N == {n - x : x \in s}
<1>1. N \in SUBSET Nat /\ N # {}
  <2>1. \A x \in s : n - x \in Nat
    OBVIOUS
  <2>2. N \in SUBSET Nat
    BY <2>1
  <2>3. PICK x \in s : TRUE
    OBVIOUS
  <2>4. n - x \in N
    OBVIOUS
  <2> HIDE DEF N
  <2> QED
    BY <2>2, <2>4
<1>2. PICK m \in N : \A y \in N : m <= y
  BY <1>1, LeastOf
<1>3. PICK x \in s : m = n - x
  BY <1>2
<1>4. \A y \in s : x >= y
  <2> SUFFICES ASSUME NEW y \in s PROVE x >= y
    OBVIOUS
  <2>1. n - y \in N
    OBVIOUS
  <2>2. n - x <= n - y
    BY <1>2, <1>3, <2>1
  <2>3. x \in Int /\ y \in Int
    OBVIOUS
  <2> QED
    BY <2>2, <2>3
<1> HIDE DEF N
<1> QED
  BY <1>3, <1>4 DEF Max

\* A first segment is a shorter one and its largest element.
LEMMA Segment ==
    ASSUME NEW n \in Nat, NEW k \in 1 .. n
    PROVE  /\ 1 .. k \in SUBSET (1 .. n) /\ 1 .. k # {} /\ Max(1 .. k) = k
           /\ (1 .. k) \ {k} = 1 .. (k - 1)
<1>1. 1 .. k \in SUBSET (1 .. n) /\ k \in 1 .. k
  OBVIOUS
<1>2. Max(1 .. k) \in 1 .. k /\ Max(1 .. k) >= k
  BY <1>1, MaxIn
<1>3. Max(1 .. k) = k
  BY <1>2
<1>4. (1 .. k) \ {k} = 1 .. (k - 1)
  OBVIOUS
<1> QED
  BY <1>1, <1>3, <1>4

\* What the fold over a sequence of n elements has to satisfy, element by element; and
\* what is known of a solution whose values are not known to be in V.
ByLast(f, n, base, step) ==
    \A s \in SUBSET (1 .. n) :
        f[s] = IF s = {} THEN base ELSE step[<<Max(s), f[s \ {Max(s)}]>>]
ByLastIn(f, n, V, base, step) ==
    /\ f[{}] = base
    /\ \A s \in SUBSET (1 .. n) :
         s # {} /\ f[s \ {Max(s)}] \in V => f[s] = step[<<Max(s), f[s \ {Max(s)}]>>]
Foldable(n, V, base, step) == \E f \in [SUBSET (1 .. n) -> V] : ByLast(f, n, base, step)

\* The values that a loop over 1 .. n goes through.
Trace(g, n, base, step, last) ==
    g[0] = base /\ g[n] = last /\ \A k \in 1 .. n : g[k] = step[<<k, g[k - 1]>>]

\* Folding a sequence from the left goes through the values of its first segments.
LEMMA FoldTrace ==
    ASSUME NEW n \in Nat, NEW V, NEW base \in V, NEW step \in [(1 .. n) \X V -> V],
           NEW iter,
           Foldable(n, V, base, step) => ByLastIn(iter, n, V, base, step)
    PROVE  \E g \in [0 .. n -> V] : Trace(g, n, base, step, iter[1 .. n])
<1> DEFINE S == 1 .. n
           pick == [s \in SUBSET S |-> Max(s)]
           wide == [p \in (SUBSET S) \X V |->
                      IF p[1] = {} THEN base ELSE step[<<Max(p[1]), p[2]>>]]
<1>1. IsFiniteSet(S)
  BY FS_Interval
<1>2. \A s \in SUBSET S : s # {} => Max(s) \in s
  BY MaxIn
<1>3. Picks(pick, S) /\ \A s \in SUBSET S : pick[s] = Max(s)
  BY <1>2 DEF Picks
<1>4. wide \in [(SUBSET S) \X V -> V]
  <2> SUFFICES ASSUME NEW p \in (SUBSET S) \X V, p[1] # {}
               PROVE  step[<<Max(p[1]), p[2]>>] \in V
    OBVIOUS
  <2>1. Max(p[1]) \in S /\ p[2] \in V
    BY <1>2
  <2>2. <<Max(p[1]), p[2]>> \in S \X V
    BY <2>1
  <2> QED
    BY <2>2
<1>5. \A s \in SUBSET S, v \in V : s # {} => wide[<<s, v>>] = step[<<Max(s), v>>]
  OBVIOUS
<1> HIDE DEF pick, wide
<1>6. PICK f \in [SUBSET S -> V] : Follows(f, S, base, pick, wide)
  BY <1>1, <1>3, <1>4, SubsetRecursion, Zenon
<1>7. ByLast(f, n, base, step)
  <2> SUFFICES ASSUME NEW s \in SUBSET S
               PROVE  f[s] = IF s = {} THEN base ELSE step[<<Max(s), f[s \ {Max(s)}]>>]
    BY DEF ByLast
  <2>1. CASE s = {}
    BY <1>6, <2>1 DEF Follows
  <2>2. CASE s # {}
    <3>1. f[s \ {Max(s)}] \in V
      OBVIOUS
    <3>2. f[s] = wide[<<s, f[s \ {Max(s)}]>>]
      BY <1>3, <1>6, <2>2 DEF Follows
    <3> QED
      BY <1>5, <2>2, <3>1, <3>2
  <2> QED
    BY <2>1, <2>2
<1>8. ByLastIn(iter, n, V, base, step)
  BY <1>7 DEF Foldable
<1>9. ASSUME NEW k \in 1 .. n, iter[1 .. (k - 1)] \in V
      PROVE  /\ iter[1 .. k] = step[<<k, iter[1 .. (k - 1)]>>]
             /\ iter[1 .. k] \in V
  <2>1. iter[1 .. k] = step[<<k, iter[1 .. (k - 1)]>>]
    BY <1>8, <1>9, Segment DEF ByLastIn
  <2>2. <<k, iter[1 .. (k - 1)]>> \in (1 .. n) \X V
    BY <1>9
  <2> QED
    BY <2>1, <2>2
<1> DEFINE N == {k \in Nat : k <= n => iter[1 .. k] \in V}
<1>10. 0 \in N
  <2>1. 1 .. 0 = {}
    OBVIOUS
  <2> QED
    BY <1>8, <2>1 DEF ByLastIn
<1>11. ASSUME NEW k \in N PROVE k + 1 \in N
  <2>1. k \in Nat /\ (k + 1) - 1 = k /\ k + 1 \in Nat
    OBVIOUS
  <2> SUFFICES ASSUME k + 1 <= n PROVE iter[1 .. (k + 1)] \in V
    BY <2>1
  <2>2. k + 1 \in 1 .. n /\ iter[1 .. k] \in V
    BY <2>1
  <2> QED
    BY <1>9, <2>1, <2>2
<1>12. N = Nat
  <2> HIDE DEF N
  <2>1. N \in SUBSET Nat
    BY DEF N
  <2> QED
    BY <1>10, <1>11, <2>1, Climbing
<1>13. \A k \in 0 .. n : iter[1 .. k] \in V
  BY <1>12
<1> DEFINE g == [k \in 0 .. n |-> iter[1 .. k]]
<1>14. g \in [0 .. n -> V]
  BY <1>13
<1>15. g[0] = base /\ g[n] = iter[1 .. n]
  <2>1. 1 .. 0 = {} /\ 0 \in 0 .. n /\ n \in 0 .. n
    OBVIOUS
  <2> QED
    BY <1>8, <2>1 DEF ByLastIn
<1>16. \A k \in 1 .. n : g[k] = step[<<k, g[k - 1]>>]
  <2> SUFFICES ASSUME NEW k \in 1 .. n PROVE g[k] = step[<<k, g[k - 1]>>]
    OBVIOUS
  <2>1. k \in 0 .. n /\ k - 1 \in 0 .. n
    OBVIOUS
  <2>2. iter[1 .. k] = step[<<k, iter[1 .. (k - 1)]>>]
    BY <1>9, <1>13, <2>1
  <2> QED
    BY <2>1, <2>2
<1> HIDE DEF g
<1> QED
  BY <1>14, <1>15, <1>16 DEF Trace

----------------------------------------------------------------------------
(* The inner network *)

LinkRange == -(WeightTop + 1) .. WeightTop
LinkType == [from : Ids, to : Ids, weight : LinkRange, plasticity : Nat]
NodeType == [id : Ids, activation : Int, threshold : Int, refractory : Nat, since : Nat]

\* What one link adds to the excitation of the network.
Share(ns, l) == IF Attached(ns, l) THEN Abs(l.weight) ELSE 0

\* The sums that the loop over the links goes through.
Sums(g, ns, ls) ==
    /\ g[0] = 0 /\ g[Len(ls)] = Excitation(ns, ls)
    /\ \A k \in 1 .. Len(ls) : g[k] = g[k - 1] + Share(ns, ls[k])

\* The excitation is the last of them.
LEMMA ExcitationSums ==
    ASSUME SynapsesAssumption, NEW ns, NEW ls \in Seq(LinkType)
    PROVE  \E g \in [0 .. Len(ls) -> Nat] : Sums(g, ns, ls)
<1> DEFINE n == Len(ls)
           op(sum, l) == IF Attached(ns, l) THEN sum + Abs(l.weight) ELSE sum
           F(f) == [s \in SUBSET (DOMAIN ls) |->
                      IF s = {} THEN 0 ELSE op(f[s \ {Max(s)}], ls[Max(s)])]
           iter == CHOOSE f : f = F(f)
           step == [p \in (1 .. n) \X Nat |-> op(p[2], ls[p[1]])]
<1>1. Excitation(ns, ls) = iter[DOMAIN ls]
  BY DEF Excitation, FoldLeft, MapThenFoldSet
<1>2. n \in Nat /\ DOMAIN ls = 1 .. n /\ \A k \in 1 .. n : ls[k] \in LinkType
  OBVIOUS
<1>3. \A k \in 1 .. n : Abs(ls[k].weight) \in Nat
  <2> SUFFICES ASSUME NEW k \in 1 .. n PROVE Abs(ls[k].weight) \in Nat
    OBVIOUS
  <2>1. ls[k].weight \in Int
    BY <1>2 DEF LinkType, LinkRange, SynapsesAssumption
  <2> QED
    BY <2>1 DEF Abs
<1>4. \A k \in 1 .. n, v \in Nat :
        op(v, ls[k]) \in Nat /\ op(v, ls[k]) = v + Share(ns, ls[k])
  BY <1>3 DEF Share
<1>5. step \in [(1 .. n) \X Nat -> Nat]
  <2> HIDE DEF op
  <2> QED
    BY <1>4
<1>6. \A k \in 1 .. n, v \in Nat : step[<<k, v>>] = op(v, ls[k])
  <2> HIDE DEF op
  <2> QED
    OBVIOUS
<1> HIDE DEF op, step, n
<1>7. Foldable(n, Nat, 0, step) => ByLastIn(iter, n, Nat, 0, step)
  <2> SUFFICES ASSUME NEW f \in [SUBSET (1 .. n) -> Nat], ByLast(f, n, 0, step)
               PROVE  ByLastIn(iter, n, Nat, 0, step)
    BY DEF Foldable
  <2>1. \A s \in SUBSET (1 .. n) :
          f[s] = IF s = {} THEN 0 ELSE op(f[s \ {Max(s)}], ls[Max(s)])
    <3> SUFFICES ASSUME NEW s \in SUBSET (1 .. n), s # {}
                 PROVE  f[s] = op(f[s \ {Max(s)}], ls[Max(s)])
      BY DEF ByLast
    <3>1. Max(s) \in 1 .. n /\ f[s \ {Max(s)}] \in Nat
      BY <1>2, MaxIn
    <3> QED
      BY <1>6, <3>1 DEF ByLast
  <2>2. f = F(f)
    BY <1>2, <2>1
  <2>3. iter = F(iter)
    <3> HIDE DEF F
    <3> QED
      BY <2>2
  <2> HIDE DEF iter
  <2>4. \A s \in SUBSET (1 .. n) :
          iter[s] = IF s = {} THEN 0 ELSE op(iter[s \ {Max(s)}], ls[Max(s)])
    BY <1>2, <2>3
  <2>5. iter[{}] = 0
    <3>1. {} \in SUBSET (1 .. n)
      OBVIOUS
    <3> HIDE DEF F
    <3> QED
      BY <2>4, <3>1
  <2>6. ASSUME NEW s \in SUBSET (1 .. n), s # {}, iter[s \ {Max(s)}] \in Nat
        PROVE  iter[s] = step[<<Max(s), iter[s \ {Max(s)}]>>]
    <3>1. Max(s) \in 1 .. n
      BY <1>2, <2>6, MaxIn
    <3> QED
      BY <1>6, <2>4, <2>6, <3>1
  <2> QED
    BY <2>5, <2>6 DEF ByLastIn
<1> HIDE DEF iter
<1>8. PICK g \in [0 .. n -> Nat] : Trace(g, n, 0, step, iter[1 .. n])
  <2>1. n \in Nat /\ 0 \in Nat
    BY <1>2
  <2> QED
    BY <1>5, <1>7, <2>1, FoldTrace, Zenon
<1>9. \A k \in 1 .. n : g[k] = g[k - 1] + Share(ns, ls[k])
  <2> SUFFICES ASSUME NEW k \in 1 .. n PROVE g[k] = g[k - 1] + Share(ns, ls[k])
    OBVIOUS
  <2>1. k - 1 \in 0 .. n
    BY <1>2
  <2>2. g[k - 1] \in Nat
    BY <2>1
  <2> QED
    BY <1>4, <1>6, <1>8, <2>2 DEF Trace
<1>10. Sums(g, ns, ls)
  BY <1>1, <1>2, <1>8, <1>9 DEF Sums, Trace, n
<1> QED
  BY <1>10 DEF n

\* Division towards zero: smaller than w by the factor t / total, with the sign of w.
LEMMA QuotientFits ==
    ASSUME NEW w \in Int, NEW t \in Nat, NEW total \in Nat \ {0}, t <= total
    PROVE  /\ Quotient(w * t, total) \in Int
           /\ total * Abs(Quotient(w * t, total)) <= t * Abs(w)
           /\ w >= 0 => Quotient(w * t, total) \in 0 .. w
           /\ w < 0 => Quotient(w * t, total) \in w .. 0
<1> DEFINE a == Abs(w)
           x == a * t
           q == x \div total
<1>1. a \in Nat /\ (w >= 0 => w = a) /\ (w < 0 => w = -a)
  BY DEF Abs
<1> HIDE DEF a
<1>2. x \in Nat
  BY <1>1
<1>3. (w >= 0 => w * t = x) /\ (w < 0 => w * t = -x)
  <2>1. (-a) * t = -(a * t)
    BY <1>1
  <2> QED
    BY <1>1, <2>1
<1>x. x <= total * a /\ x = t * a
  <2>1. PICK d \in Nat : total = t + d
    <3>1. total - t \in Nat /\ total = t + (total - t)
      OBVIOUS
    <3> QED
      BY <3>1
  <2>2. (t + d) * a = t * a + d * a /\ d * a \in Nat /\ t * a \in Nat /\ a * t = t * a
    BY <1>1
  <2> QED
    BY <2>1, <2>2
<1> HIDE DEF x
<1>4. q \in Int /\ (x % total) \in 0 .. total - 1 /\ x = total * q + (x % total)
  BY <1>2
<1>5. (-(-x)) = x /\ (x = 0 => q = 0)
  <2>1. -(-x) = x
    BY <1>2
  <2>2. 0 \div total = 0
    OBVIOUS
  <2> QED
    BY <2>1, <2>2
<1> HIDE DEF q
<1>6. q \in Nat
  <2> SUFFICES ASSUME q <= -1 PROVE FALSE
    BY <1>4
  <2>1. PICK d \in Nat : q = -1 - d
    <3>1. -1 - q \in Nat /\ q = -1 - (-1 - q)
      BY <1>4
    <3> QED
      BY <3>1
  <2>2. total * (-1 - d) = -total - total * d /\ total * d \in Nat
    OBVIOUS
  <2> QED
    BY <1>2, <1>4, <2>1, <2>2
<1>7. total * q <= x
  BY <1>4, <1>6
<1>8. q <= a
  <2> SUFFICES ASSUME q >= a + 1 PROVE FALSE
    BY <1>1, <1>6
  <2>1. PICK d \in Nat : q = a + 1 + d
    <3>1. q - (a + 1) \in Nat /\ q = a + 1 + (q - (a + 1))
      BY <1>1, <1>6
    <3> QED
      BY <3>1
  <2>2. total * (a + 1 + d) = total * a + total + total * d
        /\ total * d \in Nat /\ total * a \in Nat
    BY <1>1
  <2> QED
    BY <1>2, <1>7, <1>x, <2>1, <2>2
<1>9. CASE w >= 0
  <2>1. Quotient(w * t, total) = q
    BY <1>2, <1>3, <1>9 DEF Quotient, q
  <2>2. Abs(q) = q
    BY <1>6 DEF Abs
  <2> QED
    BY <1>1, <1>6, <1>7, <1>8, <1>9, <1>x, <2>1, <2>2 DEF a
<1>10. CASE w < 0
  <2>1. Quotient(w * t, total) = -q
    <3>1. CASE x = 0
      <4>1. w * t = 0
        BY <1>3, <1>10, <3>1
      <4>2. Quotient(0, total) = 0
        BY DEF Quotient
      <4> QED
        BY <1>5, <3>1, <4>1, <4>2
    <3>2. CASE x # 0
      <4>1. w * t = -x /\ -x < 0
        BY <1>2, <1>3, <1>10, <3>2
      <4>2. Quotient(-x, total) = -((-(-x)) \div total)
        BY <4>1 DEF Quotient
      <4> QED
        BY <1>5, <4>1, <4>2 DEF q
    <3> QED
      BY <3>1, <3>2
  <2>2. Abs(-q) = q
    BY <1>6 DEF Abs
  <2> QED
    BY <1>1, <1>6, <1>7, <1>8, <1>10, <1>x, <2>1, <2>2 DEF a
<1> QED
  BY <1>9, <1>10

\* Scaling leaves every weight in its range and nearer to zero.
LEMMA ScaledFits ==
    ASSUME SynapsesAssumption, NEW w \in LinkRange, NEW total \in Nat
    PROVE  /\ Scaled(w, total) \in LinkRange
           /\ total > ScaleAbove => total * Abs(Scaled(w, total)) <= ScaleTo * Abs(w)
           /\ total <= ScaleAbove => Scaled(w, total) = w
<1>1. /\ WeightTop \in Nat /\ ScaleAbove \in Nat /\ ScaleTo \in Nat /\ ScaleTo <= ScaleAbove
      /\ w \in Int
  BY DEF SynapsesAssumption, LinkRange
<1>2. CASE total <= ScaleAbove
  <2>1. Scaled(w, total) = w /\ ~(total > ScaleAbove)
    BY <1>1, <1>2 DEF Scaled
  <2> QED
    BY <1>2, <2>1
<1>3. CASE total > ScaleAbove
  <2>1. Scaled(w, total) = Quotient(w * ScaleTo, total)
    BY <1>3 DEF Scaled
  <2>2. total \in Nat \ {0} /\ ScaleTo <= total
    BY <1>1, <1>3
  <2>3. /\ Quotient(w * ScaleTo, total) \in Int
        /\ total * Abs(Quotient(w * ScaleTo, total)) <= ScaleTo * Abs(w)
        /\ w >= 0 => Quotient(w * ScaleTo, total) \in 0 .. w
        /\ w < 0 => Quotient(w * ScaleTo, total) \in w .. 0
    BY <1>1, <2>2, QuotientFits
  <2> DEFINE q == Quotient(w * ScaleTo, total)
  <2> HIDE DEF q
  <2>4. q \in LinkRange
    BY <1>1, <2>3 DEF LinkRange, q
  <2> QED
    BY <1>1, <1>3, <2>1, <2>3, <2>4 DEF q
<1> QED
  BY <1>1, <1>2, <1>3

\* Learning leaves a link a link, with its ends.
LEMMA LearnedFits ==
    ASSUME SynapsesAssumption, NEW ns, NEW fs, NEW l \in LinkType
    PROVE  Learned(ns, fs, l) \in LinkType
<1> DEFINE r == (l.plasticity \div PlasticityUnit) + 1
           both == LastOf(ns, l.from) \in fs /\ LastOf(ns, l.to) \in fs
           alone == LastOf(ns, l.from) \in fs /\ LastOf(ns, l.to) \notin fs
<1>1. /\ WeightTop \in Nat /\ DepressionFloor \in -(WeightTop + 1) .. 0
      /\ PlasticityUnit \in Nat \ {0}
  BY DEF SynapsesAssumption
<1>2. l.plasticity \in Nat /\ l.weight \in LinkRange
  BY DEF LinkType
<1>3. r \in Nat \ {0}
  BY <1>1, <1>2
<1> HIDE DEF r, both, alone
<1>4. \A w \in LinkRange : [l EXCEPT !.weight = w] \in LinkType
  BY DEF LinkType
<1>5. (IF l.weight < WeightTop - r THEN l.weight + r ELSE WeightTop) \in LinkRange
  BY <1>1, <1>2, <1>3 DEF LinkRange
<1>6. l.weight > DepressionFloor => l.weight - 1 \in LinkRange
  BY <1>1, <1>2 DEF LinkRange
<1>7. Learned(ns, fs, l) =
        IF ~Attached(ns, l) THEN l
        ELSE IF both
        THEN [l EXCEPT !.weight = IF l.weight < WeightTop - r THEN l.weight + r ELSE WeightTop]
        ELSE IF alone /\ l.weight > DepressionFloor
        THEN [l EXCEPT !.weight = l.weight - 1]
        ELSE l
  BY DEF Learned, r, both, alone
<1> QED
  BY <1>4, <1>5, <1>6, <1>7

\* Two runs of the sum: when every share shrinks in the ratio of a to b, so does the sum.
LEMMA SumsShrink ==
    ASSUME NEW n \in Nat, NEW a \in Nat, NEW b \in Nat,
           NEW g \in [0 .. n -> Nat], NEW h \in [0 .. n -> Nat],
           NEW u \in [1 .. n -> Nat], NEW v \in [1 .. n -> Nat],
           g[0] = 0, h[0] = 0,
           \A k \in 1 .. n : g[k] = g[k - 1] + u[k] /\ h[k] = h[k - 1] + v[k]
                             /\ a * v[k] <= b * u[k]
    PROVE  a * h[n] <= b * g[n]
<1> DEFINE N == {k \in Nat : k <= n => a * h[k] <= b * g[k]}
<1>1. 0 \in N
  <2>1. a * 0 = 0 /\ b * 0 = 0
    OBVIOUS
  <2> QED
    BY <2>1
<1>2. ASSUME NEW k \in N PROVE k + 1 \in N
  <2>1. k \in Nat /\ k + 1 \in Nat /\ (k + 1) - 1 = k
    OBVIOUS
  <2> SUFFICES ASSUME k + 1 <= n PROVE a * h[k + 1] <= b * g[k + 1]
    BY <2>1
  <2>2. k + 1 \in 1 .. n /\ k \in 0 .. n /\ a * h[k] <= b * g[k]
    BY <2>1
  <2> DEFINE hk == h[k]
             gk == g[k]
             uk == u[k + 1]
             vk == v[k + 1]
  <2>3. h[k + 1] = hk + vk /\ g[k + 1] = gk + uk /\ a * vk <= b * uk
    BY <2>1, <2>2
  <2>4. hk \in Nat /\ gk \in Nat /\ uk \in Nat /\ vk \in Nat
    BY <2>2
  <2>5. a * hk <= b * gk
    BY <2>2
  <2> HIDE DEF hk, gk, uk, vk
  <2>6. a * (hk + vk) = a * hk + a * vk /\ b * (gk + uk) = b * gk + b * uk
    BY <2>4
  <2>7. a * hk \in Nat /\ a * vk \in Nat /\ b * gk \in Nat /\ b * uk \in Nat
    BY <2>4
  <2> QED
    BY <2>3, <2>5, <2>6, <2>7
<1>3. N = Nat
  <2> HIDE DEF N
  <2>1. N \in SUBSET Nat
    BY DEF N
  <2> QED
    BY <1>1, <1>2, <2>1, Climbing
<1>4. n \in N
  BY <1>3
<1> QED
  BY <1>4

\* A function on 1 .. n is a sequence of length n.
LEMMA Sequenced ==
    ASSUME NEW T, NEW n \in Nat, NEW f \in [1 .. n -> T]
    PROVE  f \in Seq(T) /\ Len(f) = n
OBVIOUS

\* Learning and scaling leave the links in their ranges and the network calm.
LEMMA RewiredCalm ==
    ASSUME SynapsesAssumption, links \in Seq(LinkType), NEW ns, NEW fs
    PROVE  /\ Rewired(ns, fs) \in Seq(LinkType)
           /\ Excitation(ns, Rewired(ns, fs)) <= ScaleAbove
<1> DEFINE n == Len(links)
           ls == [k \in 1 .. n |-> Learned(ns, fs, links[k])]
           total == Excitation(ns, ls)
           ms == [k \in 1 .. n |-> [ls[k] EXCEPT !.weight = Scaled(@, total)]]
<1>1. n \in Nat /\ \A k \in 1 .. n : links[k] \in LinkType
  OBVIOUS
<1>2. ls \in Seq(LinkType) /\ Len(ls) = n /\ \A k \in 1 .. n : ls[k] \in LinkType
  <2>1. \A k \in 1 .. n : Learned(ns, fs, links[k]) \in LinkType
    BY <1>1, LearnedFits
  <2> HIDE DEF n
  <2>2. ls \in [1 .. n -> LinkType]
    BY <2>1
  <2> HIDE DEF ls
  <2> QED
    BY <1>1, <2>2, Sequenced
<1>3. Rewired(ns, fs) = ms
  BY DEF Rewired
<1> HIDE DEF n, ls
<1>4. PICK g \in [0 .. n -> Nat] : Sums(g, ns, ls)
  BY <1>2, ExcitationSums
<1>5. total \in Nat /\ total = g[n] /\ g[0] = 0
  BY <1>1, <1>2, <1>4 DEF Sums
<1> HIDE DEF total
<1>6. \A k \in 1 .. n :
        /\ ls[k].weight \in LinkRange
        /\ Scaled(ls[k].weight, total) \in LinkRange
  <2> SUFFICES ASSUME NEW k \in 1 .. n
               PROVE  ls[k].weight \in LinkRange /\ Scaled(ls[k].weight, total) \in LinkRange
    OBVIOUS
  <2>1. ls[k].weight \in LinkRange
    BY <1>2 DEF LinkType
  <2> QED
    BY <1>5, <2>1, ScaledFits
<1>7. \A k \in 1 .. n : /\ ms[k] \in LinkType
                        /\ ms[k].weight = Scaled(ls[k].weight, total)
                        /\ ms[k].from = ls[k].from /\ ms[k].to = ls[k].to
  BY <1>2, <1>6 DEF LinkType
<1>8. ms \in Seq(LinkType) /\ Len(ms) = n
  <2>1. ms \in [1 .. n -> LinkType]
    BY <1>7
  <2> HIDE DEF ms
  <2> QED
    BY <1>1, <2>1, Sequenced
<1> HIDE DEF ms
<1>9. PICK h \in [0 .. n -> Nat] : Sums(h, ns, ms)
  BY <1>8, ExcitationSums
<1>10. Excitation(ns, ms) = h[n] /\ h[0] = 0 /\ h[n] \in Nat
  BY <1>1, <1>8, <1>9 DEF Sums
<1> DEFINE u == [k \in 1 .. n |-> Share(ns, ls[k])]
           v == [k \in 1 .. n |-> Share(ns, ms[k])]
<1>11. \A k \in 1 .. n : /\ Share(ns, ls[k]) \in Nat /\ Share(ns, ms[k]) \in Nat
                         /\ total > ScaleAbove
                              => total * Share(ns, ms[k]) <= ScaleTo * Share(ns, ls[k])
                         /\ total <= ScaleAbove => Share(ns, ms[k]) = Share(ns, ls[k])
  <2> SUFFICES ASSUME NEW k \in 1 .. n
               PROVE  /\ Share(ns, ls[k]) \in Nat /\ Share(ns, ms[k]) \in Nat
                      /\ total > ScaleAbove
                           => total * Share(ns, ms[k]) <= ScaleTo * Share(ns, ls[k])
                      /\ total <= ScaleAbove => Share(ns, ms[k]) = Share(ns, ls[k])
    OBVIOUS
  <2>1. Attached(ns, ms[k]) = Attached(ns, ls[k])
    BY <1>7 DEF Attached
  <2> DEFINE w == ls[k].weight
             z == ms[k].weight
  <2>2. /\ w \in LinkRange /\ z \in LinkRange /\ z = Scaled(w, total)
    BY <1>6, <1>7
  <2> HIDE DEF w, z
  <2>3. /\ total > ScaleAbove => total * Abs(z) <= ScaleTo * Abs(w)
        /\ total <= ScaleAbove => z = w
    BY <1>5, <2>2, ScaledFits
  <2>4. Abs(w) \in Nat /\ Abs(z) \in Nat
    BY <2>2 DEF LinkRange, Abs, SynapsesAssumption
  <2>5. total * 0 <= ScaleTo * 0
    BY <1>5 DEF SynapsesAssumption
  <2>6. CASE Attached(ns, ls[k])
    <3>1. Share(ns, ls[k]) = Abs(w) /\ Share(ns, ms[k]) = Abs(z)
      BY <2>1, <2>6 DEF Share, w, z
    <3> QED
      BY <2>3, <2>4, <3>1
  <2>7. CASE ~Attached(ns, ls[k])
    <3>1. Share(ns, ls[k]) = 0 /\ Share(ns, ms[k]) = 0
      BY <2>1, <2>7 DEF Share
    <3> QED
      BY <2>5, <3>1
  <2> QED
    BY <2>6, <2>7
<1>12. u \in [1 .. n -> Nat] /\ v \in [1 .. n -> Nat]
  BY <1>11
<1>13. \A k \in 1 .. n : g[k] = g[k - 1] + u[k] /\ h[k] = h[k - 1] + v[k]
  BY <1>2, <1>4, <1>8, <1>9 DEF Sums
<1>14. \A k \in 1 .. n :
         /\ total > ScaleAbove => total * v[k] <= ScaleTo * u[k]
         /\ total <= ScaleAbove => v[k] = u[k]
  BY <1>11
<1> HIDE DEF u, v
<1>15. ScaleAbove \in Nat /\ ScaleTo \in Nat /\ ScaleTo <= ScaleAbove
  BY DEF SynapsesAssumption
<1>16. CASE total <= ScaleAbove
  <2>1. \A k \in 1 .. n : 1 * v[k] <= 1 * u[k]
    BY <1>12, <1>14, <1>16
  <2>2. 1 * h[n] <= 1 * g[n]
    BY <1>1, <1>5, <1>10, <1>12, <1>13, <2>1, SumsShrink
  <2> QED
    BY <1>3, <1>5, <1>8, <1>10, <1>15, <1>16, <2>2
<1>17. CASE total > ScaleAbove
  <2>1. \A k \in 1 .. n : total * v[k] <= ScaleTo * u[k]
    BY <1>14, <1>17
  <2>2. total * h[n] <= ScaleTo * g[n]
    BY <1>1, <1>5, <1>10, <1>12, <1>13, <1>15, <2>1, SumsShrink
  <2> DEFINE x == h[n]
  <2>3. x \in Nat /\ total * x <= ScaleTo * total /\ total > 0
    BY <1>5, <1>10, <1>15, <1>17, <2>2
  <2> HIDE DEF x
  <2>4. x <= ScaleTo
    <3> SUFFICES ASSUME x >= ScaleTo + 1 PROVE FALSE
      BY <1>15, <2>3
    <3>1. PICK d \in Nat : x = ScaleTo + 1 + d
      <4>1. x - (ScaleTo + 1) \in Nat /\ x = ScaleTo + 1 + (x - (ScaleTo + 1))
        BY <1>15, <2>3
      <4> QED
        BY <4>1
    <3>2. total \in Nat /\ ScaleTo \in Nat
      BY <1>5, <1>15
    <3>3. total * (ScaleTo + 1 + d) = total * ScaleTo + total + total * d
      BY <3>2
    <3>4. total * d \in Nat /\ total * ScaleTo \in Nat /\ total * ScaleTo = ScaleTo * total
      BY <3>2
    <3> QED
      BY <2>3, <3>1, <3>2, <3>3, <3>4
  <2> QED
    BY <1>3, <1>8, <1>10, <1>15, <2>3, <2>4 DEF x
<1> QED
  BY <1>5, <1>15, <1>16, <1>17

\* Node for node the same, but for the activation.
Row(n) == [1 .. n -> NodeType]
Alike(a, b) ==
    /\ a.id = b.id /\ a.threshold = b.threshold
    /\ a.refractory = b.refractory /\ a.since = b.since


\* A stimulation changes one activation.
LEMMA StimulatedKin ==
    ASSUME SynapsesAssumption, NEW n \in Nat, NEW ns \in Row(n), NEW id, NEW signal \in Int
    PROVE  /\ Stimulated(ns, id, signal) \in Row(n)
           /\ \A j \in 1 .. n : Alike(Stimulated(ns, id, signal)[j], ns[j])
<1>1. CASE Bearers(ns, id) = {}
  BY <1>1 DEF Stimulated, Alike
<1>2. CASE Bearers(ns, id) # {}
  <2> DEFINE i == FirstOf(ns, id)
             ms == [ns EXCEPT ![i].activation = Saturated(@ + signal)]
  <2>1. Stimulated(ns, id, signal) = ms
    BY <1>2 DEF Stimulated
  <2> HIDE DEF i
  <2>2. \A a \in Int : Saturated(a) \in Int
    BY DEF Saturated, SynapsesAssumption
  <2>3. ASSUME NEW j \in 1 .. n PROVE ms[j] \in NodeType /\ Alike(ms[j], ns[j])
    <3>1. ns[j] \in NodeType
      BY DEF Row
    <3>2. ns[j].activation + signal \in Int
      BY <3>1 DEF NodeType
    <3>3. Saturated(ns[j].activation + signal) \in Int
      BY <2>2, <3>2
    <3>4. ms[j] = IF j = i
                  THEN [ns[j] EXCEPT !.activation = Saturated(ns[j].activation + signal)]
                  ELSE ns[j]
      BY DEF Row
    <3> HIDE DEF ms
    <3> QED
      BY <3>1, <3>3, <3>4 DEF NodeType, Alike
  <2>4. ms \in Row(n)
    <3>1. DOMAIN ms = 1 .. n /\ ms = [j \in 1 .. n |-> ms[j]]
      BY DEF Row
    <3> HIDE DEF ms
    <3> QED
      BY <2>3, <3>1 DEF Row
  <2> QED
    BY <2>1, <2>3, <2>4
<1> QED
  BY <1>1, <1>2

\* Firing stimulates: it changes activations only, whatever the links.
LEMMA TransmittedKin ==
    ASSUME SynapsesAssumption, links \in Seq(LinkType),
           NEW m \in Nat, NEW ns \in Row(m), NEW k \in 1 .. m
    PROVE  /\ Transmitted(ns, k) \in Row(m)
           /\ \A j \in 1 .. m : Alike(Transmitted(ns, k)[j], ns[j])
<1> DEFINE n == Len(links)
           V == {ms \in Row(m) : \A j \in 1 .. m : Alike(ms[j], ns[j])}
           op(acc, l) == IF l.from = ns[k].id THEN Stimulated(acc, l.to, l.weight) ELSE acc
           F(f) == [s \in SUBSET (DOMAIN links) |->
                      IF s = {} THEN ns ELSE op(f[s \ {Max(s)}], links[Max(s)])]
           iter == CHOOSE f : f = F(f)
           step == [p \in (1 .. n) \X V |-> op(p[2], links[p[1]])]
<1>1. Transmitted(ns, k) = iter[DOMAIN links]
  BY DEF Transmitted, FoldLeft, MapThenFoldSet
<1>2. n \in Nat /\ DOMAIN links = 1 .. n /\ \A i \in 1 .. n : links[i] \in LinkType
  OBVIOUS
<1>3. ns \in V
  BY DEF Alike
<1>4. \A i \in 1 .. n, v \in V : op(v, links[i]) \in V
  <2> SUFFICES ASSUME NEW i \in 1 .. n, NEW v \in V
               PROVE  Stimulated(v, links[i].to, links[i].weight) \in V
    OBVIOUS
  <2>1. links[i].weight \in Int
    <3>1. \A l \in LinkType : l.weight \in Int
      BY DEF LinkType, LinkRange, SynapsesAssumption
    <3>2. links[i] \in LinkType
      BY <1>2
    <3> HIDE DEF op, V, step, F, iter
    <3> QED
      BY <3>1, <3>2
  <2>2. v \in Row(m) /\ \A j \in 1 .. m : Alike(v[j], ns[j])
    OBVIOUS
  <2> DEFINE w == Stimulated(v, links[i].to, links[i].weight)
  <2>3. w \in Row(m) /\ \A j \in 1 .. m : Alike(w[j], v[j])
    BY <2>1, <2>2, StimulatedKin
  <2> HIDE DEF w
  <2>4. \A j \in 1 .. m : Alike(w[j], ns[j])
    BY <2>2, <2>3 DEF Alike
  <2> QED
    BY <2>3, <2>4 DEF w
<1>5. step \in [(1 .. n) \X V -> V]
  <2> HIDE DEF op, V
  <2> QED
    BY <1>4
<1>6. \A i \in 1 .. n, v \in V : step[<<i, v>>] = op(v, links[i])
  <2> HIDE DEF op, V
  <2> QED
    OBVIOUS
<1> HIDE DEF op, step, n, V
<1>7. Foldable(n, V, ns, step) => ByLastIn(iter, n, V, ns, step)
  <2> SUFFICES ASSUME NEW f \in [SUBSET (1 .. n) -> V], ByLast(f, n, ns, step)
               PROVE  ByLastIn(iter, n, V, ns, step)
    BY DEF Foldable
  <2>1. \A s \in SUBSET (1 .. n) :
          f[s] = IF s = {} THEN ns ELSE op(f[s \ {Max(s)}], links[Max(s)])
    <3> SUFFICES ASSUME NEW s \in SUBSET (1 .. n), s # {}
                 PROVE  f[s] = op(f[s \ {Max(s)}], links[Max(s)])
      BY DEF ByLast
    <3>1. Max(s) \in 1 .. n /\ f[s \ {Max(s)}] \in V
      BY <1>2, MaxIn
    <3> QED
      BY <1>6, <3>1 DEF ByLast
  <2>2. f = F(f)
    BY <1>2, <2>1
  <2>3. iter = F(iter)
    <3> HIDE DEF F
    <3> QED
      BY <2>2
  <2> HIDE DEF iter
  <2>4. \A s \in SUBSET (1 .. n) :
          iter[s] = IF s = {} THEN ns ELSE op(iter[s \ {Max(s)}], links[Max(s)])
    BY <1>2, <2>3
  <2>5. iter[{}] = ns
    <3>1. {} \in SUBSET (1 .. n)
      OBVIOUS
    <3> HIDE DEF F
    <3> QED
      BY <2>4, <3>1
  <2>6. ASSUME NEW s \in SUBSET (1 .. n), s # {}, iter[s \ {Max(s)}] \in V
        PROVE  iter[s] = step[<<Max(s), iter[s \ {Max(s)}]>>]
    <3>1. Max(s) \in 1 .. n
      BY <1>2, <2>6, MaxIn
    <3> QED
      BY <1>6, <2>4, <2>6, <3>1
  <2> QED
    BY <2>5, <2>6 DEF ByLastIn
<1> HIDE DEF iter
<1>8. PICK g \in [0 .. n -> V] : Trace(g, n, ns, step, iter[1 .. n])
  <2>1. n \in Nat
    BY <1>2
  <2> QED
    BY <1>3, <1>5, <1>7, <2>1, FoldTrace, Zenon
<1>9. iter[1 .. n] \in V
  BY <1>2, <1>8 DEF Trace
<1> QED
  BY <1>1, <1>2, <1>9 DEF V

\* A node has rested as long as its refractory period says.
Rested(n) == n.refractory + n.since >= RestTicks

\* What the loop of synapse_propagate carries, for m nodes.
Carried(m) == [nodes : Row(m), fired : SUBSET (1 .. m)]

\* A visit leaves the rest of the other nodes alone; only a node out of its refractory
\* period fires.
Spares(m, acc, k, res) ==
    /\ \A j \in 1 .. m :
         j # k => /\ res.nodes[j].refractory = acc.nodes[j].refractory
                  /\ res.nodes[j].since = acc.nodes[j].since
    /\ Rested(acc.nodes[k]) => Rested(res.nodes[k])
    /\ \/ res.fired = acc.fired
       \/ res.fired = acc.fired \union {k} /\ acc.nodes[k].refractory = 0

\* So it is for every visit.
LEMMA VisitRests ==
    ASSUME SynapsesAssumption, links \in Seq(LinkType),
           NEW m \in Nat, NEW acc \in Carried(m), NEW k \in 1 .. m
    PROVE  Visit(acc, k) \in Carried(m) /\ Spares(m, acc, k, Visit(acc, k))
<1> DEFINE row == acc.nodes
           n == row[k]
           fires == n.activation >= n.threshold
           shot == [row EXCEPT ![k].refractory = RestTicks, ![k].since = 0]
           calm == [row EXCEPT ![k].since = Older(@)]
           ns == IF fires THEN Transmitted(shot, k) ELSE calm
           last == [ns EXCEPT ![k].activation = Decayed(@)]
<1>1. /\ row \in Row(m) /\ acc.fired \in SUBSET (1 .. m)
      /\ acc = [nodes |-> acc.nodes, fired |-> acc.fired]
  BY DEF Carried
<1>2. n \in NodeType
  BY <1>1 DEF Row
<1>3. /\ RestTicks \in Nat /\ n.refractory \in Nat /\ n.since \in Nat
      /\ Older(n.since) \in Nat /\ Older(n.since) >= n.since
      /\ n.since < RestTicks => Older(n.since) = n.since + 1
  <2>1. RestTicks \in Nat
    BY DEF SynapsesAssumption
  <2>2. n.refractory \in Nat /\ n.since \in Nat
    BY <1>2 DEF NodeType
  <2> HIDE DEF n
  <2> QED
    BY <2>1, <2>2 DEF Older
<1>4. ASSUME n.refractory > 0
      PROVE  LET r == [acc EXCEPT !.nodes[k].refractory = @ - 1, !.nodes[k].since = Older(@)]
             IN  /\ r \in Carried(m)
                 /\ \A j \in 1 .. m :
                      j # k => /\ r.nodes[j].refractory = row[j].refractory
                               /\ r.nodes[j].since = row[j].since
                 /\ Rested(n) => Rested(r.nodes[k])
                 /\ r.fired = acc.fired
  <2> DEFINE one == [n EXCEPT !.refractory = n.refractory - 1, !.since = Older(n.since)]
             res == [row EXCEPT ![k] = one]
             r == [acc EXCEPT !.nodes[k].refractory = @ - 1, !.nodes[k].since = Older(@)]
  <2>1. one \in NodeType /\ one.refractory = n.refractory - 1 /\ one.since = Older(n.since)
    <3>1. n.refractory - 1 \in Nat
      <4> HIDE DEF n
      <4> QED
        BY <1>3, <1>4
    <3> HIDE DEF n
    <3> QED
      BY <1>2, <1>3, <3>1 DEF NodeType
  <2>2. r.nodes = res /\ r.fired = acc.fired /\ r = [nodes |-> res, fired |-> acc.fired]
    <3> DEFINE half == [n EXCEPT !.refractory = n.refractory - 1]
               mid == [acc EXCEPT !.nodes[k].refractory = @ - 1]
    <3>1. mid = [nodes |-> [row EXCEPT ![k] = half], fired |-> acc.fired]
      <4>1. mid = [acc EXCEPT !.nodes = [row EXCEPT ![k] = half]]
        OBVIOUS
      <4> DEFINE upd == [row EXCEPT ![k] = half]
      <4>2. mid = [acc EXCEPT !.nodes = upd]
        BY <4>1
      <4> HIDE DEF mid, half, row, upd
      <4>3. mid = [nodes |-> upd, fired |-> acc.fired]
        BY <4>2 DEF Carried
      <4> QED
        BY <4>3 DEF upd
    <3>2. r = [mid EXCEPT !.nodes[k].since = Older(@)]
      OBVIOUS
    <3>3. [row EXCEPT ![k] = half][k] = half /\ half.since = n.since
      BY <1>1, <1>2 DEF Row, NodeType
    <3>4. r = [nodes |-> [row EXCEPT ![k] = [half EXCEPT !.since = Older(half.since)]],
               fired |-> acc.fired]
      <4> HIDE DEF half, mid, r, row
      <4> QED
        BY <1>1, <3>1, <3>2, <3>3 DEF Row
    <3>5. [half EXCEPT !.since = Older(half.since)] = one
      BY <1>2, <3>3 DEF NodeType
    <3> HIDE DEF half, mid, r, one
    <3> QED
      BY <3>4, <3>5
  <2> HIDE DEF one, r
  <2>3. res \in Row(m) /\ res[k] = one /\ \A j \in 1 .. m : j # k => res[j] = row[j]
    BY <1>1, <2>1 DEF Row
  <2> HIDE DEF res, row
  <2>4. Rested(n) => Rested(one)
    <3> DEFINE a == n.refractory
               b == n.since
               c == Older(n.since)
    <3>1. /\ RestTicks \in Nat /\ a \in Nat /\ b \in Nat /\ c \in Nat /\ c >= b
          /\ a > 0 /\ (b < RestTicks => c = b + 1)
      BY <1>3, <1>4
    <3>2. one.refractory = a - 1 /\ one.since = c
      BY <2>1
    <3> HIDE DEF a, b, c
    <3>3. a + b >= RestTicks => (a - 1) + c >= RestTicks
      BY <3>1
    <3> QED
      BY <3>2, <3>3 DEF Rested, a, b
  <2>5. r \in Carried(m)
    BY <1>1, <2>2, <2>3 DEF Carried
  <2>6. Rested(n) => Rested(r.nodes[k])
    BY <2>2, <2>3, <2>4
  <2> HIDE DEF n
  <2> QED
    BY <2>2, <2>3, <2>5, <2>6 DEF r
<1>5. ASSUME ~(n.refractory > 0)
      PROVE  /\ last \in Row(m)
             /\ \A j \in 1 .. m :
                  j # k => /\ last[j].refractory = row[j].refractory
                           /\ last[j].since = row[j].since
             /\ Rested(n) => Rested(last[k])
  <2>1. /\ shot \in Row(m) /\ shot[k].refractory = RestTicks /\ shot[k].since = 0
        /\ \A j \in 1 .. m : j # k => shot[j] = row[j]
    <3> DEFINE one == [n EXCEPT !.refractory = RestTicks, !.since = 0]
    <3>1. one \in NodeType /\ one.refractory = RestTicks /\ one.since = 0
      BY <1>2, <1>3 DEF NodeType
    <3>2. shot = [row EXCEPT ![k] = one]
      BY <1>1, <1>2 DEF Row, NodeType
    <3> HIDE DEF one, shot
    <3> QED
      BY <1>1, <3>1, <3>2 DEF Row
  <2>2. /\ calm \in Row(m)
        /\ calm[k].refractory = n.refractory /\ calm[k].since = Older(n.since)
        /\ \A j \in 1 .. m : j # k => calm[j] = row[j]
    <3> DEFINE one == [n EXCEPT !.since = Older(n.since)]
    <3>1. one \in NodeType /\ one.refractory = n.refractory /\ one.since = Older(n.since)
      BY <1>2, <1>3 DEF NodeType
    <3>2. calm = [row EXCEPT ![k] = one]
      BY <1>1, <1>2 DEF Row, NodeType
    <3> HIDE DEF one, calm
    <3> QED
      BY <1>1, <3>1, <3>2 DEF Row
  <2> HIDE DEF shot, calm
  <2>3. /\ Transmitted(shot, k) \in Row(m)
        /\ \A j \in 1 .. m : Alike(Transmitted(shot, k)[j], shot[j])
    BY <2>1, TransmittedKin
  <2>4. /\ ns \in Row(m)
        /\ \A j \in 1 .. m : j # k => /\ ns[j].refractory = row[j].refractory
                                      /\ ns[j].since = row[j].since
        /\ \/ ns[k].refractory = RestTicks /\ ns[k].since = 0
           \/ ns[k].refractory = n.refractory /\ ns[k].since = Older(n.since)
    <3> HIDE DEF row, n, fires
    <3>1. CASE fires
      BY <2>1, <2>3, <3>1 DEF Alike
    <3>2. CASE ~fires
      BY <2>2, <3>2
    <3> QED
      BY <3>1, <3>2
  <2> HIDE DEF ns
  <2>5. /\ last \in Row(m)
        /\ last[k].refractory = ns[k].refractory /\ last[k].since = ns[k].since
        /\ \A j \in 1 .. m : j # k => last[j] = ns[j]
    <3> DEFINE one == [ns[k] EXCEPT !.activation = Decayed(ns[k].activation)]
    <3>1. ns[k] \in NodeType
      BY <2>4 DEF Row
    <3>2. Decayed(ns[k].activation) \in Int
      <4>1. ns[k].activation \in Int
        BY <3>1 DEF NodeType
      <4>2. \A a \in Int : Decayed(a) \in Int
        BY DEF Decayed
      <4> QED
        BY <4>1, <4>2
    <3>3. one \in NodeType /\ one.refractory = ns[k].refractory /\ one.since = ns[k].since
      BY <3>1, <3>2 DEF NodeType
    <3>4. last = [ns EXCEPT ![k] = one]
      BY <2>4, <3>1 DEF Row, NodeType
    <3> HIDE DEF one, last
    <3> QED
      BY <2>4, <3>3, <3>4 DEF Row
  <2> HIDE DEF last, row
  <2>6. Rested(n) => Rested(last[k])
    <3> DEFINE a == n.refractory
               b == n.since
               c == Older(n.since)
    <3>1. RestTicks \in Nat /\ a \in Nat /\ b \in Nat /\ c \in Nat /\ c >= b /\ ~(a > 0)
      BY <1>3, <1>5
    <3>2. \/ last[k].refractory = RestTicks /\ last[k].since = 0
          \/ last[k].refractory = a /\ last[k].since = c
      BY <2>4, <2>5
    <3>3. Rested(n) <=> a + b >= RestTicks
      BY DEF Rested
    <3> HIDE DEF a, b, c, n
    <3>4. a + b >= RestTicks => a + c >= RestTicks
      BY <3>1
    <3>5. RestTicks + 0 >= RestTicks
      BY <3>1
    <3> QED
      BY <3>2, <3>3, <3>4, <3>5 DEF Rested
  <2> QED
    BY <2>4, <2>5, <2>6
<1>6. CASE n.refractory > 0
  <2>1. Visit(acc, k) =
          [acc EXCEPT !.nodes[k].refractory = @ - 1, !.nodes[k].since = Older(@)]
    BY <1>6 DEF Visit
  <2> QED
    BY <1>4, <1>6, <2>1 DEF Spares
<1>7. CASE ~(n.refractory > 0)
  <2> DEFINE fs == IF fires THEN acc.fired \union {k} ELSE acc.fired
  <2>1. Visit(acc, k) = [nodes |-> last, fired |-> fs]
    BY <1>7 DEF Visit
  <2>2. /\ fs \in SUBSET (1 .. m)
        /\ fs = acc.fired \/ fs = acc.fired \union {k}
    <3> HIDE DEF fires
    <3> QED
      BY <1>1
  <2>3. n.refractory = 0
    <3> DEFINE a == n.refractory
    <3>1. a \in Nat /\ ~(a > 0)
      BY <1>3, <1>7
    <3> HIDE DEF a
    <3>2. a = 0
      BY <3>1
    <3> QED
      BY <3>2 DEF a
  <2>4. /\ last \in Row(m)
        /\ \A j \in 1 .. m :
             j # k => /\ last[j].refractory = row[j].refractory
                      /\ last[j].since = row[j].since
        /\ Rested(n) => Rested(last[k])
    BY <1>5, <1>7
  <2> HIDE DEF last, fs
  <2> QED
    BY <2>1, <2>2, <2>3, <2>4 DEF Carried, Spares
<1> QED
  BY <1>6, <1>7

\* The loop of synapse_propagate, visit by visit.
LEMMA PropagatedTrace ==
    ASSUME SynapsesAssumption, links \in Seq(LinkType), nodes \in Seq(NodeType)
    PROVE  \E g \in [0 .. Len(nodes) -> Carried(Len(nodes))] :
             /\ g[0] = [nodes |-> nodes, fired |-> {}] /\ g[Len(nodes)] = Propagated
             /\ \A k \in 1 .. Len(nodes) : g[k] = Visit(g[k - 1], k)
<1> DEFINE n == Len(nodes)
           V == Carried(n)
           base == [nodes |-> nodes, fired |-> {}]
           ps == Positions(nodes)
           F(f) == [s \in SUBSET (DOMAIN ps) |->
                      IF s = {} THEN base ELSE Visit(f[s \ {Max(s)}], ps[Max(s)])]
           iter == CHOOSE f : f = F(f)
           step == [p \in (1 .. n) \X V |-> Visit(p[2], p[1])]
<1>1. Propagated = iter[DOMAIN ps]
  BY DEF Propagated, FoldLeft, MapThenFoldSet
<1>2. n \in Nat /\ DOMAIN ps = 1 .. n /\ \A k \in 1 .. n : ps[k] = k
  BY DEF Positions
<1>3. base \in V
  BY DEF Carried, Row
<1>4. \A k \in 1 .. n, v \in V : Visit(v, k) \in V
  BY <1>2, VisitRests
<1> HIDE DEF V, n
<1>5. step \in [(1 .. n) \X V -> V] /\ \A k \in 1 .. n, v \in V : step[<<k, v>>] = Visit(v, k)
  BY <1>4
<1> HIDE DEF base, step, ps
<1>7. Foldable(n, V, base, step) => ByLastIn(iter, n, V, base, step)
  <2> SUFFICES ASSUME NEW f \in [SUBSET (1 .. n) -> V], ByLast(f, n, base, step)
               PROVE  ByLastIn(iter, n, V, base, step)
    BY DEF Foldable
  <2>1. \A s \in SUBSET (1 .. n) :
          f[s] = IF s = {} THEN base ELSE Visit(f[s \ {Max(s)}], ps[Max(s)])
    <3> SUFFICES ASSUME NEW s \in SUBSET (1 .. n), s # {}
                 PROVE  f[s] = Visit(f[s \ {Max(s)}], ps[Max(s)])
      BY DEF ByLast
    <3>1. Max(s) \in 1 .. n /\ f[s \ {Max(s)}] \in V
      BY <1>2, MaxIn
    <3> QED
      BY <1>2, <1>5, <3>1 DEF ByLast
  <2>2. f = F(f)
    BY <1>2, <2>1
  <2>3. iter = F(iter)
    <3> HIDE DEF F
    <3> QED
      BY <2>2
  <2> HIDE DEF iter
  <2>4. \A s \in SUBSET (1 .. n) :
          iter[s] = IF s = {} THEN base ELSE Visit(iter[s \ {Max(s)}], ps[Max(s)])
    BY <1>2, <2>3
  <2>5. iter[{}] = base
    <3>1. {} \in SUBSET (1 .. n)
      OBVIOUS
    <3> HIDE DEF F
    <3> QED
      BY <2>4, <3>1
  <2>6. ASSUME NEW s \in SUBSET (1 .. n), s # {}, iter[s \ {Max(s)}] \in V
        PROVE  iter[s] = step[<<Max(s), iter[s \ {Max(s)}]>>]
    <3>1. Max(s) \in 1 .. n
      BY <1>2, <2>6, MaxIn
    <3>2. iter[s] = Visit(iter[s \ {Max(s)}], ps[Max(s)])
      BY <2>4, <2>6
    <3>3. ps[Max(s)] = Max(s)
      BY <1>2, <3>1
    <3>4. step[<<Max(s), iter[s \ {Max(s)}]>>] = Visit(iter[s \ {Max(s)}], Max(s))
      BY <1>5, <2>6, <3>1
    <3> QED
      BY <3>2, <3>3, <3>4
  <2> QED
    BY <2>5, <2>6 DEF ByLastIn
<1> HIDE DEF iter
<1>8. PICK g \in [0 .. n -> V] : Trace(g, n, base, step, iter[1 .. n])
  <2>1. n \in Nat /\ step \in [(1 .. n) \X V -> V]
    BY <1>2, <1>5
  <2> QED
    BY <1>3, <1>7, <2>1, FoldTrace, Zenon
<1>9. \A k \in 1 .. n : g[k] = Visit(g[k - 1], k)
  <2> SUFFICES ASSUME NEW k \in 1 .. n PROVE g[k] = Visit(g[k - 1], k)
    OBVIOUS
  <2>1. k - 1 \in 0 .. n
    BY <1>2
  <2>2. g[k - 1] \in V
    BY <2>1
  <2> QED
    BY <1>5, <1>8, <2>2 DEF Trace
<1>10. g[0] = base /\ g[n] = Propagated
  BY <1>1, <1>2, <1>8 DEF Trace
<1> QED
  BY <1>9, <1>10 DEF n, V, base

\* A tick keeps every node's count of its rest, and fires only nodes that have rested.
LEMMA PropagationRests ==
    ASSUME SynapsesAssumption, links \in Seq(LinkType), nodes \in Seq(NodeType),
           \A j \in 1 .. Len(nodes) : Rested(nodes[j])
    PROVE  /\ Propagated.nodes \in Row(Len(nodes))
           /\ Propagated.fired \in SUBSET (1 .. Len(nodes))
           /\ \A j \in 1 .. Len(nodes) : Rested(Propagated.nodes[j])
           /\ \A j \in Propagated.fired : nodes[j].since >= RestTicks
<1> DEFINE n == Len(nodes)
<1>1. PICK g \in [0 .. n -> Carried(n)] :
        /\ g[0] = [nodes |-> nodes, fired |-> {}] /\ g[n] = Propagated
        /\ \A k \in 1 .. n : g[k] = Visit(g[k - 1], k)
  BY PropagatedTrace
<1>2. n \in Nat /\ nodes \in Row(n)
  BY DEF Row
<1>3. \A j \in 1 .. n : nodes[j].refractory \in Nat /\ nodes[j].since \in Nat
  BY <1>2 DEF Row, NodeType
<1> HIDE DEF n
<1> DEFINE Fair(k) ==
             /\ \A j \in 1 .. n : Rested(g[k].nodes[j])
             /\ \A j \in 1 .. n :
                  j > k => /\ g[k].nodes[j].refractory = nodes[j].refractory
                           /\ g[k].nodes[j].since = nodes[j].since
             /\ \A j \in g[k].fired : nodes[j].since >= RestTicks
           N == {k \in Nat : k <= n => Fair(k)}
<1>4. 0 \in N
  <2>1. g[0].nodes = nodes /\ g[0].fired = {}
    BY <1>1
  <2>2. Fair(0)
    BY <2>1 DEF n
  <2> HIDE DEF Fair
  <2> QED
    BY <2>2
<1>5. ASSUME NEW k \in N PROVE k + 1 \in N
  <2>1. k \in Nat /\ k + 1 \in Nat /\ (k + 1) - 1 = k
    OBVIOUS
  <2> SUFFICES ASSUME k + 1 <= n PROVE Fair(k + 1)
    <3> HIDE DEF Fair
    <3> QED
      BY <2>1
  <2>2. k + 1 \in 1 .. n /\ k \in 0 .. n /\ Fair(k)
    <3> HIDE DEF Fair
    <3> QED
      BY <1>2, <2>1
  <2> DEFINE acc == g[k]
             res == g[k + 1]
             i == k + 1
  <2>3. acc \in Carried(n) /\ res = Visit(acc, i)
    BY <1>1, <2>1, <2>2
  <2>f. /\ \A j \in 1 .. n : Rested(acc.nodes[j])
        /\ \A j \in 1 .. n :
             j > k => /\ acc.nodes[j].refractory = nodes[j].refractory
                      /\ acc.nodes[j].since = nodes[j].since
        /\ \A j \in acc.fired : nodes[j].since >= RestTicks
    BY <2>2
  <2>i. i \in 1 .. n /\ i > k /\ \A j \in 1 .. n : j > i => j # i /\ j > k
    BY <1>2, <2>1, <2>2
  <2> HIDE DEF acc, res, i
  <2>4. /\ \A j \in 1 .. n :
             j # i => /\ res.nodes[j].refractory = acc.nodes[j].refractory
                      /\ res.nodes[j].since = acc.nodes[j].since
        /\ Rested(acc.nodes[i]) => Rested(res.nodes[i])
        /\ \/ res.fired = acc.fired
           \/ res.fired = acc.fired \union {i} /\ acc.nodes[i].refractory = 0
    <3>1. n \in Nat /\ i \in 1 .. n /\ acc \in Carried(n)
      BY <1>2, <2>3, <2>i
    <3>2. Spares(n, acc, i, res)
      BY <2>3, <3>1, VisitRests
    <3> QED
      BY <3>2 DEF Spares
  <2>5. \A j \in 1 .. n : Rested(res.nodes[j])
    BY <2>4, <2>f, <2>i DEF Rested
  <2>6. \A j \in 1 .. n :
          j > i => /\ res.nodes[j].refractory = nodes[j].refractory
                   /\ res.nodes[j].since = nodes[j].since
    BY <2>4, <2>f, <2>i
  <2>7. acc.nodes[i].refractory = 0 => nodes[i].since >= RestTicks
    <3>1. /\ Rested(acc.nodes[i]) /\ acc.nodes[i].since = nodes[i].since
          /\ nodes[i].since \in Nat
      BY <1>3, <2>f, <2>i
    <3>2. RestTicks \in Nat
      BY DEF SynapsesAssumption
    <3> QED
      BY <3>1, <3>2 DEF Rested
  <2>8. \A j \in res.fired : nodes[j].since >= RestTicks
    BY <2>4, <2>7, <2>f
  <2> QED
    BY <2>5, <2>6, <2>8 DEF res, i
<1>6. N = Nat
  <2> HIDE DEF N
  <2>1. N \in SUBSET Nat
    BY DEF N
  <2> QED
    BY <1>4, <1>5, <2>1, Climbing
<1>7. Fair(n)
  <2>1. n \in N
    BY <1>2, <1>6
  <2> HIDE DEF Fair
  <2> QED
    BY <1>2, <2>1
<1>8. g[n] \in Carried(n)
  BY <1>2
<1> QED
  BY <1>1, <1>7, <1>8 DEF Carried, n

\* The nodes and the links have their types and every node counts its rest.
NetInv ==
    /\ nodes \in Seq(NodeType) /\ links \in Seq(LinkType)
    /\ \A j \in 1 .. Len(nodes) : Rested(nodes[j])

\* A tick: the two passes of the ninth layer.
LEMMA TickNet ==
    ASSUME SynapsesAssumption, NetInv, Tick
    PROVE  /\ NetInv'
           /\ \A k \in fired' : nodes[k].since >= RestTicks
           /\ Excitation(nodes', links') <= ScaleAbove
           /\ \A k \in 1 .. Len(links') : links'[k].weight \in -(WeightTop + 1) .. WeightTop
<1> DEFINE p == Propagated
           n == Len(nodes)
<1>1. /\ p.nodes \in Row(n) /\ \A j \in 1 .. n : Rested(p.nodes[j])
      /\ \A j \in p.fired : nodes[j].since >= RestTicks
  BY PropagationRests DEF NetInv
<1>2. nodes' = p.nodes /\ fired' = p.fired /\ links' = Rewired(p.nodes, p.fired)
  BY DEF Tick
<1>3. n \in Nat
  BY DEF NetInv
<1>4. /\ Rewired(p.nodes, p.fired) \in Seq(LinkType)
      /\ Excitation(p.nodes, Rewired(p.nodes, p.fired)) <= ScaleAbove
  BY RewiredCalm DEF NetInv
<1> HIDE DEF p, n
<1>5. links' \in Seq(LinkType) /\ Excitation(nodes', links') <= ScaleAbove
  BY <1>2, <1>4
<1>6. nodes' \in Seq(NodeType) /\ Len(nodes') = n
  BY <1>1, <1>2, <1>3, Sequenced DEF Row
<1>7. \A k \in 1 .. Len(links') : links'[k].weight \in -(WeightTop + 1) .. WeightTop
  <2> SUFFICES ASSUME NEW k \in 1 .. Len(links')
               PROVE  links'[k].weight \in -(WeightTop + 1) .. WeightTop
    OBVIOUS
  <2>1. links'[k] \in LinkType
    BY <1>5
  <2>2. \A l \in LinkType : l.weight \in -(WeightTop + 1) .. WeightTop
    BY DEF LinkType, LinkRange
  <2> QED
    BY <2>1, <2>2
<1>8. \A j \in 1 .. n : Rested(nodes'[j])
  BY <1>1, <1>2
<1>9. NetInv'
  BY <1>5, <1>6, <1>8 DEF NetInv, Rested
<1> QED
  BY <1>1, <1>2, <1>5, <1>7, <1>9

\* The network starts empty.
LEMMA NetStarts == ASSUME SynapsesAssumption, SynapsesInit PROVE NetInv
BY DEF SynapsesInit, NetInv

\* Every operation keeps the invariant.
LEMMA NetSteps == ASSUME SynapsesAssumption, NetInv, [SynapsesNext]_synapsesVars PROVE NetInv'
<1>0. /\ nodes \in Seq(NodeType) /\ links \in Seq(LinkType) /\ Len(nodes) \in Nat
      /\ \A j \in 1 .. Len(nodes) : Rested(nodes[j]) /\ nodes[j] \in NodeType
  BY DEF NetInv
<1>f. \A id \in Ids, th \in Int :
        Fresh(id, th) \in NodeType /\ Rested(Fresh(id, th))
  BY DEF Fresh, NodeType, Rested, SynapsesAssumption
<1>1. ASSUME NEW id \in Ids, NEW th \in Thresholds, AddNode(id, th) PROVE NetInv'
  <2> DEFINE e == Fresh(id, th)
  <2>1. e \in NodeType /\ Rested(e)
    BY <1>f DEF SynapsesAssumption
  <2> HIDE DEF e
  <2>2. nodes' = Append(nodes, e) /\ links' = links
    BY <1>1 DEF AddNode, e
  <2>3. /\ nodes' \in Seq(NodeType) /\ Len(nodes') = Len(nodes) + 1
        /\ \A j \in 1 .. Len(nodes') : nodes'[j] = IF j <= Len(nodes) THEN nodes[j] ELSE e
    BY <1>0, <2>1, <2>2
  <2>4. ASSUME NEW j \in 1 .. Len(nodes') PROVE Rested(nodes'[j])
    <3>1. CASE j <= Len(nodes)
      <4>1. j \in 1 .. Len(nodes) /\ nodes'[j] = nodes[j]
        BY <1>0, <2>3, <3>1
      <4> QED
        BY <1>0, <4>1
    <3>2. CASE ~(j <= Len(nodes))
      BY <2>1, <2>3, <3>2
    <3> QED
      BY <3>1, <3>2
  <2> QED
    BY <1>0, <2>2, <2>3, <2>4 DEF NetInv, Rested
<1>2. ASSUME NEW from \in Ids, NEW to \in Ids, NEW w \in Weights, NEW pl \in Plasticities,
             Connect(from, to, w, pl)
      PROVE  NetInv'
  <2> DEFINE l == [from |-> from, to |-> to, weight |-> w, plasticity |-> pl]
  <2>1. l \in LinkType
    BY DEF LinkType, LinkRange, SynapsesAssumption
  <2> HIDE DEF l
  <2>2. links' = Append(links, l) /\ nodes' = nodes
    BY <1>2 DEF Connect, l
  <2>3. links' \in Seq(LinkType)
    BY <1>0, <2>1, <2>2
  <2> QED
    BY <1>0, <2>2, <2>3 DEF NetInv, Rested
<1>3. ASSUME NEW id \in Ids, NEW sig \in Signals, Stimulate(id, sig) PROVE NetInv'
  <2>1. nodes \in Row(Len(nodes)) /\ sig \in Int
    BY <1>0 DEF Row, SynapsesAssumption
  <2>2. nodes' = Stimulated(nodes, id, sig) /\ links' = links
    BY <1>3 DEF Stimulate
  <2>3. /\ nodes' \in Row(Len(nodes))
        /\ \A j \in 1 .. Len(nodes) : Alike(nodes'[j], nodes[j])
    BY <1>0, <2>1, <2>2, StimulatedKin
  <2>4. nodes' \in Seq(NodeType) /\ Len(nodes') = Len(nodes)
    BY <1>0, <2>3, Sequenced DEF Row
  <2> QED
    BY <1>0, <2>2, <2>3, <2>4 DEF NetInv, Rested, Alike
<1>4. CASE Tick
  BY <1>4, TickNet
<1>5. ASSUME NEW room \in LinkRooms, Restore(room) PROVE NetInv'
  <2> DEFINE ns == [k \in 1 .. Len(nodes) |-> Fresh(nodes[k].id, nodes[k].threshold)]
             top == IF Len(links) > room THEN room ELSE Len(links)
  <2>1. \A k \in 1 .. Len(nodes) : nodes[k].id \in Ids /\ nodes[k].threshold \in Int
    BY <1>0 DEF NodeType
  <2>2. ns \in Row(Len(nodes)) /\ \A k \in 1 .. Len(nodes) : Rested(ns[k])
    BY <1>f, <2>1 DEF Row
  <2>3. nodes' = ns /\ links' = SubSeq(links, 1, top)
    BY <1>5 DEF Restore, Exported
  <2>4. top \in 0 .. Len(links)
    <3>1. room \in Nat
      BY DEF SynapsesAssumption
    <3>2. Len(links) \in Nat
      BY <1>0
    <3> QED
      BY <3>1, <3>2
  <2> HIDE DEF ns, top
  <2>5. links' \in Seq(LinkType)
    BY <1>0, <2>3, <2>4
  <2>6. nodes' \in Seq(NodeType) /\ Len(nodes') = Len(nodes)
    BY <1>0, <2>2, <2>3, Sequenced DEF Row
  <2>7. \A k \in 1 .. Len(nodes) : Rested(nodes'[k])
    BY <2>2, <2>3
  <2> QED
    BY <2>5, <2>6, <2>7 DEF NetInv, Rested
<1>6. CASE UNCHANGED synapsesVars
  BY <1>6 DEF synapsesVars, NetInv, Rested
<1> QED
  BY <1>1, <1>2, <1>3, <1>4, <1>5, <1>6 DEF SynapsesNext

\* For every network, every schedule of stimulations and every length of the rest: a node
\* that fired is not among those that fire in the next RestTicks ticks.
THEOREM FiringRests == SynapsesSpec => RestsAfterFiring
<1>1. NetInv /\ [SynapsesNext]_synapsesVars
        => [Tick => \A k \in fired' : nodes[k].since >= RestTicks]_synapsesVars
  BY TickNet, SynapsesAssumption
<1>2. SynapsesInit => NetInv
  BY NetStarts, SynapsesAssumption
<1>3. NetInv /\ [SynapsesNext]_synapsesVars => NetInv'
  BY NetSteps, SynapsesAssumption
<1> QED
  BY <1>1, <1>2, <1>3, PTL DEF SynapsesSpec, RestsAfterFiring

\* For every network and all limits: after a tick the attached links are no stronger
\* together than the threshold of the scaling, and no weight has left its range.
THEOREM ExcitationBound == SynapsesSpec => NeverOverexcited
<1>1. NetInv /\ [SynapsesNext]_synapsesVars
        => [Tick => /\ Excitation(nodes', links') <= ScaleAbove
                    /\ \A k \in 1 .. Len(links') :
                         links'[k].weight \in -(WeightTop + 1) .. WeightTop]_synapsesVars
  BY TickNet, SynapsesAssumption
<1>2. SynapsesInit => NetInv
  BY NetStarts, SynapsesAssumption
<1>3. NetInv /\ [SynapsesNext]_synapsesVars => NetInv'
  BY NetSteps, SynapsesAssumption
<1> QED
  BY <1>1, <1>2, <1>3, PTL DEF SynapsesSpec, NeverOverexcited

----------------------------------------------------------------------------
(* The epigenetic memory *)

\* What is needed of the operator ^: it yields a number.
XorCounts == \A a, b \in Nat : BitXor(a, b) \in Nat

SoundMemories == {m \in Memories : Tempered(m)}

EpiInv == memory \in SoundMemories

\* The checksum is a number.
LEMMA SumType == ASSUME XorCounts, NEW m \in Memories PROVE Checksum(m) \in Nat
<1>1. Salt \in Nat /\ \A a, b \in Nat : BitXor(a, b) \in Nat
  BY EpigenomeAssumption DEF XorCounts
<1>2. /\ m.trauma \in Nat /\ m.success \in Nat /\ m.total \in Nat /\ m.bias \in Nat
      /\ m.resilience \in Nat /\ m.generation \in Nat
  BY DEF Memories
<1> QED
  BY <1>1, <1>2 DEF Checksum

\* Sealing a memory gives it its checksum, which is not computed from the old one.
LEMMA SealFits ==
    ASSUME XorCounts, NEW m \in Memories
    PROVE  /\ Sealed(m) \in Memories /\ Sealed(m).sum = Checksum(Sealed(m))
           /\ Sealed(m) = [m EXCEPT !.sum = Checksum(m)]
<1>1. Checksum(m) \in Nat
  BY SumType
<1>2. Sealed(m) = [m EXCEPT !.sum = Checksum(m)]
  BY DEF Sealed
<1> DEFINE k == [m EXCEPT !.sum = Checksum(m)]
<1>3. /\ k.trauma = m.trauma /\ k.success = m.success /\ k.total = m.total
      /\ k.bias = m.bias /\ k.resilience = m.resilience /\ k.generation = m.generation
      /\ k.sum = Checksum(m)
  BY DEF Memories
<1>4. k \in Memories
  BY <1>1 DEF Memories
<1> HIDE DEF k
<1>5. Checksum(k) = Checksum(m)
  BY <1>3 DEF Checksum
<1> QED
  BY <1>2, <1>3, <1>4, <1>5 DEF k

\* Sound, but for the checksum.
Even(m) ==
    /\ m.bias \in 1 .. 252
    /\ m.resilience = IF m.trauma < 200 THEN 50 + m.trauma ELSE 250
    /\ m.trauma + m.success <= m.total
    /\ m.head = m.total % MaxEvents

\* Sealing such a memory makes it sound.
LEMMA SealedSound ==
    ASSUME XorCounts, NEW m \in Memories, Even(m)
    PROVE  Sealed(m) \in SoundMemories
<1> DEFINE k == Sealed(m)
<1>1. k \in Memories /\ k.sum = Checksum(k) /\ k = [m EXCEPT !.sum = Checksum(m)]
  BY SealFits
<1> HIDE DEF k
<1>2. /\ k.trauma = m.trauma /\ k.success = m.success /\ k.total = m.total
      /\ k.bias = m.bias /\ k.resilience = m.resilience /\ k.head = m.head
  BY <1>1 DEF Memories
<1>3. Tempered(k)
  BY <1>1, <1>2 DEF Tempered, Even
<1> QED
  BY <1>1, <1>3 DEF SoundMemories, k

\* A virgin memory is sound.
LEMMA VirginSound == ASSUME XorCounts PROVE Virgin \in SoundMemories
<1> DEFINE m == [trauma |-> 0, success |-> 0, total |-> 0, bias |-> 128, resilience |-> 50,
                 generation |-> 1, head |-> 0, sum |-> 0]
<1>1. m \in Memories
  BY DEF Memories
<1>2. 0 % MaxEvents = 0
  BY EpigenomeAssumption
<1>3. Even(m)
  BY <1>2 DEF Even
<1>4. Virgin = Sealed(m)
  BY DEF Virgin
<1> HIDE DEF m
<1> QED
  BY <1>1, <1>3, <1>4, SealedSound

\* A number is given by its quotient and remainder in one way.
LEMMA DivisionUnique ==
    ASSUME NEW n \in Nat \ {0}, NEW p \in Int, NEW q \in Int,
           NEW r \in 0..(n - 1), NEW s \in 0..(n - 1), n * p + r = n * q + s
    PROVE  r = s
<1>1. ASSUME NEW x \in Int, NEW y \in Int, x < y PROVE n * y >= n * x + n
  <2>1. y >= x + 1
    BY <1>1
  <2>2. \E d \in Nat : y = x + 1 + d
    <3>1. y - (x + 1) \in Nat /\ y = x + 1 + (y - (x + 1))
      BY <2>1
    <3> QED
      BY <3>1
  <2>3. PICK d \in Nat : y = x + 1 + d
    BY <2>2
  <2>4. n * (x + 1 + d) = n * x + n + n * d
    OBVIOUS
  <2>5. n * d >= 0
    OBVIOUS
  <2>6. n * x \in Int /\ n * d \in Int
    OBVIOUS
  <2> QED
    BY <2>3, <2>4, <2>5, <2>6
<1>2. n * p \in Int /\ n * q \in Int
  OBVIOUS
<1>3. ~(p < q)
  BY <1>1, <1>2
<1>4. ~(q < p)
  BY <1>1, <1>2
<1>5. p = q
  BY <1>3, <1>4
<1> QED
  BY <1>2, <1>5

\* Counting on a clock face.
LEMMA NextOnFace ==
    ASSUME NEW n \in Nat \ {0}, NEW t \in Nat
    PROVE  ((t % n) + 1) % n = (t + 1) % n
<1> DEFINE q == t \div n
           r == t % n
           p == (t + 1) \div n
           u == (t + 1) % n
           d == (r + 1) \div n
           e == (r + 1) % n
<1>1. q \in Int /\ r \in 0 .. n - 1 /\ t = n * q + r
  OBVIOUS
<1>2. p \in Int /\ u \in 0 .. n - 1 /\ t + 1 = n * p + u
  OBVIOUS
<1>3. d \in Int /\ e \in 0 .. n - 1 /\ r + 1 = n * d + e
  BY <1>1
<1> HIDE DEF q, r, p, u, d, e
<1>4. e = u
  <2>1. n * (q + d) = n * q + n * d /\ n * q \in Int /\ n * d \in Int /\ q + d \in Int
    BY <1>1, <1>3
  <2>2. n * p + u = n * (q + d) + e
    BY <1>1, <1>2, <1>3, <2>1
  <2> QED
    BY <1>2, <1>3, <2>1, <2>2, DivisionUnique
<1> QED
  BY <1>4 DEF e, u, r

\* One experience keeps a memory sound, whatever its sign.
LEMMA MarkedSound ==
    ASSUME XorCounts, NEW m \in SoundMemories, NEW impact \in Int
    PROVE  Marked(m, impact) \in SoundMemories
<1> DEFINE noted == [m EXCEPT !.head = (@ + 1) % MaxEvents, !.total = @ + 1]
           c == noted.resilience \div 25
           effective == IF 5 > c THEN 5 - c ELSE 1
<1>1. m \in Memories /\ Tempered(m)
  BY DEF SoundMemories
<1>2. MaxEvents \in Nat \ {0}
  BY EpigenomeAssumption
<1>3. /\ m.trauma \in Nat /\ m.success \in Nat /\ m.total \in Nat /\ m.resilience \in Nat
      /\ m.bias \in 1 .. 252 /\ m.head \in Nat /\ m.head = m.total % MaxEvents
  BY <1>1 DEF Memories, Tempered
<1>4. (m.head + 1) % MaxEvents = (m.total + 1) % MaxEvents /\ (m.head + 1) % MaxEvents \in Nat
  <2>1. (m.head + 1) % MaxEvents = (m.total + 1) % MaxEvents
    BY <1>2, <1>3, NextOnFace
  <2>2. (m.head + 1) % MaxEvents \in 0 .. MaxEvents - 1
    BY <1>2, <1>3
  <2> QED
    BY <1>2, <2>1, <2>2
<1>5. /\ noted \in Memories /\ noted.trauma = m.trauma /\ noted.success = m.success
      /\ noted.total = m.total + 1 /\ noted.bias = m.bias /\ noted.resilience = m.resilience
      /\ noted.head = (m.total + 1) % MaxEvents
  <2>1. m.total + 1 \in Nat
    BY <1>3
  <2> QED
    BY <1>1, <1>4, <2>1 DEF Memories
<1> HIDE DEF noted
<1>6. /\ noted.bias \in 1 .. 252 /\ noted.trauma + noted.success + 1 <= noted.total
      /\ noted.resilience = (IF noted.trauma < 200 THEN 50 + noted.trauma ELSE 250)
      /\ noted.head = noted.total % MaxEvents
      /\ noted.trauma \in Nat /\ noted.success \in Nat /\ noted.total \in Nat
      /\ noted.resilience \in Nat
  BY <1>1, <1>3, <1>5 DEF Tempered
<1>7. effective \in 1 .. 5
  <2>1. c \in Nat
    BY <1>6
  <2> HIDE DEF c
  <2> QED
    BY <2>1
<1> HIDE DEF c
<1>8. Scarred(noted) \in Memories /\ Even(Scarred(noted))
  <2> DEFINE b == IF noted.bias > effective THEN noted.bias - effective ELSE noted.bias
             r == IF noted.resilience < 250 THEN noted.resilience + 1 ELSE noted.resilience
             k == [noted EXCEPT !.trauma = noted.trauma + 1, !.bias = b, !.resilience = r]
  <2>1. Scarred(noted) = k
    BY DEF Scarred, c
  <2> HIDE DEF effective
  <2>2. /\ b \in 1 .. 252 /\ r \in Nat /\ noted.trauma + 1 \in Nat
        /\ r = IF noted.trauma + 1 < 200 THEN 50 + (noted.trauma + 1) ELSE 250
    BY <1>6, <1>7
  <2> HIDE DEF b, r
  <2>3. /\ k \in Memories /\ k.trauma = noted.trauma + 1 /\ k.bias = b /\ k.resilience = r
        /\ k.success = noted.success /\ k.total = noted.total /\ k.head = noted.head
    <3>1. noted \in Memories
      BY <1>5
    <3>2. b \in Nat /\ r \in Nat /\ noted.trauma + 1 \in Nat
      BY <2>2
    <3> DEFINE t == noted.trauma + 1
    <3> HIDE DEF t
    <3>3. k = [noted EXCEPT !.trauma = t, !.bias = b, !.resilience = r] /\ t \in Nat
      BY <3>2 DEF t
    <3>4. /\ k \in Memories /\ k.trauma = t /\ k.bias = b /\ k.resilience = r
          /\ k.success = noted.success /\ k.total = noted.total /\ k.head = noted.head
      <4> HIDE DEF k
      <4> QED
        BY <3>1, <3>2, <3>3 DEF Memories
    <3> QED
      BY <3>4 DEF t
  <2> HIDE DEF k
  <2>4. k.bias \in 1 .. 252 /\ k.head = k.total % MaxEvents
    BY <1>6, <2>2, <2>3, Zenon
  <2>5. k.trauma + k.success <= k.total
    BY <1>6, <2>3
  <2>6. k.resilience = IF k.trauma < 200 THEN 50 + k.trauma ELSE 250
    BY <1>6, <2>2, <2>3
  <2> QED
    BY <2>1, <2>3, <2>4, <2>5, <2>6 DEF Even
<1>9. Elated(noted) \in Memories /\ Even(Elated(noted))
  <2> DEFINE b == IF noted.bias < 250 THEN noted.bias + 3 ELSE noted.bias
             k == [noted EXCEPT !.success = noted.success + 1, !.bias = b]
  <2>1. Elated(noted) = k
    BY DEF Elated
  <2>2. b \in 1 .. 252 /\ noted.success + 1 \in Nat
    BY <1>6
  <2> HIDE DEF b
  <2>3. /\ k \in Memories /\ k.trauma = noted.trauma /\ k.bias = b
        /\ k.resilience = noted.resilience
        /\ k.success = noted.success + 1 /\ k.total = noted.total /\ k.head = noted.head
    <3>1. noted \in Memories
      BY <1>5
    <3>2. b \in Nat
      BY <2>2
    <3> QED
      BY <2>2, <3>1, <3>2 DEF Memories
  <2> HIDE DEF k
  <2>4. k.bias \in 1 .. 252 /\ k.head = k.total % MaxEvents
    BY <1>6, <2>2, <2>3, Zenon
  <2>5. k.trauma + k.success <= k.total
    BY <1>6, <2>3
  <2>6. k.resilience = IF k.trauma < 200 THEN 50 + k.trauma ELSE 250
    BY <1>6, <2>2, <2>3
  <2> QED
    BY <2>1, <2>3, <2>4, <2>5, <2>6 DEF Even
<1>10. Even(noted)
  BY <1>6 DEF Even
<1>11. Marked(m, impact) = Sealed(IF impact < 0 THEN Scarred(noted)
                                  ELSE IF impact > 0 THEN Elated(noted) ELSE noted)
  BY DEF Marked, noted
<1> DEFINE felt == IF impact < 0 THEN Scarred(noted)
                   ELSE IF impact > 0 THEN Elated(noted) ELSE noted
<1>12. felt \in Memories /\ Even(felt)
  BY <1>5, <1>8, <1>9, <1>10
<1> HIDE DEF felt
<1>13. Sealed(felt) \in SoundMemories
  BY <1>12, SealedSound
<1> QED
  BY <1>11, <1>13 DEF felt

\* So do the lessons of a dream, one after the other.
LEMMA LessonsSound ==
    ASSUME XorCounts, NEW m \in SoundMemories, NEW n \in Nat, NEW impact \in Int
    PROVE  Lessons(m, n, impact) \in SoundMemories
<1> DEFINE F(f) == [k \in 0 .. n |-> IF k = 0 THEN m ELSE Marked(f[k - 1], impact)]
           after == CHOOSE f : f = F(f)
           Upto(f, j) == /\ f[0] = m
                         /\ \A k \in 1 .. j : f[k] = Marked(f[k - 1], impact)
           N == {j \in Nat : \E f \in [0 .. j -> SoundMemories] : Upto(f, j)}
<1>1. Lessons(m, n, impact) = after[n]
  BY DEF Lessons
<1>2. 0 \in N
  <2>1. [k \in 0 .. 0 |-> m] \in [0 .. 0 -> SoundMemories] /\ Upto([k \in 0 .. 0 |-> m], 0)
    OBVIOUS
  <2> HIDE DEF Upto
  <2> QED
    BY <2>1
<1>3. ASSUME NEW j \in N PROVE j + 1 \in N
  <2>1. j \in Nat /\ j + 1 \in Nat /\ (j + 1) - 1 = j
    OBVIOUS
  <2>2. PICK f \in [0 .. j -> SoundMemories] : Upto(f, j)
    OBVIOUS
  <2>3. f[j] \in SoundMemories
    BY <2>1
  <2> DEFINE x == Marked(f[j], impact)
             g == [k \in 0 .. (j + 1) |-> IF k = j + 1 THEN x ELSE f[k]]
  <2>4. x \in SoundMemories
    BY <2>3, MarkedSound
  <2>5. g \in [0 .. (j + 1) -> SoundMemories]
    <3> HIDE DEF x
    <3> QED
      BY <2>1, <2>4
  <2>6. g[0] = m
    BY <2>1, <2>2
  <2>7. ASSUME NEW k \in 1 .. (j + 1) PROVE g[k] = Marked(g[k - 1], impact)
    <3>1. k - 1 \in 0 .. j /\ g[k - 1] = f[k - 1]
      BY <2>1
    <3>2. CASE k = j + 1
      BY <2>1, <3>1, <3>2
    <3>3. CASE k # j + 1
      <4>1. k \in 1 .. j /\ g[k] = f[k]
        BY <2>1, <3>3
      <4> QED
        BY <2>2, <3>1, <4>1
    <3> QED
      BY <3>2, <3>3
  <2>8. Upto(g, j + 1)
    BY <2>6, <2>7
  <2> HIDE DEF Upto, g
  <2> QED
    BY <2>1, <2>5, <2>8
<1>4. N = Nat
  <2> HIDE DEF N
  <2>1. N \in SUBSET Nat
    BY DEF N
  <2> QED
    BY <1>2, <1>3, <2>1, Climbing
<1>5. PICK f \in [0 .. n -> SoundMemories] : Upto(f, n)
  <2>1. n \in N
    BY <1>4
  <2> HIDE DEF Upto
  <2> QED
    BY <2>1
<1>6. f = F(f)
  <2>1. \A k \in 0 .. n : f[k] = IF k = 0 THEN m ELSE Marked(f[k - 1], impact)
    BY <1>5
  <2> QED
    BY <2>1
<1>7. after = F(after)
  <2> HIDE DEF F
  <2> QED
    BY <1>6
<1> HIDE DEF after
<1>8. \A k \in 0 .. n : after[k] = IF k = 0 THEN m ELSE Marked(after[k - 1], impact)
  BY <1>7
<1> DEFINE M == {k \in Nat : k <= n => after[k] \in SoundMemories}
<1> HIDE DEF F, N, Upto
<1>9. 0 \in M
  BY <1>8
<1>10. ASSUME NEW k \in M PROVE k + 1 \in M
  <2>1. k \in Nat /\ k + 1 \in Nat /\ (k + 1) - 1 = k /\ k + 1 # 0
    OBVIOUS
  <2> SUFFICES ASSUME k + 1 <= n PROVE after[k + 1] \in SoundMemories
    BY <2>1
  <2>2. after[k] \in SoundMemories /\ k + 1 \in 0 .. n
    BY <2>1
  <2>3. after[k + 1] = Marked(after[k], impact)
    BY <1>8, <2>1, <2>2
  <2> QED
    BY <2>2, <2>3, MarkedSound
<1>11. M = Nat
  <2> HIDE DEF M
  <2>1. M \in SUBSET Nat
    BY DEF M
  <2> QED
    BY <1>9, <1>10, <2>1, Climbing
<1>12. n \in M
  BY <1>11
<1> QED
  BY <1>1, <1>12

\* A dream ends with a number of lessons.
LEMMA DreamRate ==
    ASSUME NEW bias \in Nat, NEW t \in Int, NEW e \in Nat
    PROVE  SurvivalRate(Severity(t), bias, e) \div 25 \in Nat
<1> DEFINE s == Severity(t)
<1>1. s \in {100, 95, 85, 70, 60, 50}
  <2>1. CASE t > 20
    BY <2>1, Zenon DEF Severity
  <2>2. CASE ~(t > 20)
    <3>1. ~(t > 200) /\ ~(t > 150) /\ ~(t > 100) /\ ~(t > 50)
      BY <2>2
    <3> QED
      BY <2>2, <3>1, Zenon DEF Severity
  <2> QED
    BY <2>1, <2>2
<1> HIDE DEF s
<1> DEFINE a == s \div (IF bias > 128 THEN 2 ELSE 3)
           b == (e % 20)
           rate == (100 - a + b - 10) % 256
<1>2. a \in Int /\ b \in Int
  BY <1>1
<1> HIDE DEF a, b
<1>3. rate \in 0 .. 255
  BY <1>2
<1> HIDE DEF rate
<1>4. SurvivalRate(s, bias, e) = IF rate > 100 THEN 100 ELSE rate
  BY DEF SurvivalRate, rate, a, b
<1>5. SurvivalRate(s, bias, e) \in Nat
  BY <1>3, <1>4
<1> QED
  BY <1>5 DEF s

\* A life starts with a virgin memory.
LEMMA BlankIsWiped == Reborn(Blank) = Virgin
<1>1. ~(Blank.total > 0)
  BY DEF Blank
<1> QED
  BY <1>1 DEF Reborn

LEMMA EpiStarts == ASSUME XorCounts, EpigenomeInit PROVE EpiInv
  BY BlankIsWiped, VirginSound DEF EpigenomeInit, EpiInv

\* Every operation keeps the invariant.
LEMMA EpiSteps == ASSUME XorCounts, EpiInv, [EpigenomeNext]_epigenomeVars PROVE EpiInv'
<1>0. memory \in SoundMemories
  BY DEF EpiInv
<1>1. ASSUME NEW impact \in {-1, 0, 1}, MarkExperience(impact) PROVE EpiInv'
  <2>1. impact \in Int
    OBVIOUS
  <2>2. memory' = Marked(memory, impact)
    BY <1>1 DEF MarkExperience
  <2> QED
    BY <1>0, <2>1, <2>2, MarkedSound DEF EpiInv
<1>2. ASSUME NEW e \in Entropies, Dream(e) PROVE EpiInv'
  <2> DEFINE rate == SurvivalRate(Severity(255 - memory.bias), memory.bias, e)
             impact == IF rate > 70 THEN 1 ELSE -1
  <2>1. memory.bias \in Nat /\ 255 - memory.bias \in Int /\ e \in Nat
    <3>1. memory.bias \in Nat
      BY <1>0 DEF SoundMemories, Memories
    <3> QED
      BY <3>1, EpigenomeAssumption
  <2>2. rate \div 25 \in Nat
    BY <2>1, DreamRate
  <2>3. memory' = Lessons(memory, rate \div 25, impact)
    BY <1>2 DEF Dream
  <2>4. impact \in Int
    OBVIOUS
  <2> HIDE DEF rate, impact
  <2> QED
    BY <1>0, <2>2, <2>3, <2>4, LessonsSound DEF EpiInv
<1>3. CASE Restart
  BY <1>3, BlankIsWiped, VirginSound DEF Restart, EpiInv
<1>4. CASE UNCHANGED epigenomeVars
  BY <1>0, <1>4 DEF epigenomeVars, EpiInv
<1> QED
  BY <1>1, <1>2, <1>3, <1>4 DEF EpigenomeNext

\* For every life and every number of experiences: the personality stays in its byte, the
\* resilience counts the traumas and the checksum is right.
THEOREM TemperamentKept == ASSUME XorCounts PROVE EpigenomeSpec => []TemperamentSound
<1>1. EpigenomeInit => EpiInv
  BY EpiStarts
<1>2. EpiInv /\ [EpigenomeNext]_epigenomeVars => EpiInv'
  BY EpiSteps
<1>3. EpiInv => TemperamentSound
  BY DEF EpiInv, SoundMemories, TemperamentSound
<1> QED
  BY <1>1, <1>2, <1>3, PTL DEF EpigenomeSpec
=============================================================================
