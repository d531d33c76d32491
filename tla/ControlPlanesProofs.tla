------------------------ MODULE ControlPlanesProofs ------------------------
(***************************************************************************)
(* Proofs about the control planes for every set of organs and every       *)
(* sequence of reports.  The first three theorems depend on how the mean   *)
(* health is used, not on what it is.  The last one needs to know what the *)
(* folds of the registry compute, and begins with induction over folds.    *)
(***************************************************************************)
EXTENDS ControlPlanes, FiniteSetTheorems, WellFoundedInduction, TLAPS

\* The modes that one evaluation can lead to, whatever the effective health.
LEMMA NextModeSteps ==
    ASSUME NEW h, mode \in Modes
    PROVE  /\ NextMode(h) \in Modes
           /\ ~VitalChainAlive => NextMode(h) = "SAFE"
           /\ mode = "SAFE" => NextMode(h) \in {"SAFE", "RECOVERY"}
           /\ mode \in {"NORMAL", "DEGRADED"} => NextMode(h) # "RECOVERY"
<1>1. CASE ~VitalChainAlive
  BY <1>1 DEF NextMode, Modes
<1>2. CASE VitalChainAlive
  BY <1>2 DEF NextMode, Modes
<1> QED
  BY <1>1, <1>2

\* The ranks order the decisions as the switch of decision_rank does.
LEMMA RankValues ==
    /\ Rank("THROTTLE") = 0 /\ Rank("ISOLATE") = 1 /\ Rank("RECOVER") = 2
    /\ Rank("HOLD") = 3 /\ Rank("OPTIMIZE") = 4 /\ Rank("NONE") = 5
BY DEF Rank

\* The decisions each plane can propose, whatever it is handed.
LEMMA PlaneDecisions ==
    ASSUME NEW x, NEW m
    PROVE  /\ ReflexStatus(x).decision \in {"THROTTLE", "ISOLATE", "HOLD"}
           /\ ~VitalChainAlive => ReflexStatus(x).decision = "THROTTLE"
           /\ StrategicStatus(m, x).decision \in {"OPTIMIZE", "HOLD", "RECOVER"}
           /\ LocalAction(x).decision \in {"RECOVER", "THROTTLE", "HOLD"}
<1>1. \A d, r : Status(d, r).decision = d
  BY DEF Status
<1>2. ReflexStatus(x).decision \in {"THROTTLE", "ISOLATE", "HOLD"}
  BY <1>1 DEF ReflexStatus
<1>3. ~VitalChainAlive => ReflexStatus(x).decision = "THROTTLE"
  BY <1>1 DEF ReflexStatus
<1>4. StrategicStatus(m, x).decision \in {"OPTIMIZE", "HOLD", "RECOVER"}
  BY <1>1 DEF StrategicStatus
<1>5. LocalAction(x).decision \in {"RECOVER", "THROTTLE", "HOLD"}
  BY <1>1 DEF LocalAction
<1> QED
  BY <1>2, <1>3, <1>4, <1>5

\* Resolution never weakens the reflex and never lets optimisation through.
LEMMA ResolveProtects ==
    ASSUME NEW r \in {"THROTTLE", "ISOLATE", "HOLD"},
           NEW a \in {"RECOVER", "THROTTLE", "HOLD"},
           NEW s \in {"OPTIMIZE", "HOLD", "RECOVER"}
    PROVE  /\ Resolve(r, a, s) \in Decisions
           /\ Rank(Resolve(r, a, s)) <= Rank(r)
           /\ Resolve(r, a, s) # "OPTIMIZE"
           /\ r = "THROTTLE" => Resolve(r, a, s) = "THROTTLE"
<1>1. Stronger(a, r) \in {"THROTTLE", "ISOLATE", "RECOVER", "HOLD"}
      /\ Rank(Stronger(a, r)) <= Rank(r)
      /\ (r = "THROTTLE" => Stronger(a, r) = "THROTTLE")
  BY RankValues DEF Stronger
<1> QED
  BY <1>1, RankValues DEF Resolve, Stronger, Decisions

PlanesInv == PlanesTypeOK /\ ModeAnnounced /\ ReflexPrevails

\* The static initial values satisfy the invariant.
LEMMA InitPlanesInv == PlanesInit => PlanesInv
<1> SUFFICES ASSUME PlanesInit PROVE PlanesInv
  OBVIOUS
<1>1. NotRun.decision = "NONE"
  BY DEF NotRun, Status
<1>2. PlanesTypeOK
  BY <1>1, PlanesAssumption DEF PlanesInit, PlanesTypeOK, Modes
<1> QED
  BY <1>1, <1>2, RankValues DEF PlanesInit, PlanesInv, ModeAnnounced, ReflexPrevails

\* What one tick does, in terms of the planes' decisions.
LEMMA TickEffect ==
    ASSUME PlanesTypeOK, Tick
    PROVE  /\ mode' \in Modes /\ health' = health
           /\ mode = "SAFE" => mode' \in {"SAFE", "RECOVERY"}
           /\ mode \in {"NORMAL", "DEGRADED"} => mode' # "RECOVERY"
           /\ modeSignal' = (IF mode' # mode THEN mode' ELSE modeSignal)
           /\ reflex'.decision \in {"THROTTLE", "ISOLATE", "HOLD"}
           /\ strategic'.decision \in {"OPTIMIZE", "HOLD", "RECOVER"}
           /\ autonomy'.decision \in {"RECOVER", "THROTTLE", "HOLD"}
           /\ resolved' = Resolve(reflex'.decision, autonomy'.decision, strategic'.decision)
           /\ ~VitalChainAlive => mode' = "SAFE" /\ reflex'.decision = "THROTTLE"
           /\ ticks' \in 0 .. TickWord - 1
<1>1. PICK agg, worst : /\ ticks' = (ticks + 1) % TickWord
                        /\ Evaluate(Least(agg, worst))
                        /\ reflex' = ReflexStatus(agg)
                        /\ strategic' = StrategicStatus(mode', agg)
                        /\ autonomy' = LocalAction(worst)
                        /\ resolved' = Resolve(reflex'.decision, autonomy'.decision, strategic'.decision)
                        /\ UNCHANGED health
  BY DEF Tick
<1>2. mode \in Modes /\ ticks \in Nat
  BY PlanesAssumption DEF PlanesTypeOK
<1>3. mode' = NextMode(Least(agg, worst)) /\ modeSignal' = (IF mode' # mode THEN mode' ELSE modeSignal)
  BY <1>1 DEF Evaluate
<1>4. ticks' \in 0 .. TickWord - 1
  BY <1>1, <1>2, PlanesAssumption
<1> QED
  BY <1>1, <1>2, <1>3, <1>4, NextModeSteps, PlaneDecisions

\* A report and a tick keep the invariant.
LEMMA NextPlanesInv == PlanesInv /\ [PlanesNext]_planeVars => PlanesInv'
<1> SUFFICES ASSUME PlanesInv, [PlanesNext]_planeVars PROVE PlanesInv'
  OBVIOUS
<1>0. PlanesTypeOK /\ ModeAnnounced /\ ReflexPrevails
  BY DEF PlanesInv
<1>1. ASSUME Tick PROVE PlanesInv'
  <2>1. Resolve(reflex'.decision, autonomy'.decision, strategic'.decision) \in Decisions
    BY <1>0, <1>1, TickEffect, ResolveProtects
  <2>2. PlanesTypeOK'
    BY <1>0, <1>1, <2>1, TickEffect DEF PlanesTypeOK, Decisions, ModeAnnounced
  <2>3. ModeAnnounced'
    BY <1>0, <1>1, TickEffect DEF ModeAnnounced
  <2>4. ReflexPrevails'
    BY <1>0, <1>1, TickEffect, ResolveProtects DEF ReflexPrevails
  <2> QED
    BY <2>2, <2>3, <2>4 DEF PlanesInv
<1>2. ASSUME NEW o \in Organs, NEW h \in Reports, Publish(o, h) PROVE PlanesInv'
  <2>1. Least(100, h) \in 0 .. 100
    BY PlanesAssumption DEF Least
  <2> QED
    BY <1>0, <1>2, <2>1 DEF Publish, PlanesInv, PlanesTypeOK, ModeAnnounced, ReflexPrevails
<1>3. CASE UNCHANGED planeVars
  BY <1>0, <1>3 DEF planeVars, PlanesInv, PlanesTypeOK, ModeAnnounced, ReflexPrevails
<1> QED
  BY <1>1, <1>2, <1>3 DEF PlanesNext

\* The mode broadcast is never out of date, and what control_tick returns is never
\* weaker than the reflex and never an optimisation.
THEOREM PlanesSafety == PlanesSpec => [](PlanesTypeOK /\ ModeAnnounced /\ ReflexPrevails)
BY InitPlanesInv, NextPlanesInv, PTL DEF PlanesSpec, PlanesInv

\* SAFE is left through RECOVERY only, and RECOVERY is reached from SAFE only.
THEOREM SafeExit == PlanesSpec => SafeLeftThroughRecovery
<1>1. PlanesTypeOK /\ [PlanesNext]_planeVars =>
        [/\ mode = "SAFE" => mode' \in {"SAFE", "RECOVERY"}
         /\ mode = "NORMAL" => mode' # "RECOVERY"
         /\ mode = "DEGRADED" => mode' # "RECOVERY"]_mode
  BY TickEffect DEF PlanesNext, Publish, planeVars
<1> QED
  BY <1>1, PlanesSafety, PTL DEF PlanesSpec, SafeLeftThroughRecovery

\* A tick on a broken vital chain ends in SAFE and throttles.
THEOREM BreachIsAnswered == PlanesSpec => BreachForcesSafe
<1>1. PlanesTypeOK /\ [PlanesNext]_planeVars =>
        [Tick /\ ~VitalChainAlive => mode' = "SAFE" /\ resolved' = "THROTTLE"]_planeVars
  <2> SUFFICES ASSUME PlanesTypeOK, Tick, ~VitalChainAlive
               PROVE  mode' = "SAFE" /\ resolved' = "THROTTLE"
    OBVIOUS
  <2> QED
    BY TickEffect, ResolveProtects
<1> QED
  BY <1>1, PlanesSafety, PTL DEF PlanesSpec, BreachForcesSafe

----------------------------------------------------------------------------
\* Folds.  A fold is a recursive function on the subsets of a finite set.  That there is
\* such a function, and what it computes, is found by induction over the subsets; the
\* inductions are about sets of numbers and of subsets, not about predicates.

\* A set of numbers that is not empty has a least one.
LEMMA LeastOf ==
    ASSUME NEW N \in SUBSET Nat, N # {}
    PROVE  \E x \in N : \A y \in N : x <= y
<1> DEFINE R == OpToRel(<, Nat)
<1>1. IsWellFoundedOn(R, Nat)
  BY NatLessThanWellFounded
<1>2. \A x, y \in Nat : <<x, y>> \in R <=> x < y
  BY DEF OpToRel
<1> HIDE DEF R
<1>3. PICK x \in N : \A y \in N : ~(<<y, x>> \in R)
  BY <1>1, WFMin
<1>4. \A y \in N : x \in Nat /\ y \in Nat /\ ~(y < x)
  BY <1>2, <1>3
<1>5. \A y \in N : x <= y
  BY <1>4
<1> QED
  BY <1>5

\* Induction over the natural numbers.
LEMMA Climbing ==
    ASSUME NEW N \in SUBSET Nat, 0 \in N, \A n \in N : n + 1 \in N
    PROVE  N = Nat
<1> SUFFICES ASSUME Nat \ N # {} PROVE FALSE
  OBVIOUS
<1>1. Nat \ N \in SUBSET Nat
  OBVIOUS
<1>2. PICK m \in Nat \ N : \A y \in Nat \ N : m <= y
  BY <1>1, LeastOf
<1>3. m # 0 /\ m \in Nat
  BY <1>2
<1>4. m - 1 \in Nat /\ ~(m <= m - 1) /\ (m - 1) + 1 = m
  BY <1>3
<1>5. m - 1 \in N
  BY <1>2, <1>4
<1> QED
  BY <1>2, <1>4, <1>5

\* An element of every subset that has one.
Picks(pick, S) == \A s \in SUBSET S : s # {} => pick[s] \in s

\* The value on a subset follows from the value without the element that is picked.
Follows(f, S, base, pick, step) ==
    \A s \in SUBSET S : f[s] = IF s = {} THEN base ELSE step[<<s, f[s \ {pick[s]}]>>]

\* A function on the subsets of a finite set may be defined from its value on the
\* subset without the element that is picked from it.
LEMMA SubsetRecursion ==
    ASSUME NEW S, IsFiniteSet(S), NEW V, NEW base \in V, NEW pick,
           Picks(pick, S), NEW step \in [(SUBSET S) \X V -> V]
    PROVE  \E f \in [SUBSET S -> V] : Follows(f, S, base, pick, step)
<1> DEFINE val(f, s) == IF s = {} THEN base ELSE step[<<s, f[s \ {pick[s]}]>>]
           Upto(f, n) == \A s \in SUBSET S : Cardinality(s) <= n => f[s] = val(f, s)
           N == {n \in Nat : \E f \in [SUBSET S -> V] : Upto(f, n)}
<1>1. ASSUME NEW f \in [SUBSET S -> V], NEW s \in SUBSET S PROVE val(f, s) \in V
  <2>1. s \ {pick[s]} \in SUBSET S
    OBVIOUS
  <2>2. f[s \ {pick[s]}] \in V
    BY <2>1
  <2>3. <<s, f[s \ {pick[s]}]>> \in (SUBSET S) \X V
    BY <2>2
  <2>4. step[<<s, f[s \ {pick[s]}]>>] \in V
    BY <2>3
  <2> QED
    BY <2>4
<1>2. \A s \in SUBSET S : IsFiniteSet(s) /\ Cardinality(s) \in Nat
  BY FS_Subset, FS_CardinalityType
<1>3. 0 \in N
  <2>1. [s \in SUBSET S |-> base] \in [SUBSET S -> V]
    OBVIOUS
  <2>2. \A s \in SUBSET S : Cardinality(s) <= 0 => s = {}
    BY <1>2, FS_EmptySet
  <2>3. Upto([s \in SUBSET S |-> base], 0)
    BY <2>2
  <2> QED
    BY <2>1, <2>3
<1>4. ASSUME NEW n \in N PROVE n + 1 \in N
  <2>1. n \in Nat
    OBVIOUS
  <2>2. PICK f \in [SUBSET S -> V] : Upto(f, n)
    OBVIOUS
  <2> DEFINE g == [s \in SUBSET S |-> val(f, s)]
  <2>3. g \in [SUBSET S -> V]
    <3> HIDE DEF val
    <3> QED
      BY <1>1
  <2>4. \A s \in SUBSET S : g[s] = val(f, s)
    OBVIOUS
  <2> HIDE DEF g
  <2>5. ASSUME NEW s \in SUBSET S, Cardinality(s) <= n + 1, s # {}
        PROVE  g[s] = val(g, s)
    <3> DEFINE t == s \ {pick[s]}
    <3>1. t \in SUBSET S /\ Cardinality(t) = Cardinality(s) - 1
      BY <1>2, <2>5, FS_RemoveElement DEF Picks
    <3>2. Cardinality(t) <= n
      BY <1>2, <2>1, <2>5, <3>1
    <3>3. f[t] = val(f, t) /\ g[t] = val(f, t)
      <4> HIDE DEF t, val
      <4> QED
        BY <2>2, <2>4, <3>1, <3>2
    <3>4. val(g, s) = step[<<s, g[t]>>] /\ val(f, s) = step[<<s, f[t]>>]
      BY <2>5
    <3> HIDE DEF val, t
    <3> QED
      BY <2>4, <3>3, <3>4
  <2>6. ASSUME NEW s \in SUBSET S, s = {} PROVE g[s] = val(g, s)
    BY <2>4, <2>6
  <2>7. Upto(g, n + 1)
    <3> HIDE DEF val
    <3> QED
      BY <2>5, <2>6
  <2> HIDE DEF Upto
  <2> QED
    BY <2>1, <2>3, <2>7
<1>5. N = Nat
  <2> HIDE DEF N
  <2>1. N \in SUBSET Nat
    BY DEF N
  <2> QED
    BY <1>3, <1>4, <2>1, Climbing
<1>6. Cardinality(S) \in Nat
  BY <1>2
<1>7. PICK f \in [SUBSET S -> V] : Upto(f, Cardinality(S))
  BY <1>5, <1>6
<1>8. \A s \in SUBSET S : Cardinality(s) <= Cardinality(S)
  BY FS_Subset
<1>9. \A s \in SUBSET S : f[s] = val(f, s)
  <2> HIDE DEF val
  <2> QED
    BY <1>7, <1>8
<1> QED
  BY <1>9 DEF Follows

\* Induction along such a recursion.
LEMMA SubsetInduction ==
    ASSUME NEW S, IsFiniteSet(S), NEW pick, Picks(pick, S), NEW G, {} \in G,
           \A s \in SUBSET S : s # {} /\ s \ {pick[s]} \in G => s \in G
    PROVE  S \in G
<1> DEFINE N == {n \in Nat : \A s \in SUBSET S : Cardinality(s) <= n => s \in G}
<1>1. \A s \in SUBSET S : IsFiniteSet(s) /\ Cardinality(s) \in Nat
  BY FS_Subset, FS_CardinalityType
<1>2. 0 \in N
  <2>1. \A s \in SUBSET S : Cardinality(s) <= 0 => s = {}
    BY <1>1, FS_EmptySet
  <2> QED
    BY <2>1
<1>3. ASSUME NEW n \in N PROVE n + 1 \in N
  <2>1. n \in Nat
    OBVIOUS
  <2>2. ASSUME NEW s \in SUBSET S, Cardinality(s) <= n + 1, s # {} PROVE s \in G
    <3>1. s \ {pick[s]} \in SUBSET S /\ Cardinality(s \ {pick[s]}) = Cardinality(s) - 1
      BY <1>1, <2>2, FS_RemoveElement DEF Picks
    <3>2. Cardinality(s \ {pick[s]}) <= n
      BY <1>1, <2>1, <2>2, <3>1
    <3>3. s \ {pick[s]} \in G
      BY <3>1, <3>2
    <3> QED
      BY <2>2, <3>3
  <2> QED
    BY <2>1, <2>2
<1>4. N = Nat
  <2> HIDE DEF N
  <2>1. N \in SUBSET Nat
    BY DEF N
  <2> QED
    BY <1>2, <1>3, <2>1, Climbing
<1>5. Cardinality(S) \in Nat /\ S \in SUBSET S
  BY <1>1
<1> QED
  BY <1>4, <1>5
\* The sum of a function over a set.
Total(h, S) == MapThenSumSet(LAMBDA o : h[o], S)

\* The sum of values between two bounds is between those bounds, once per element.
LEMMA SumBounds ==
    ASSUME NEW S, IsFiniteSet(S), NEW h, NEW lo \in Int, NEW hi \in Int,
           \A o \in S : h[o] \in lo .. hi
    PROVE  /\ Total(h, S) \in Int
           /\ Cardinality(S) * lo <= Total(h, S) /\ Total(h, S) <= Cardinality(S) * hi
<1> DEFINE c(s) == CHOOSE x \in s : TRUE
           F(f) == [s \in SUBSET S |-> IF s = {} THEN 0 ELSE h[c(s)] + f[s \ {c(s)}]]
           iter == CHOOSE f : f = F(f)
           pick == [s \in SUBSET S |-> c(s)]
<1>1. Total(h, S) = iter[S]
  BY DEF Total, MapThenSumSet, MapThenFoldSet
<1>2. \A s \in SUBSET S : s # {} => c(s) \in s
  OBVIOUS
<1>3. Picks(pick, S) /\ \A s \in SUBSET S : pick[s] = c(s)
  BY <1>2 DEF Picks
<1> HIDE DEF c, pick
<1>4. iter = F(iter)
  <2> DEFINE step == [p \in (SUBSET S) \X Int |->
                        IF p[1] = {} THEN 0 ELSE h[c(p[1])] + p[2]]
  <2>1. step \in [(SUBSET S) \X Int -> Int]
    <3> SUFFICES ASSUME NEW p \in (SUBSET S) \X Int, p[1] # {}
                 PROVE  h[c(p[1])] + p[2] \in Int
      OBVIOUS
    <3>1. p[1] \in SUBSET S /\ p[2] \in Int
      OBVIOUS
    <3>2. h[c(p[1])] \in Int
      BY <1>2, <3>1
    <3> QED
      BY <3>1, <3>2
  <2>2. \A s \in SUBSET S, v \in Int :
          s # {} => step[<<s, v>>] = h[c(s)] + v
    OBVIOUS
  <2> HIDE DEF step
  <2>3. PICK f \in [SUBSET S -> Int] : Follows(f, S, 0, pick, step)
    <3>1. 0 \in Int
      OBVIOUS
    <3> QED
      BY <1>3, <2>1, <3>1, SubsetRecursion, Zenon
  <2>4. \A s \in SUBSET S : f[s] = IF s = {} THEN 0 ELSE h[c(s)] + f[s \ {c(s)}]
    <3> SUFFICES ASSUME NEW s \in SUBSET S, s # {} PROVE f[s] = h[c(s)] + f[s \ {c(s)}]
      BY <2>3 DEF Follows
    <3>1. f[s \ {c(s)}] \in Int
      OBVIOUS
    <3> QED
      BY <1>3, <2>2, <2>3, <3>1 DEF Follows
  <2>5. f = F(f)
    BY <2>4
  <2> HIDE DEF F
  <2> QED
    BY <2>5
<1> HIDE DEF iter
<1>5. \A s \in SUBSET S : iter[s] = IF s = {} THEN 0 ELSE h[c(s)] + iter[s \ {c(s)}]
  BY <1>4
<1> HIDE DEF F
<1> DEFINE G == {s \in SUBSET S : /\ iter[s] \in Int
                                  /\ Cardinality(s) * lo <= iter[s]
                                  /\ iter[s] <= Cardinality(s) * hi}
<1>6. {} \in G
  <2>1. iter[{}] = 0 /\ Cardinality({}) = 0
    BY <1>5, FS_EmptySet
  <2>2. 0 * lo = 0 /\ 0 * hi = 0
    OBVIOUS
  <2> QED
    BY <2>1, <2>2
<1>7. ASSUME NEW s \in SUBSET S, s # {}, s \ {pick[s]} \in G PROVE s \in G
  <2> DEFINE t == s \ {c(s)}
             n == Cardinality(t)
  <2>1. t \in G /\ c(s) \in s
    BY <1>2, <1>3, <1>7
  <2>2. IsFiniteSet(s) /\ IsFiniteSet(t)
    BY FS_Subset
  <2>3. n \in Nat /\ Cardinality(s) \in Nat /\ n = Cardinality(s) - 1
    BY <2>1, <2>2, FS_CardinalityType, FS_RemoveElement
  <2>4. iter[s] = h[c(s)] + iter[t] /\ h[c(s)] \in lo .. hi
    BY <1>5, <1>7, <2>1
  <2>5. iter[t] \in Int /\ n * lo <= iter[t] /\ iter[t] <= n * hi
    BY <2>1
  <2>6. Cardinality(s) = n + 1
    BY <2>3
  <2> HIDE DEF t, n
  <2>7. (n + 1) * lo = n * lo + lo /\ (n + 1) * hi = n * hi + hi
        /\ n * lo \in Int /\ n * hi \in Int
    BY <2>3
  <2>8. iter[s] \in Int /\ (n + 1) * lo <= iter[s] /\ iter[s] <= (n + 1) * hi
    BY <2>4, <2>5, <2>7
  <2> QED
    BY <2>6, <2>8
<1>8. S \in G
  <2> HIDE DEF G
  <2> QED
    BY <1>3, <1>6, <1>7, SubsetInduction
<1> QED
  BY <1>1, <1>8

\* The mean is between the bounds too: the sum is not more than they allow.
LEMMA MeanBounds ==
    ASSUME NEW n \in Nat \ {0}, NEW sum \in Int, NEW lo \in Int, NEW hi \in Int,
           n * lo <= sum, sum <= n * hi
    PROVE  sum \div n \in lo .. hi
<1> DEFINE q == sum \div n
           r == sum % n
<1>1. q \in Int /\ r \in 0 .. n - 1 /\ sum = n * q + r
  OBVIOUS
<1> HIDE DEF q, r
<1>2. lo <= q
  <2> SUFFICES ASSUME lo >= q + 1 PROVE FALSE
    BY <1>1
  <2>1. PICK d \in Nat : lo = q + 1 + d
    <3>1. lo - (q + 1) \in Nat /\ lo = q + 1 + (lo - (q + 1))
      BY <1>1
    <3> QED
      BY <3>1
  <2>2. n * (q + 1 + d) = n * q + n + n * d /\ n * d \in Nat /\ n * q \in Int
    BY <1>1
  <2> QED
    BY <1>1, <2>1, <2>2
<1>3. q <= hi
  <2> SUFFICES ASSUME q >= hi + 1 PROVE FALSE
    BY <1>1
  <2>1. PICK d \in Nat : q = hi + 1 + d
    <3>1. q - (hi + 1) \in Nat /\ q = hi + 1 + (q - (hi + 1))
      BY <1>1
    <3> QED
      BY <3>1
  <2>2. n * (hi + 1 + d) = n * hi + n + n * d /\ n * d \in Nat /\ n * hi \in Int
    OBVIOUS
  <2> QED
    BY <1>1, <2>1, <2>2
<1>4. q \in lo .. hi
  BY <1>1, <1>2, <1>3
<1> QED
  BY <1>4 DEF q
\* The fold that organ_state_worst_nonvital_health is reaches below every health.
LEMMA LeastFold ==
    ASSUME NEW S \in SUBSET Int, IsFiniteSet(S)
    PROVE  LET low == FoldSet(Least, 100, S)
           IN  low \in Int /\ \A x \in S : low <= x
<1> DEFINE c(s) == CHOOSE x \in s : TRUE
           F(f) == [s \in SUBSET S |-> IF s = {} THEN 100 ELSE Least(c(s), f[s \ {c(s)}])]
           iter == CHOOSE f : f = F(f)
           pick == [s \in SUBSET S |-> c(s)]
<1>1. FoldSet(Least, 100, S) = iter[S]
  BY DEF FoldSet, MapThenFoldSet
<1>2. \A s \in SUBSET S : s # {} => c(s) \in s
  OBVIOUS
<1>3. Picks(pick, S) /\ \A s \in SUBSET S : pick[s] = c(s)
  BY <1>2 DEF Picks
<1> HIDE DEF c, pick
<1>l. \A x, y \in Int : Least(x, y) \in Int /\ Least(x, y) <= x /\ Least(x, y) <= y
  BY DEF Least
<1>4. iter = F(iter)
  <2> DEFINE step == [p \in (SUBSET S) \X Int |->
                        IF p[1] = {} THEN 100 ELSE Least(c(p[1]), p[2])]
  <2>1. step \in [(SUBSET S) \X Int -> Int]
    <3> SUFFICES ASSUME NEW p \in (SUBSET S) \X Int, p[1] # {}
                 PROVE  Least(c(p[1]), p[2]) \in Int
      OBVIOUS
    <3>1. p[1] \in SUBSET S /\ p[2] \in Int
      OBVIOUS
    <3>2. c(p[1]) \in Int
      BY <1>2, <3>1
    <3> QED
      BY <1>l, <3>1, <3>2
  <2>2. \A s \in SUBSET S, v \in Int : s # {} => step[<<s, v>>] = Least(c(s), v)
    OBVIOUS
  <2> HIDE DEF step
  <2>3. PICK f \in [SUBSET S -> Int] : Follows(f, S, 100, pick, step)
    <3>1. 100 \in Int
      OBVIOUS
    <3> QED
      BY <1>3, <2>1, <3>1, SubsetRecursion, Zenon
  <2>4. \A s \in SUBSET S : f[s] = IF s = {} THEN 100 ELSE Least(c(s), f[s \ {c(s)}])
    <3> SUFFICES ASSUME NEW s \in SUBSET S, s # {} PROVE f[s] = Least(c(s), f[s \ {c(s)}])
      BY <2>3 DEF Follows
    <3>1. f[s \ {c(s)}] \in Int
      OBVIOUS
    <3> QED
      BY <1>3, <2>2, <2>3, <3>1 DEF Follows
  <2>5. f = F(f)
    BY <2>4
  <2> HIDE DEF F
  <2> QED
    BY <2>5
<1> HIDE DEF iter
<1>5. \A s \in SUBSET S : iter[s] = IF s = {} THEN 100 ELSE Least(c(s), iter[s \ {c(s)}])
  BY <1>4
<1> HIDE DEF F
<1> DEFINE G == {s \in SUBSET S : iter[s] \in Int /\ \A x \in s : iter[s] <= x}
<1>6. {} \in G
  BY <1>5
<1>7. ASSUME NEW s \in SUBSET S, s # {}, s \ {pick[s]} \in G PROVE s \in G
  <2> DEFINE t == s \ {c(s)}
  <2>1. t \in G /\ c(s) \in s /\ c(s) \in Int
    BY <1>2, <1>3, <1>7
  <2>2. iter[s] = Least(c(s), iter[t]) /\ iter[t] \in Int /\ \A x \in t : iter[t] <= x
    BY <1>5, <1>7, <2>1
  <2>3. iter[s] \in Int /\ iter[s] <= c(s) /\ iter[s] <= iter[t]
    BY <1>l, <2>1, <2>2
  <2>4. \A x \in s : x \in Int /\ (x = c(s) \/ x \in t)
    OBVIOUS
  <2> HIDE DEF t
  <2>5. \A x \in s : iter[s] <= x
    BY <2>2, <2>3, <2>4
  <2> QED
    BY <2>3, <2>5
<1>8. S \in G
  <2> HIDE DEF G
  <2> QED
    BY <1>3, <1>6, <1>7, SubsetInduction
<1> QED
  BY <1>1, <1>8

----------------------------------------------------------------------------
\* The mean health is a health, and the worst health of a non-vital organ is none that
\* an organ in better shape could hide.
LEMMA MeasuredHealth ==
    ASSUME PlanesTypeOK
    PROVE  /\ Aggregate \in 0 .. 100
           /\ WorstNonvital \in Int
           /\ \A o \in Present \intersect Nonvital : WorstNonvital <= health[o]
<1>1. IsFiniteSet(Present) /\ \A o \in Present : health[o] \in 0 .. 100
  <2>1. Present \in SUBSET Organs
    BY DEF Present
  <2>2. IsFiniteSet(Present)
    BY <2>1, PlanesAssumption, FS_Subset
  <2>3. \A o \in Present : health[o] \in 0 .. 100
    BY DEF Present, PlanesTypeOK
  <2> QED
    BY <2>2, <2>3
<1>2. Aggregate \in 0 .. 100
  <2> DEFINE sum == Total(health, Present)
             n == Cardinality(Present)
  <2>1. CASE Present = {}
    BY <2>1 DEF Aggregate
  <2>2. CASE Present # {}
    <3>1. n \in Nat \ {0}
      BY <1>1, <2>2, FS_CardinalityType, FS_EmptySet
    <3>2. sum \in Int /\ n * 0 <= sum /\ sum <= n * 100
      BY <1>1, SumBounds
    <3>3. Aggregate = sum \div n
      BY <2>2 DEF Aggregate, Total
    <3> HIDE DEF sum, n
    <3>4. sum \div n \in 0 .. 100
      BY <3>1, <3>2, MeanBounds
    <3> QED
      BY <3>3, <3>4
  <2> QED
    BY <2>1, <2>2
<1>3. /\ WorstNonvital \in Int
      /\ \A o \in Present \intersect Nonvital : WorstNonvital <= health[o]
  <2> DEFINE S == {health[o] : o \in Present \intersect Nonvital}
  <2>1. S \in SUBSET Nat /\ S \in SUBSET Int /\ \A x \in S : x <= 100
    BY <1>1
  <2>2. IsFiniteSet(S)
    <3> HIDE DEF S
    <3>1. 100 \in Nat
      OBVIOUS
    <3> QED
      BY <2>1, <3>1, FS_BoundedSetOfNaturals
  <2>3. WorstNonvital = FoldSet(Least, 100, S)
    BY DEF WorstNonvital
  <2>4. \A o \in Present \intersect Nonvital : health[o] \in S
    OBVIOUS
  <2> HIDE DEF S
  <2> QED
    BY <2>1, <2>2, <2>3, <2>4, LeastFold
<1> QED
  BY <1>2, <1>3

\* What the mode machine asks for before it is, or stays, in NORMAL.
LEMMA NormalAsks ==
    ASSUME NEW h \in Int, mode \in Modes, NextMode(h) = "NORMAL"
    PROVE  VitalChainAlive /\ h >= DegradedBelow
<1>1. VitalChainAlive
  BY NextModeSteps
<1>2. ASSUME h < SafeBelow PROVE FALSE
  <2>1. ~(h >= SafeBelow) /\ ~(h >= NormalAbove) /\ ~(h >= RecoverAbove)
    BY <1>2 DEF SafeBelow, NormalAbove, RecoverAbove
  <2>2. CASE mode = "SAFE"
    BY <2>2, NextModeSteps
  <2>3. CASE mode # "SAFE"
    <3>1. NextMode(h) = "SAFE"
      BY <1>1, <1>2, <2>1, <2>3, Zenon DEF NextMode
    <3> QED
      BY <3>1
  <2> QED
    BY <2>2, <2>3
<1>3. ASSUME h >= SafeBelow, h < DegradedBelow PROVE FALSE
  <2>1. ~(h < SafeBelow) /\ ~(h >= NormalAbove) /\ ~(h >= RecoverAbove)
    BY <1>3 DEF SafeBelow, NormalAbove, RecoverAbove, DegradedBelow
  <2>2. CASE mode = "NORMAL"
    <3>1. NextMode(h) = "DEGRADED"
      BY <1>1, <1>3, <2>1, <2>2, Zenon DEF NextMode
    <3> QED
      BY <3>1
  <2>3. CASE mode # "NORMAL"
    <3>1. mode = "SAFE" => NextMode(h) # "NORMAL"
      BY NextModeSteps
    <3>2. mode # "SAFE" => NextMode(h) = mode
      BY <1>1, <2>1, <2>3, ZenonT(30) DEF NextMode
    <3> QED
      BY <2>3, <3>1, <3>2
  <2> QED
    BY <2>2, <2>3
<1> QED
  BY <1>1, <1>2, <1>3 DEF SafeBelow, DegradedBelow

\* For every number of organs: a tick that ends in NORMAL saw a living vital chain and no
\* non-vital organ below the degraded threshold, however good the mean was.
THEOREM NormalIsHealthy == PlanesSpec => NormalMeansHealthy
<1>1. PlanesTypeOK /\ [PlanesNext]_planeVars =>
        [Tick /\ mode' = "NORMAL" =>
           /\ VitalChainAlive
           /\ \A o \in Present \intersect Nonvital : health[o] >= DegradedBelow]_planeVars
  <2> SUFFICES ASSUME PlanesTypeOK, Tick, mode' = "NORMAL"
               PROVE  /\ VitalChainAlive
                      /\ \A o \in Present \intersect Nonvital : health[o] >= DegradedBelow
    OBVIOUS
  <2>1. mode' = NextMode(Least(Aggregate, WorstNonvital)) /\ mode \in Modes
    BY DEF Tick, Evaluate, PlanesTypeOK
  <2>2. /\ Aggregate \in Int /\ WorstNonvital \in Int
        /\ \A o \in Present \intersect Nonvital : WorstNonvital <= health[o]
    BY MeasuredHealth
  <2>3. /\ Least(Aggregate, WorstNonvital) \in Int
        /\ Least(Aggregate, WorstNonvital) <= WorstNonvital
    BY <2>2 DEF Least
  <2>4. VitalChainAlive /\ Least(Aggregate, WorstNonvital) >= DegradedBelow
    BY <2>1, <2>3, NormalAsks
  <2>5. \A o \in Present : health[o] \in Int
    BY DEF Present, PlanesTypeOK
  <2> QED
    BY <2>2, <2>3, <2>4, <2>5 DEF DegradedBelow
<1> QED
  BY <1>1, PlanesSafety, PTL DEF PlanesSpec, NormalMeansHealthy
=============================================================================
