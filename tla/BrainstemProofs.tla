--------------------------- MODULE BrainstemProofs ---------------------------
(***************************************************************************)
(* Proofs about the kernel's scheduler, for any number of organs, restarts *)
(* and any length of the day, as long as the task ids do not come round    *)
(* (BrainstemAssumption).                                                  *)
(***************************************************************************)
EXTENDS Brainstem, Integers, FiniteSetTheorems, WellFoundedInduction, TLAPS

----------------------------------------------------------------------------
(* The inductive invariant *)

\* The slots of a pool that hold an organ.
Taken(pool) == {i \in Slots : pool[i].task_id # 0}

\* The list as the walks need it: it starts at an organ when there is one, goes
\* from organ to organ of lower id, and misses none, since what has the head and
\* is closed under next has every organ.
Whole(pool, head) ==
    /\ IF head = NULL THEN Taken(pool) = {} ELSE head \in Taken(pool)
    /\ \A i \in Taken(pool) : pool[i].next # NULL =>
          /\ pool[i].next \in Taken(pool)
          /\ pool[pool[i].next].task_id < pool[i].task_id
    /\ \A C \in SUBSET Slots : (head \in C /\ Closed(C, pool)) => Taken(pool) \subseteq C

\* The ids given so far: no more than one for every slot of every start of the
\* scheduler, so that the next one is new and the counter has not come round.
IdsFresh ==
    /\ 1 <= next_task_id
    /\ next_task_id <= 1 + inits * MaxOrgans + Cardinality(Taken(organ_pool))
    /\ \A i \in Slots : organ_pool[i].task_id < next_task_id

\* The day gives less adrenaline than the beat needs to touch a share.
Calm == body_hormones.adrenaline <= 50

\* The part of the invariant that the clock, the walk and the bus do not touch.
PoolInv ==
    /\ organ_pool \in [Slots -> OrganTask]
    /\ next_task_id \in 0..(TaskIdWord - 1)
    /\ head_organ \in Slots \cup {NULL}
    /\ current_state \in HomeostasisState
    /\ body_hormones \in Hormones
    /\ inits \in 0..MaxInits
    /\ late \subseteq Slots
    /\ Whole(organ_pool, head_organ)
    /\ IdsFresh
    /\ Calm
    /\ StateObeyed

SchedulerInv == BrainstemTypeOK /\ PoolInv

----------------------------------------------------------------------------
(* The list *)

\* A walk along a whole list comes to the organs and to nothing else.
LEMMA WholeLinked ==
    ASSUME NEW pool \in [Slots -> OrganTask], NEW head \in Slots \cup {NULL},
           Whole(pool, head)
    PROVE  Linked(pool, head) = Taken(pool)
<1>1. CASE head = NULL
  BY <1>1 DEF Whole, Linked
<1>2. CASE head # NULL
  <2>1. Taken(pool) \in SUBSET Slots /\ head \in Taken(pool)
    BY <1>2 DEF Whole, Taken
  <2>2. Closed(Taken(pool), pool)
    BY DEF Closed, Whole
  <2>3. Linked(pool, head) \subseteq Taken(pool)
    BY <2>1, <2>2 DEF Linked
  <2>4. Taken(pool) \subseteq Linked(pool, head)
    BY <1>2, <2>1 DEF Linked, Whole
  <2> QED
    BY <2>3, <2>4
<1> QED
  BY <1>1, <1>2

\* Two pools of the same ids and pointers.
SameLinks(p, q) ==
    \A i \in Slots : p[i].task_id = q[i].task_id /\ p[i].next = q[i].next

\* What changes shares and sleep only leaves the list whole.
LEMMA SameLinksWhole ==
    ASSUME NEW p, NEW q, NEW head, SameLinks(p, q), Whole(p, head)
    PROVE  Whole(q, head) /\ Taken(q) = Taken(p)
<1>1. Taken(q) = Taken(p)
  BY DEF Taken, SameLinks
<1>2. \A C \in SUBSET Slots : Closed(C, q) => Closed(C, p)
  BY DEF Closed, SameLinks
<1>3. \A i \in Taken(p) : i \in Slots
  BY DEF Taken
<1>4. ASSUME NEW i \in Taken(q), q[i].next # NULL
      PROVE  q[i].next \in Taken(q) /\ q[q[i].next].task_id < q[i].task_id
  <2>1. p[i].next = q[i].next /\ p[i].task_id = q[i].task_id
    BY <1>1, <1>3 DEF SameLinks
  <2>2. p[i].next \in Taken(p) /\ p[p[i].next].task_id < p[i].task_id
    BY <1>1, <1>4, <2>1 DEF Whole
  <2>3. p[p[i].next].task_id = q[p[i].next].task_id
    BY <1>3, <2>2 DEF SameLinks
  <2> QED
    BY <1>1, <2>1, <2>2, <2>3
<1>5. IF head = NULL THEN Taken(q) = {} ELSE head \in Taken(q)
  BY <1>1 DEF Whole
<1>6. \A C \in SUBSET Slots : (head \in C /\ Closed(C, q)) => Taken(q) \subseteq C
  BY <1>1, <1>2 DEF Whole
<1> QED
  BY <1>1, <1>4, <1>5, <1>6 DEF Whole

\* A free slot linked in front of a whole list, with an id above the others.
LEMMA ConsWhole ==
    ASSUME NEW p \in [Slots -> OrganTask], NEW q \in [Slots -> OrganTask],
           NEW head \in Slots \cup {NULL}, Whole(p, head),
           NEW i \in Slots, p[i].task_id = 0,
           q[i].task_id # 0, q[i].next = head,
           \A j \in Slots : p[j].task_id < q[i].task_id,
           \A j \in Slots \ {i} : q[j] = p[j]
    PROVE  Whole(q, i) /\ Taken(q) = Taken(p) \cup {i} /\ i \notin Taken(p)
<1>1. Taken(q) = Taken(p) \cup {i} /\ i \notin Taken(p)
  BY DEF Taken
<1>2. i # NULL
  BY DEF Slots, NULL
<1>3. ASSUME NEW k \in Taken(q), q[k].next # NULL
      PROVE  q[k].next \in Taken(q) /\ q[q[k].next].task_id < q[k].task_id
  <2>1. CASE k = i
    <3>1. head \in Taken(p) /\ head # i
      BY <1>1, <1>3, <2>1 DEF Whole
    <3>2. q[head] = p[head] /\ head \in Slots
      BY <3>1 DEF Taken
    <3> QED
      BY <1>1, <2>1, <3>1, <3>2
  <2>2. CASE k # i
    <3>1. k \in Taken(p) /\ q[k] = p[k]
      BY <1>1, <2>2 DEF Taken
    <3>2. p[k].next \in Taken(p) /\ p[p[k].next].task_id < p[k].task_id
      BY <1>3, <3>1 DEF Whole
    <3>3. q[p[k].next] = p[p[k].next]
      BY <1>1, <3>2 DEF Taken
    <3> QED
      BY <1>1, <3>1, <3>2, <3>3
  <2> QED
    BY <2>1, <2>2
<1>4. ASSUME NEW C \in SUBSET Slots, i \in C, Closed(C, q)
      PROVE  Taken(q) \subseteq C
  <2> DEFINE D == C \cap Taken(p)
  <2>1. head = NULL \/ head \in D
    <3>1. q[i].next \in C \cup {NULL}
      BY <1>4 DEF Closed
    <3> QED
      BY <3>1 DEF Whole
  <2>2. CASE head = NULL
    BY <1>1, <1>4, <2>2 DEF Whole
  <2>3. CASE head # NULL
    <3>1. Closed(D, p)
      <4> SUFFICES ASSUME NEW k \in D PROVE p[k].next \in D \cup {NULL}
        BY DEF Closed
      <4>1. q[k] = p[k] /\ k \in C
        BY <1>1 DEF Taken
      <4>2. q[k].next \in C \cup {NULL}
        BY <1>4, <4>1 DEF Closed
      <4>3. p[k].next = NULL \/ p[k].next \in Taken(p)
        BY DEF Whole
      <4> QED
        BY <4>1, <4>2, <4>3
    <3>2. Taken(p) \subseteq D
      BY <2>1, <2>3, <3>1 DEF Whole
    <3> QED
      BY <1>1, <1>4, <3>2
  <2> QED
    BY <2>2, <2>3
<1>5. i \in Taken(q)
  BY <1>1
<1> QED
  BY <1>1, <1>2, <1>3, <1>4, <1>5 DEF Whole

----------------------------------------------------------------------------
(* What happens to one task *)

\* A share of the state is a percentage.
LEMMA SharesBounded ==
    ASSUME NEW state
    PROVE  ImmuneShare(state) \in 0..100 /\ CortexShare(state) \in 0..100
<1>1. ImmuneShare(state) \in {10, 40, 90, 95}
  BY Zenon DEF ImmuneShare
<1>2. CortexShare(state) \in {80, 50, 5}
  BY Zenon DEF CortexShare
<1> QED
  BY <1>1, <1>2

\* set_state gives a task the share of the state and, in a coma, puts a cortex to
\* sleep; it keeps id, type and pointer.
LEMMA RedistributedTask ==
    ASSUME NEW task \in OrganTask, NEW state
    PROVE  LET t == Redistributed(task, state)
           IN  /\ t \in OrganTask
               /\ t.task_id = task.task_id /\ t.type = task.type /\ t.next = task.next
               /\ t.type = "IMMUNE" => t.current_cpu_share = ImmuneShare(state)
               /\ (t.type = "CORTEX" /\ state # SURVIVAL) =>
                     t.current_cpu_share = CortexShare(state)
               /\ (t.type = "CORTEX" /\ state = SURVIVAL) => t.is_sleeping
<1> DEFINE share == CASE task.type = "CORTEX" /\ state # SURVIVAL -> CortexShare(state)
                      [] task.type = "IMMUNE" -> ImmuneShare(state)
                      [] OTHER -> task.current_cpu_share
           sleep == IF state = RELAXED THEN FALSE
                    ELSE IF state = SURVIVAL /\ task.type = "CORTEX" THEN TRUE
                    ELSE task.is_sleeping
<1>1. Redistributed(task, state) =
        [task EXCEPT !.current_cpu_share = share, !.is_sleeping = sleep]
  BY Zenon DEF Redistributed
<1>2. (task.type = "CORTEX" /\ state # SURVIVAL) => share = CortexShare(state)
  <2>1. "CORTEX" # "IMMUNE"
    OBVIOUS
  <2> QED
    BY <2>1, Zenon
<1>3. task.type = "IMMUNE" => share = ImmuneShare(state)
  <2>1. "CORTEX" # "IMMUNE"
    OBVIOUS
  <2> QED
    BY <2>1, Zenon
<1>4. (task.type # "IMMUNE" /\ ~(task.type = "CORTEX" /\ state # SURVIVAL)) =>
         share = task.current_cpu_share
  BY Zenon
<1> HIDE DEF share
<1>5. task.current_cpu_share \in 0..100 /\ task.is_sleeping \in BOOLEAN
  BY DEF OrganTask
<1>6. share \in 0..100
  BY <1>2, <1>3, <1>4, <1>5, SharesBounded
<1>7. sleep \in BOOLEAN
  BY <1>5
<1>8. (task.type = "CORTEX" /\ state = SURVIVAL) => sleep
  BY DEF SURVIVAL, RELAXED
<1> HIDE DEF sleep
<1> QED
  BY <1>1, <1>2, <1>3, <1>6, <1>7, <1>8 DEF OrganTask

\* The hormones of the day leave the shares and can only put a cortex to sleep.
LEMMA ModulatedTask ==
    ASSUME NEW task \in OrganTask, NEW hormones \in Hormones, hormones.adrenaline <= 50
    PROVE  LET t == Modulated(task, hormones)
           IN  /\ t \in OrganTask
               /\ t.task_id = task.task_id /\ t.type = task.type /\ t.next = task.next
               /\ t.current_cpu_share = task.current_cpu_share
               /\ task.is_sleeping => t.is_sleeping
<1>1. ~(hormones.adrenaline > 150)
  BY DEF Hormones
<1> QED
  BY <1>1 DEF Modulated, OrganTask

\* Night and day bring little adrenaline, and do not touch an emergency.
LEMMA TurnOfDay ==
    ASSUME BrainstemTypeOK, Calm
    PROVE  /\ Turns(current_state) \in HomeostasisState
           /\ TurnedHormones(current_state) \in Hormones
           /\ TurnedHormones(current_state).adrenaline <= 50
<1>1. body_hormones \in Hormones /\ body_hormones.adrenaline <= 50
  BY DEF BrainstemTypeOK, Calm
<1>2. Turns(current_state) \in {VIGILANT, RELAXED, current_state}
  BY Zenon DEF Turns
<1>3. TurnedHormones(current_state) \in
        {[adrenaline |-> 50, melatonin |-> 0], [adrenaline |-> 0, melatonin |-> 200],
         body_hormones}
  BY Zenon DEF TurnedHormones
<1>4. Turns(current_state) \in HomeostasisState
  BY <1>2 DEF BrainstemTypeOK, HomeostasisState
<1> QED
  BY <1>1, <1>3, <1>4 DEF Hormones

----------------------------------------------------------------------------
(* What happens to the pool *)

\* The tasks of a pool are treated as the state says, some of them excepted.
Obeys(pool, excepted, state) ==
    \A i \in Taken(pool) \ excepted :
       /\ (state = SURVIVAL /\ pool[i].type = "CORTEX") => pool[i].is_sleeping
       /\ pool[i].type = "IMMUNE" => pool[i].current_cpu_share = ImmuneShare(state)
       /\ (pool[i].type = "CORTEX" /\ state # SURVIVAL) =>
             pool[i].current_cpu_share = CortexShare(state)

LEMMA ObeysMeaning == StateObeyed <=> Obeys(organ_pool, late, current_state)
BY DEF StateObeyed, ComaHolds, SharesFollowState, Obeys, Registered, Taken

\* set_state in a whole list reaches every organ and leaves the list as it is.
LEMMA StateReachesOrgans ==
    ASSUME NEW pool \in [Slots -> OrganTask], NEW head \in Slots \cup {NULL},
           Whole(pool, head), NEW state
    PROVE  LET q == PoolInState(pool, head, state)
           IN  /\ q \in [Slots -> OrganTask]
               /\ SameLinks(pool, q)
               /\ Obeys(q, {}, state)
<1> DEFINE q == PoolInState(pool, head, state)
<1>1. Linked(pool, head) = Taken(pool)
  BY WholeLinked
<1>2. q = [i \in Slots |-> IF i \in Taken(pool) THEN Redistributed(pool[i], state)
                           ELSE pool[i]]
  BY <1>1 DEF PoolInState
<1> HIDE DEF q
<1>3. ASSUME NEW i \in Slots PROVE pool[i] \in OrganTask
  OBVIOUS
<1>4. ASSUME NEW i \in Slots
      PROVE  /\ q[i] \in OrganTask
             /\ pool[i].task_id = q[i].task_id /\ pool[i].next = q[i].next
  <2>1. CASE i \in Taken(pool)
    BY <1>2, <1>3, <2>1, RedistributedTask
  <2>2. CASE i \notin Taken(pool)
    BY <1>2, <1>3, <2>2
  <2> QED
    BY <2>1, <2>2
<1>5. q \in [Slots -> OrganTask]
  BY <1>2, <1>4
<1>6. SameLinks(pool, q)
  BY <1>4 DEF SameLinks
<1>7. Taken(q) = Taken(pool)
  BY <1>6, SameLinksWhole
<1>8. Obeys(q, {}, state)
  <2> SUFFICES ASSUME NEW i \in Taken(pool)
               PROVE  /\ (state = SURVIVAL /\ q[i].type = "CORTEX") => q[i].is_sleeping
                      /\ q[i].type = "IMMUNE" =>
                            q[i].current_cpu_share = ImmuneShare(state)
                      /\ (q[i].type = "CORTEX" /\ state # SURVIVAL) =>
                            q[i].current_cpu_share = CortexShare(state)
    BY <1>7 DEF Obeys
  <2>1. i \in Slots /\ q[i] = Redistributed(pool[i], state)
    BY <1>2 DEF Taken
  <2> QED
    BY <1>3, <2>1, RedistributedTask
<1> QED
  BY <1>5, <1>6, <1>8 DEF q

\* With the same ids the counter is as fresh as it was.
LEMMA SameIdsFresh ==
    ASSUME PoolInv, SameLinks(organ_pool, organ_pool'), UNCHANGED <<next_task_id, inits>>
    PROVE  IdsFresh'
<1>1. Taken(organ_pool') = Taken(organ_pool)
  BY SameLinksWhole DEF PoolInv
<1> QED
  BY <1>1 DEF PoolInv, IdsFresh, SameLinks

\* set_state, from outside or from an entry point.
LEMMA SetStateKeeps ==
    ASSUME PoolInv, NEW s \in HomeostasisState, SetState(s),
           UNCHANGED <<next_task_id, head_organ, body_hormones, inits>>
    PROVE  PoolInv'
<1>1. CASE s = current_state
  <2>1. UNCHANGED <<organ_pool, current_state, late>>
    BY <1>1 DEF SetState
  <2> QED
    BY <2>1 DEF PoolInv, IdsFresh, Calm, StateObeyed, ComaHolds, SharesFollowState, Registered
<1>2. CASE s # current_state
  <2>1. /\ organ_pool' = PoolInState(organ_pool, head_organ, s)
        /\ current_state' = s
        /\ late' = {}
    BY <1>2 DEF SetState
  <2>2. /\ organ_pool' \in [Slots -> OrganTask]
        /\ SameLinks(organ_pool, organ_pool')
        /\ Obeys(organ_pool', {}, s)
    BY <2>1, StateReachesOrgans DEF PoolInv
  <2>3. Whole(organ_pool', head_organ')
    BY <2>2, SameLinksWhole DEF PoolInv
  <2>4. IdsFresh'
    BY <2>2, SameIdsFresh
  <2>5. StateObeyed'
    <3>1. Obeys(organ_pool', late', current_state')
      BY <2>1, <2>2
    <3> QED
      BY <3>1 DEF StateObeyed, ComaHolds, SharesFollowState, Obeys, Registered, Taken
  <2>6. Calm'
    BY DEF PoolInv, Calm
  <2> QED
    BY <2>1, <2>2, <2>3, <2>4, <2>5, <2>6 DEF PoolInv
<1> QED
  BY <1>1, <1>2

\* The slots and their parts are finite.
LEMMA TakenFinite ==
    ASSUME NEW pool
    PROVE  /\ IsFiniteSet(Taken(pool))
           /\ Cardinality(Taken(pool)) \in Nat
           /\ Cardinality(Taken(pool)) <= MaxOrgans
<1>1. IsFiniteSet(Slots) /\ Cardinality(Slots) = MaxOrgans
  <2>1. 1 \in Int /\ MaxOrgans \in Int /\ ~(1 > MaxOrgans) /\ MaxOrgans - 1 + 1 = MaxOrgans
    BY BrainstemAssumption
  <2> QED
    BY <2>1, FS_Interval DEF Slots
<1>2. Taken(pool) \subseteq Slots
  BY DEF Taken
<1>3. IsFiniteSet(Taken(pool)) /\ Cardinality(Taken(pool)) <= MaxOrgans
  BY <1>1, <1>2, FS_Subset
<1>4. Cardinality(Taken(pool)) \in Nat
  BY <1>3, FS_CardinalityType
<1> QED
  BY <1>3, <1>4

\* The ids of every slot of every start of the scheduler fit under the word.
LEMMA IdsFit ==
    ASSUME NEW n \in 0..MaxInits
    PROVE  /\ n * MaxOrgans \in Nat
           /\ (n + 1) * MaxOrgans = n * MaxOrgans + MaxOrgans
           /\ 2 + n * MaxOrgans + MaxOrgans <= TaskIdWord
<1>1. n \in Nat /\ MaxOrgans \in Nat /\ MaxInits \in Nat /\ TaskIdWord \in Nat
  BY BrainstemAssumption
<1>2. n * MaxOrgans \in Nat /\ (n + 1) * MaxOrgans = n * MaxOrgans + MaxOrgans
  BY <1>1
<1>3. PICK d \in Nat : MaxInits = n + d
  <2>1. MaxInits - n \in Nat /\ MaxInits = n + (MaxInits - n)
    BY <1>1
  <2> QED
    BY <2>1
<1>4. (n + d + 1) * MaxOrgans = n * MaxOrgans + MaxOrgans + d * MaxOrgans
  BY <1>1
<1>5. d * MaxOrgans \in Nat
  BY <1>1
<1>6. (n + d + 1) * MaxOrgans < TaskIdWord - 1
  BY <1>1, <1>3, BrainstemAssumption
<1> QED
  BY <1>1, <1>2, <1>4, <1>5, <1>6

\* A set of numbers that is not empty has a least one.
LEMMA LeastOf ==
    ASSUME NEW S \in SUBSET Nat, S # {}
    PROVE  \E x \in S : \A y \in S : x <= y
<1> DEFINE R == OpToRel(<, Nat)
<1>1. IsWellFoundedOn(R, Nat)
  BY NatLessThanWellFounded
<1>2. \A x, y \in Nat : <<x, y>> \in R <=> x < y
  BY DEF OpToRel
<1> HIDE DEF R
<1>3. PICK x \in S : \A y \in S : ~(<<y, x>> \in R)
  BY <1>1, WFMin
<1>4. \A y \in S : x \in Nat /\ y \in Nat /\ ~(y < x)
  BY <1>2, <1>3
<1>5. \A y \in S : x <= y
  BY <1>4
<1> QED
  BY <1>5

\* A registration, from outside or from an entry point.
LEMMA RegisterKeeps ==
    ASSUME PoolInv, NEW type \in OrganType, Register(type),
           UNCHANGED <<current_state, body_hormones, inits>>
    PROVE  PoolInv'
<1> DEFINE i == CHOOSE k \in FreeSlots : \A j \in FreeSlots : k <= j
<1> DEFINE task == [task_id |-> next_task_id, type |-> type,
                    current_cpu_share |-> IF type = "VITAL" THEN 100 ELSE 10,
                    is_sleeping |-> FALSE, next |-> head_organ]
<1>1. /\ organ_pool' = [organ_pool EXCEPT ![i] = task]
      /\ head_organ' = i
      /\ late' = late \cup {i}
      /\ next_task_id' = (next_task_id + 1) % TaskIdWord
      /\ FreeSlots # {}
  BY DEF Register
<1>2. i \in FreeSlots
  <2>1. \E k \in FreeSlots : \A j \in FreeSlots : k <= j
    <3>1. FreeSlots \subseteq Slots /\ Slots \subseteq Nat
      BY BrainstemAssumption DEF FreeSlots, Slots
    <3> QED
      BY <1>1, <3>1, LeastOf
  <2> QED
    BY <2>1
<1> HIDE DEF i
<1>3. i \in Slots /\ organ_pool[i].task_id = 0
  BY <1>2 DEF FreeSlots
<1>4. task \in OrganTask
  <2>1. (IF type = "VITAL" THEN 100 ELSE 10) \in 0..100
    OBVIOUS
  <2> QED
    BY <2>1 DEF PoolInv, OrganTask
<1>5. task.task_id = next_task_id /\ task.next = head_organ
  OBVIOUS
<1> HIDE DEF task
<1>6. organ_pool' \in [Slots -> OrganTask] /\ organ_pool'[i] = task
  BY <1>1, <1>3, <1>4 DEF PoolInv
<1>7. \A j \in Slots \ {i} : organ_pool'[j] = organ_pool[j]
  BY <1>1, <1>3 DEF PoolInv
<1>8. /\ Whole(organ_pool', i)
      /\ Taken(organ_pool') = Taken(organ_pool) \cup {i}
      /\ i \notin Taken(organ_pool)
  <2>1. organ_pool'[i].task_id # 0 /\ organ_pool'[i].next = head_organ
    BY <1>5, <1>6 DEF PoolInv, IdsFresh
  <2>2. \A j \in Slots : organ_pool[j].task_id < organ_pool'[i].task_id
    BY <1>5, <1>6 DEF PoolInv, IdsFresh
  <2> QED
    BY <1>3, <1>6, <1>7, <2>1, <2>2, ConsWhole DEF PoolInv
<1>9. /\ Cardinality(Taken(organ_pool')) = Cardinality(Taken(organ_pool)) + 1
      /\ Cardinality(Taken(organ_pool')) \in Nat
      /\ Cardinality(Taken(organ_pool)) \in Nat
      /\ Cardinality(Taken(organ_pool')) <= MaxOrgans
  BY <1>8, TakenFinite, FS_AddElement
<1>10. next_task_id' = next_task_id + 1 /\ next_task_id + 1 < TaskIdWord
  <2>1. next_task_id \in Nat /\ TaskIdWord \in Nat /\ MaxOrgans \in Nat
    BY BrainstemAssumption DEF PoolInv
  <2>2. next_task_id + 1 < TaskIdWord
    BY <1>9, <2>1, IdsFit DEF PoolInv, IdsFresh
  <2> QED
    BY <1>1, <2>1, <2>2
<1>11. IdsFresh'
  <2>1. next_task_id \in Nat /\ inits * MaxOrgans \in Nat
    BY BrainstemAssumption, IdsFit DEF PoolInv
  <2>2. /\ 1 <= next_task_id'
        /\ next_task_id' <= 1 + inits * MaxOrgans + Cardinality(Taken(organ_pool'))
    BY <1>9, <1>10, <2>1 DEF PoolInv, IdsFresh
  <2>3. ASSUME NEW j \in Slots PROVE organ_pool'[j].task_id < next_task_id'
    <3>1. CASE j = i
      BY <1>5, <1>6, <1>10, <2>1, <3>1
    <3>2. CASE j # i
      <4>1. organ_pool[j].task_id \in Nat
        BY BrainstemAssumption DEF PoolInv, OrganTask
      <4> QED
        BY <1>7, <1>10, <2>1, <3>2, <4>1 DEF PoolInv, IdsFresh
    <3> QED
      BY <3>1, <3>2
  <2> QED
    BY <2>2, <2>3 DEF IdsFresh
<1>12. StateObeyed'
  <2>1. Obeys(organ_pool, late, current_state)
    BY ObeysMeaning DEF PoolInv
  <2>2. Obeys(organ_pool', late', current_state')
    <3> SUFFICES ASSUME NEW j \in Taken(organ_pool') \ late'
                 PROVE  organ_pool'[j] = organ_pool[j] /\ j \in Taken(organ_pool) \ late
      BY <2>1 DEF Obeys
    <3> QED
      BY <1>1, <1>7, <1>8 DEF Taken
  <2> QED
    BY <2>2 DEF StateObeyed, ComaHolds, SharesFollowState, Obeys, Registered, Taken
<1>13. Calm' /\ next_task_id' \in 0..(TaskIdWord - 1)
  BY <1>10, BrainstemAssumption DEF PoolInv, Calm
<1> QED
  BY <1>1, <1>3, <1>6, <1>8, <1>11, <1>12, <1>13 DEF PoolInv

\* The beat: a turn of the day sets the state as a call would, and the hormones then
\* act on every organ of the list.
LEMMA BeatKeeps ==
    ASSUME SchedulerInv, Beat
    PROVE  PoolInv'
<1> DEFINE turned   == circadian_clock' = 0
           state    == IF turned THEN Turns(current_state) ELSE current_state
           hormones == IF turned THEN TurnedHormones(current_state) ELSE body_hormones
           shared   == IF state = current_state THEN organ_pool
                       ELSE PoolInState(organ_pool, head_organ, state)
           excepted == IF state = current_state THEN late ELSE {}
<1>1. /\ current_state' = state
      /\ body_hormones' = hormones
      /\ organ_pool' = [i \in Slots |->
            IF i \in Linked(organ_pool, head_organ) THEN Modulated(shared[i], hormones)
            ELSE shared[i]]
      /\ late' = excepted
      /\ UNCHANGED <<next_task_id, head_organ, inits>>
  BY DEF Beat
<1>2. state \in HomeostasisState /\ hormones \in Hormones /\ hormones.adrenaline <= 50
  BY TurnOfDay DEF SchedulerInv, PoolInv, Calm
<1>3. /\ shared \in [Slots -> OrganTask]
      /\ SameLinks(organ_pool, shared)
      /\ Obeys(shared, excepted, state)
  <2>1. CASE state = current_state
    BY <2>1, ObeysMeaning DEF SchedulerInv, PoolInv, SameLinks
  <2>2. CASE state # current_state
    BY <2>2, StateReachesOrgans DEF SchedulerInv, PoolInv
  <2> QED
    BY <2>1, <2>2
<1>4. excepted \subseteq Slots
  BY DEF SchedulerInv, PoolInv
<1> HIDE DEF state, hormones, shared, excepted
<1>5. ASSUME NEW i \in Slots
      PROVE  /\ organ_pool'[i] \in OrganTask
             /\ organ_pool'[i].task_id = shared[i].task_id
             /\ organ_pool'[i].type = shared[i].type
             /\ organ_pool'[i].next = shared[i].next
             /\ organ_pool'[i].current_cpu_share = shared[i].current_cpu_share
             /\ shared[i].is_sleeping => organ_pool'[i].is_sleeping
  <2>1. shared[i] \in OrganTask
    BY <1>3
  <2>2. CASE i \in Linked(organ_pool, head_organ)
    BY <1>1, <1>2, <2>1, <2>2, ModulatedTask
  <2>3. CASE i \notin Linked(organ_pool, head_organ)
    BY <1>1, <2>1, <2>3
  <2> QED
    BY <2>2, <2>3
<1>6. organ_pool' \in [Slots -> OrganTask]
  BY <1>1, <1>5
<1>7. SameLinks(organ_pool, organ_pool')
  BY <1>3, <1>5 DEF SameLinks
<1>8. Whole(organ_pool', head_organ')
  BY <1>1, <1>7, SameLinksWhole DEF SchedulerInv, PoolInv
<1>9. IdsFresh'
  BY <1>1, <1>7, SameIdsFresh DEF SchedulerInv
<1>10. Obeys(organ_pool', excepted, state)
  <2>1. \A i \in Taken(organ_pool') : i \in Taken(shared) /\ i \in Slots
    BY <1>5 DEF Taken
  <2> QED
    BY <1>3, <1>5, <2>1 DEF Obeys
<1>11. StateObeyed'
  <2>1. Obeys(organ_pool', late', current_state')
    BY <1>1, <1>10
  <2> QED
    BY <2>1 DEF StateObeyed, ComaHolds, SharesFollowState, Obeys, Registered, Taken
<1>12. Calm'
  BY <1>1, <1>2 DEF Calm
<1> QED
  BY <1>1, <1>2, <1>4, <1>6, <1>8, <1>9, <1>11, <1>12 DEF SchedulerInv, PoolInv

\* A pool without organs is a whole list of none.
LEMMA EmptyWhole ==
    ASSUME NEW pool, \A i \in Slots : pool[i].task_id = 0
    PROVE  Whole(pool, NULL) /\ Taken(pool) = {}
<1>1. Taken(pool) = {}
  BY DEF Taken
<1> QED
  BY <1>1 DEF Whole

\* A restart empties the list and keeps the counter of ids.
LEMMA SchedulerInitKeeps ==
    ASSUME SchedulerInv, SchedulerInit
    PROVE  PoolInv'
<1>1. ASSUME NEW i \in Slots
      PROVE  organ_pool'[i] \in OrganTask /\ organ_pool'[i].task_id = 0
  <2>1. organ_pool[i] \in OrganTask /\ organ_pool'[i] = [organ_pool[i] EXCEPT !.task_id = 0]
    BY DEF SchedulerInit, SchedulerInv, PoolInv
  <2>2. 0 \in 0..(TaskIdWord - 1)
    BY BrainstemAssumption, IdsFit DEF SchedulerInv, PoolInv
  <2> QED
    BY <2>1, <2>2 DEF OrganTask
<1>2. organ_pool' \in [Slots -> OrganTask]
  BY <1>1 DEF SchedulerInit
<1>3. Whole(organ_pool', NULL) /\ Taken(organ_pool') = {}
  BY <1>1, EmptyWhole
<1>4. IdsFresh'
  <2>1. /\ inits' = inits + 1 /\ inits' \in 0..MaxInits /\ inits \in 0..MaxInits
        /\ next_task_id' = next_task_id /\ next_task_id \in Nat
    BY BrainstemAssumption DEF SchedulerInit, SchedulerInv, PoolInv
  <2>2. Cardinality(Taken(organ_pool')) = 0
    BY <1>3, FS_EmptySet
  <2>3. /\ Cardinality(Taken(organ_pool)) <= MaxOrgans
        /\ Cardinality(Taken(organ_pool)) \in Nat /\ MaxOrgans \in Nat
    BY TakenFinite, BrainstemAssumption
  <2>4. inits * MaxOrgans \in Nat /\ (inits + 1) * MaxOrgans = inits * MaxOrgans + MaxOrgans
    BY <2>1, IdsFit
  <2>5. /\ 1 <= next_task_id
        /\ next_task_id <= 1 + inits * MaxOrgans + Cardinality(Taken(organ_pool))
    BY DEF SchedulerInv, PoolInv, IdsFresh
  <2>6. next_task_id' <= 1 + inits' * MaxOrgans + Cardinality(Taken(organ_pool'))
    BY <2>1, <2>2, <2>3, <2>4, <2>5
  <2>7. \A i \in Slots : organ_pool'[i].task_id < next_task_id'
    BY <1>1, <2>1, <2>5
  <2> QED
    BY <2>1, <2>5, <2>6, <2>7 DEF IdsFresh
<1>5. StateObeyed'
  BY <1>1 DEF StateObeyed, ComaHolds, SharesFollowState, Registered
<1>6. Calm'
  BY DEF SchedulerInit, SchedulerInv, PoolInv, Calm
<1>7. RELAXED \in HomeostasisState
  BY DEF HomeostasisState
<1>8. inits' \in 0..MaxInits
  BY BrainstemAssumption DEF SchedulerInit, SchedulerInv, PoolInv
<1> QED
  BY <1>2, <1>3, <1>4, <1>5, <1>6, <1>7, <1>8 DEF SchedulerInit, SchedulerInv, PoolInv

\* What the pool's invariant says of the types, for a step that moves the rest.
LEMMA PoolTyped ==
    ASSUME PoolInv', circadian_clock' \in 0..(CycleDuration - 1),
           walk' \in Slots \cup {NULL}, signals' \in 0..MaxSignals
    PROVE  SchedulerInv'
BY DEF SchedulerInv, PoolInv, BrainstemTypeOK

\* A step that leaves the pool keeps its part of the invariant.
LEMMA PoolUnchanged ==
    ASSUME PoolInv, UNCHANGED <<organ_pool, next_task_id, head_organ, current_state,
                                body_hormones, inits, late>>
    PROVE  PoolInv'
BY DEF PoolInv, IdsFresh, Calm, StateObeyed, ComaHolds, SharesFollowState, Registered

LEMMA SchedulerStart == BrainstemInit => SchedulerInv
<1> SUFFICES ASSUME BrainstemInit PROVE SchedulerInv
  OBVIOUS
<1>1. /\ 0 \in 0..(TaskIdWord - 1) /\ 1 \in 0..(TaskIdWord - 1) /\ 0 \in 0..MaxInits
      /\ 0 \in 0..MaxSignals /\ 0 \in 0..(CycleDuration - 1) /\ MaxOrgans \in Nat
  <2>1. 0 \in 0..MaxInits /\ 0 * MaxOrgans = 0
    BY BrainstemAssumption
  <2> QED
    BY <2>1, IdsFit, BrainstemAssumption
<1>2. organ_pool \in [Slots -> OrganTask] /\ \A i \in Slots : organ_pool[i].task_id = 0
  BY <1>1 DEF BrainstemInit, OrganTask, OrganType
<1>3. Whole(organ_pool, head_organ) /\ Taken(organ_pool) = {}
  BY <1>2, EmptyWhole DEF BrainstemInit
<1>4. IdsFresh
  <2>1. Cardinality(Taken(organ_pool)) = 0 /\ 0 * MaxOrgans = 0
    BY <1>1, <1>3, FS_EmptySet
  <2> QED
    BY <1>2, <2>1 DEF BrainstemInit, IdsFresh, FirstTaskId
<1>5. StateObeyed
  BY <1>2 DEF StateObeyed, ComaHolds, SharesFollowState, Registered
<1>6. body_hormones \in Hormones /\ Calm
  BY DEF BrainstemInit, Hormones, Calm
<1> QED
  BY <1>1, <1>2, <1>3, <1>4, <1>5, <1>6
  DEF BrainstemInit, SchedulerInv, PoolInv, BrainstemTypeOK, HomeostasisState, FirstTaskId

LEMMA SchedulerStep ==
    ASSUME SchedulerInv, [BrainstemNext]_schedulerVars
    PROVE  SchedulerInv'
<1>0. PoolInv /\ BrainstemTypeOK
  BY DEF SchedulerInv
<1>1. CASE SchedulerInit
  <2>1. PoolInv'
    BY <1>1, SchedulerInitKeeps
  <2> QED
    BY <1>0, <1>1, <2>1, PoolTyped DEF SchedulerInit, BrainstemTypeOK
<1>2. ASSUME NEW s \in HomeostasisState, Command(s) PROVE SchedulerInv'
  <2>1. PoolInv'
    BY <1>0, <1>2, SetStateKeeps DEF Command
  <2> QED
    BY <1>0, <1>2, <2>1, PoolTyped DEF Command, BrainstemTypeOK
<1>3. ASSUME NEW t \in OrganType, RegisterOrgan(t) PROVE SchedulerInv'
  <2>1. PoolInv'
    BY <1>0, <1>3, RegisterKeeps DEF RegisterOrgan
  <2> QED
    BY <1>0, <1>3, <2>1, PoolTyped DEF RegisterOrgan, BrainstemTypeOK
<1>4. CASE Beat
  <2>1. PoolInv'
    BY <1>4, BeatKeeps
  <2>2. circadian_clock' \in 0..(CycleDuration - 1)
    BY <1>0, <1>4, BrainstemAssumption DEF Beat, BrainstemTypeOK
  <2>3. signals' \in 0..MaxSignals
    BY <1>0, <1>4, BrainstemAssumption DEF Beat, BrainstemTypeOK
  <2>4. walk' \in Slots \cup {NULL}
    BY <1>0, <1>4 DEF Beat, BrainstemTypeOK
  <2> QED
    BY <2>1, <2>2, <2>3, <2>4, PoolTyped
<1>5. CASE Run
  <2>1. PoolInv'
    <3>1. CASE UNCHANGED <<organ_pool, next_task_id, head_organ, current_state, late>>
      BY <1>0, <1>5, <3>1, PoolUnchanged DEF Run
    <3>2. ASSUME NEW s \in HomeostasisState, SetState(s),
                 UNCHANGED <<next_task_id, head_organ>>
          PROVE  PoolInv'
      BY <1>0, <1>5, <3>2, SetStateKeeps DEF Run
    <3>3. ASSUME NEW t \in OrganType, Register(t), UNCHANGED current_state PROVE PoolInv'
      BY <1>0, <1>5, <3>3, RegisterKeeps DEF Run
    <3> QED
      BY <1>5, <3>1, <3>2, <3>3 DEF Run
  <2>2. walk' \in Slots \cup {NULL}
    <3>1. walk \in Slots /\ walk' = organ_pool'[walk].next
      BY <1>0, <1>5 DEF Run, BrainstemTypeOK
    <3>2. organ_pool'[walk] \in OrganTask
      BY <2>1, <3>1 DEF PoolInv
    <3> QED
      BY <3>1, <3>2 DEF OrganTask
  <2> QED
    BY <1>0, <1>5, <2>1, <2>2, PoolTyped DEF Run, BrainstemTypeOK
<1>6. CASE Signal
  <2>1. PoolInv'
    BY <1>0, <1>6, PoolUnchanged DEF Signal
  <2> QED
    BY <1>0, <1>6, <2>1, PoolTyped, BrainstemAssumption DEF Signal, BrainstemTypeOK
<1>7. CASE UNCHANGED schedulerVars
  <2>1. PoolInv'
    BY <1>0, <1>7, PoolUnchanged DEF schedulerVars
  <2> QED
    BY <1>0, <1>7, <2>1, PoolTyped DEF schedulerVars, BrainstemTypeOK
<1> QED
  BY <1>1, <1>2, <1>3, <1>4, <1>5, <1>6, <1>7 DEF BrainstemNext

\* What the invariant is for.
LEMMA SchedulerMeans == SchedulerInv => (ListSound /\ StateObeyed)
<1> SUFFICES ASSUME SchedulerInv PROVE ListSound /\ StateObeyed
  OBVIOUS
<1>1. Linked(organ_pool, head_organ) = Registered /\ Registered = Taken(organ_pool)
  BY WholeLinked DEF SchedulerInv, PoolInv, Registered, Taken
<1>2. ListHoldsOrgans
  BY <1>1 DEF SchedulerInv, PoolInv, Whole, ListHoldsOrgans
<1> QED
  BY <1>2 DEF SchedulerInv, PoolInv, ListSound

LEMMA SchedulerAlways == BrainstemSpec => []SchedulerInv
<1>1. BrainstemInit => SchedulerInv
  BY SchedulerStart
<1>2. SchedulerInv /\ [BrainstemNext]_schedulerVars => SchedulerInv'
  BY SchedulerStep
<1> QED
  BY <1>1, <1>2, PTL DEF BrainstemSpec

\* The list holds the organs and no other slot and it ends, whatever is registered and
\* commanded from outside, from entry points in the middle of a walk and over restarts.
THEOREM SchedulerList == BrainstemSpec => []ListSound
BY SchedulerAlways, SchedulerMeans, PTL

\* The organs get the shares and the sleep of the state: clock, hormones, entry points
\* and registrations do not undo what set_state did to those it found.
THEOREM SchedulerObeys == BrainstemSpec => []StateObeyed
BY SchedulerAlways, SchedulerMeans, PTL
=============================================================================
