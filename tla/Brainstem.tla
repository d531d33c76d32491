------------------------------ MODULE Brainstem ------------------------------
(***************************************************************************)
(* The kernel's scheduler: a pool of organ tasks linked in a list, the     *)
(* homeostasis state that shares the processor among them, and the         *)
(* heartbeat that turns day into night and runs the organs that are awake. *)
(*                                                                         *)
(* A heartbeat is one Beat (clock and hormones) and then one Run for each  *)
(* task of the list, since an entry point may itself change the state or   *)
(* register an organ.  Between heartbeats the rest of the system makes the *)
(* same calls.  The clock is kept modulo the cycle, the only way the code  *)
(* reads it.                                                               *)
(*                                                                         *)
(* The shares and the sleepers are those of oo_scheduler.c.  The comments  *)
(* of oo_scheduler.h announce others: 90 % for the cortex in RELAXED, half *)
(* for each in VIGILANT, and every process that is not vital killed in     *)
(* SURVIVAL.  The code gives 80 and 10, then 50 and 40, then 5 and 90, and *)
(* SURVIVAL only puts the cortex to sleep: the senses go on.               *)
(***************************************************************************)
EXTENDS Naturals, FiniteSets

CONSTANTS
    MaxOrgans,       \* MAX_ORGANS, 16
    CycleDuration,   \* CYCLE_DURATION, 10000
    TaskIdWord,      \* the values of next_task_id, a uint8_t: 256
    AbsorbMax,       \* the globules a heartbeat takes from the bus, 4
    MaxInits,        \* bound of the model on the restarts of the scheduler
    MaxSignals       \* bound of the model on the globules waiting for the kernel

(* No task id comes round to 0 while the program runs *)
ASSUME BrainstemAssumption ==
    /\ MaxOrgans \in Nat \ {0} /\ CycleDuration \in Nat \ {0}
    /\ TaskIdWord \in Nat /\ AbsorbMax \in Nat \ {0}
    /\ MaxInits \in Nat /\ MaxSignals \in Nat
    /\ (MaxInits + 1) * MaxOrgans < TaskIdWord - 1

RELAXED == "RELAXED"
VIGILANT == "VIGILANT"
COMBAT == "COMBAT"
SURVIVAL == "SURVIVAL"
HomeostasisState == {RELAXED, VIGILANT, COMBAT, SURVIVAL}

OrganType == {"CORTEX", "IMMUNE", "SENSORY", "VITAL"}

Slots == 1..MaxOrgans
NULL == 0

VARIABLES
    organ_pool,      \* the tasks
    next_task_id,
    head_organ,      \* a slot or NULL
    current_state,
    circadian_clock, \* modulo CycleDuration
    body_hormones,
    walk,            \* the task the heartbeat has come to, or NULL between beats
    signals,         \* how many globules wait on the bus for the kernel
    inits,           \* how often the scheduler was restarted
    late             \* history: the slots registered since the last change of state

schedulerVars == <<organ_pool, next_task_id, head_organ, current_state, circadian_clock,
          body_hormones, walk, signals, inits, late>>

OrganTask ==
    [task_id: 0..(TaskIdWord - 1), type: OrganType, current_cpu_share: 0..100,
     is_sleeping: BOOLEAN, next: Slots \cup {NULL}]

Hormones == [adrenaline: 0..255, melatonin: 0..255]   \* endorphin is never used

BrainstemTypeOK ==
    /\ organ_pool \in [Slots -> OrganTask]
    /\ next_task_id \in 0..(TaskIdWord - 1)
    /\ head_organ \in Slots \cup {NULL}
    /\ current_state \in HomeostasisState
    /\ circadian_clock \in 0..(CycleDuration - 1)
    /\ body_hormones \in Hormones
    /\ walk \in Slots \cup {NULL}
    /\ signals \in 0..MaxSignals
    /\ inits \in 0..MaxInits
    /\ late \subseteq Slots

----------------------------------------------------------------------------
(* The list *)

(* The tasks a walk from the head along the next pointers comes to: the     *)
(* ones in every set that has the head and is closed under next.            *)
Closed(C, pool) == \A i \in C : pool[i].next \in C \cup {NULL}

Linked(pool, head) ==
    {i \in Slots : /\ head # NULL
                   /\ \A C \in SUBSET Slots : head \in C /\ Closed(C, pool) => i \in C}

----------------------------------------------------------------------------
(* What set_state does to one task *)

CortexShare(state) ==
    CASE state = RELAXED -> 80 [] state = VIGILANT -> 50 [] OTHER -> 5

ImmuneShare(state) ==
    CASE state = RELAXED -> 10 [] state = VIGILANT -> 40
      [] state = COMBAT -> 90 [] OTHER -> 95

(* A coma leaves the cortex its share and stops it; only RELAXED wakes *)
Redistributed(task, state) ==
    [task EXCEPT
        !.current_cpu_share =
            CASE task.type = "CORTEX" /\ state # SURVIVAL -> CortexShare(state)
              [] task.type = "IMMUNE" -> ImmuneShare(state)
              [] OTHER -> @,
        !.is_sleeping =
            IF state = RELAXED THEN FALSE
            ELSE IF state = SURVIVAL /\ task.type = "CORTEX" THEN TRUE ELSE @]

PoolInState(pool, head, state) ==
    [i \in Slots |-> IF i \in Linked(pool, head) THEN Redistributed(pool[i], state)
                     ELSE pool[i]]

(* oo_scheduler_set_state *)
SetState(state) ==
    /\ organ_pool' = IF state = current_state THEN organ_pool
                     ELSE PoolInState(organ_pool, head_organ, state)
    /\ current_state' = state
    /\ late' = IF state = current_state THEN late ELSE {}

FreeSlots == {i \in Slots : organ_pool[i].task_id = 0}

(* oo_scheduler_register_organ: the first free slot, at the head of the list *)
Register(type) ==
    /\ FreeSlots # {}
    /\ LET i == CHOOSE k \in FreeSlots : \A j \in FreeSlots : k <= j
       IN  /\ organ_pool' = [organ_pool EXCEPT ![i] =
                 [task_id |-> next_task_id, type |-> type,
                  current_cpu_share |-> IF type = "VITAL" THEN 100 ELSE 10,
                  is_sleeping |-> FALSE, next |-> head_organ]]
           /\ head_organ' = i
           /\ late' = late \cup {i}
    /\ next_task_id' = (next_task_id + 1) % TaskIdWord

----------------------------------------------------------------------------
(* The operations *)

(* Mutant: ids are counted from 0 *)
FirstTaskIdZero == 0

FirstTaskId == 1

(* The statics of the program, and oo_scheduler_init *)
BrainstemInit ==
    /\ organ_pool = [i \in Slots |->
          [task_id |-> 0, type |-> "CORTEX", current_cpu_share |-> 0,
           is_sleeping |-> FALSE, next |-> NULL]]
    /\ next_task_id = FirstTaskId
    /\ head_organ = NULL
    /\ current_state = RELAXED
    /\ circadian_clock = 0
    /\ body_hormones = [adrenaline |-> 0, melatonin |-> 0]
    /\ walk = NULL
    /\ signals = 0
    /\ inits = 0
    /\ late = {}

(* oo_scheduler_init once more: ids, clock and hormones are kept *)
SchedulerInit ==
    /\ walk = NULL
    /\ inits < MaxInits
    /\ inits' = inits + 1
    /\ head_organ' = NULL
    /\ current_state' = RELAXED
    /\ organ_pool' = [i \in Slots |-> [organ_pool[i] EXCEPT !.task_id = 0]]
    /\ late' = {}
    /\ UNCHANGED <<next_task_id, circadian_clock, body_hormones, walk, signals>>

(* The state is set between two heartbeats *)
Command(state) ==
    /\ walk = NULL
    /\ SetState(state)
    /\ UNCHANGED <<next_task_id, head_organ, circadian_clock, body_hormones, walk,
                   signals, inits>>

RegisterOrgan(type) ==
    /\ walk = NULL
    /\ Register(type)
    /\ UNCHANGED <<current_state, circadian_clock, body_hormones, walk, signals, inits>>

(* What the end of a cycle makes of the state: an emergency goes on *)
Turns(state) ==
    CASE state = RELAXED -> VIGILANT [] state = VIGILANT -> RELAXED [] OTHER -> state

TurnedHormones(state) ==
    CASE state = RELAXED  -> [adrenaline |-> 50, melatonin |-> 0]
      [] state = VIGILANT -> [adrenaline |-> 0, melatonin |-> 200]
      [] OTHER -> body_hormones

(* Mutant: a low melatonin wakes the cortex *)
ModulatedWaking(task, hormones) ==
    [task EXCEPT !.is_sleeping = IF task.type = "CORTEX" THEN hormones.melatonin > 150 ELSE @]

(* The hormones act on every task of the list, each beat *)
Modulated(task, hormones) ==
    [task EXCEPT
        !.current_cpu_share =
            IF task.type = "IMMUNE" /\ hormones.adrenaline > 150 THEN 90 ELSE @,
        !.is_sleeping =
            IF task.type = "CORTEX" /\ hormones.melatonin > 150 THEN TRUE ELSE @]

(* oo_scheduler_heartbeat up to the loop that runs the organs.  The         *)
(* globules it absorbs are dropped.                                         *)
Beat ==
    /\ walk = NULL
    /\ signals' = IF signals > AbsorbMax THEN signals - AbsorbMax ELSE 0
    /\ circadian_clock' = (circadian_clock + 1) % CycleDuration
    /\ LET turned   == circadian_clock' = 0
           state    == IF turned THEN Turns(current_state) ELSE current_state
           hormones == IF turned THEN TurnedHormones(current_state) ELSE body_hormones
           shared   == IF state = current_state THEN organ_pool
                       ELSE PoolInState(organ_pool, head_organ, state)
       IN  /\ current_state' = state
           /\ body_hormones' = hormones
           /\ organ_pool' = [i \in Slots |->
                 IF i \in Linked(organ_pool, head_organ) THEN Modulated(shared[i], hormones)
                 ELSE shared[i]]
           /\ late' = IF state = current_state THEN late ELSE {}
    /\ walk' = head_organ
    /\ UNCHANGED <<next_task_id, head_organ, inits>>

Runs(i) == ~organ_pool[i].is_sleeping /\ organ_pool[i].current_cpu_share > 0

(* The heartbeat passes one task.  If it runs, its entry point may return,  *)
(* set the state or register an organ; the walk then goes on from it.       *)
Run ==
    /\ walk # NULL
    /\ \/ UNCHANGED <<organ_pool, next_task_id, head_organ, current_state, late>>
       \/ Runs(walk) /\ \E s \in HomeostasisState :
             SetState(s) /\ UNCHANGED <<next_task_id, head_organ>>
       \/ Runs(walk) /\ \E t \in OrganType : Register(t) /\ UNCHANGED current_state
    /\ walk' = organ_pool'[walk].next
    /\ UNCHANGED <<circadian_clock, body_hormones, signals, inits>>

(* A globule for the kernel arrives on the bus *)
Signal ==
    /\ signals < MaxSignals
    /\ signals' = signals + 1
    /\ UNCHANGED <<organ_pool, next_task_id, head_organ, current_state, circadian_clock,
                   body_hormones, walk, inits, late>>

BrainstemNext ==
    \/ SchedulerInit
    \/ \E s \in HomeostasisState : Command(s)
    \/ \E t \in OrganType : RegisterOrgan(t)
    \/ Beat
    \/ Run
    \/ Signal

BrainstemSpec == BrainstemInit /\ [][BrainstemNext]_schedulerVars

(* An entry point returns, and the loop goes on *)
BrainstemFairSpec == BrainstemSpec /\ WF_schedulerVars(Run)

----------------------------------------------------------------------------
(* Properties *)

Registered == {i \in Slots : organ_pool[i].task_id # 0}

(* The list holds the registered organs and no other slot, and it ends:    *)
(* ids fall along it, so that no walk comes to a task twice.               *)
ListHoldsOrgans ==
    /\ Linked(organ_pool, head_organ) = Registered
    /\ \A i \in Registered :
          LET k == organ_pool[i].next
          IN  k # NULL =>
                 k \in Registered /\ organ_pool[k].task_id < organ_pool[i].task_id

(* The tasks are of their types and the list is whole *)
ListSound == BrainstemTypeOK /\ ListHoldsOrgans

(* Coma: while the state is SURVIVAL, a cortex that was there when it      *)
(* began sleeps, whatever the clock, the hormones, the other organs' entry *)
(* points and later registrations do.                                      *)
ComaHolds ==
    current_state = SURVIVAL =>
       \A i \in Registered \ late :
          organ_pool[i].type = "CORTEX" => organ_pool[i].is_sleeping

(* The shares are those set_state gives in the state, for every organ that *)
(* was registered when it was entered; oo_scheduler.h names other shares.  *)
SharesFollowState ==
    \A i \in Registered \ late :
       /\ organ_pool[i].type = "IMMUNE" =>
             organ_pool[i].current_cpu_share = ImmuneShare(current_state)
       /\ organ_pool[i].type = "CORTEX" /\ current_state # SURVIVAL =>
             organ_pool[i].current_cpu_share = CortexShare(current_state)

(* What oo_scheduler_set_state does for a state lasts as long as the state *)
(* does: neither the clock, the hormones nor other organs undo it.  Not    *)
(* what oo_scheduler.h says of the states, which the code does not do.     *)
StateObeyed == ComaHolds /\ SharesFollowState

(* Every heartbeat comes to the end of the list, also when entry points    *)
(* register organs while it is walking.                                    *)
BeatEnds == (walk # NULL) ~> (walk = NULL)
=============================================================================
