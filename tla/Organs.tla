------------------------------- MODULE Organs -------------------------------
(***************************************************************************)
(* The small organs that live on the bus: the senses (sense-baremetal),    *)
(* the lungs (network-baremetal), the spinal cord (reflex-baremetal), the  *)
(* thymus (identity-baremetal) with its two clients (evolution, swarm),    *)
(* proprioception, the simulated death of shadow-baremetal and the dream   *)
(* daemon.  They share the ring of UnitedBus, the thymus and the processor.*)
(*                                                                         *)
(* A handler runs to its end on the one stack: the globules it pumps are   *)
(* kept in "handler" and pumped one per step, with every other call        *)
(* excluded, and the handler may end by halting the processor.             *)
(***************************************************************************)
EXTENDS UnitedBus, Functions

CONSTANTS
    Keys,       \* scan codes of the keyboard
    Weights,    \* the mutations offered to evolution_apply_mutation
    DnaOf,      \* the signature identity_calculate_dna gives each of them
    Senders,    \* the signatures that pheromones carry
    Native,     \* the signatures the host gives to identity_trust_dna
    Vectors,    \* interrupt vectors (0 .. 255), the three bound at init included
    Bindings,   \* the <<vector, action>> pairs bound after init
    Strays,     \* values found in the source byte that a handler leaves unset
    MaxDna      \* MAX_TRUSTED_DNA

PAIN     == 2
WATCHDOG == 3
THERMAL  == 4
IMMUNE   == 1
KERNEL   == 3
NETWORK  == 5
DREAM    == 7
REFLEX   == 8
POSTURE  == 9
SWARM    == 10
Actions  == {"none", "pain", "burn"}

ASSUME OrgansAssumption ==
    /\ DREAM \in Organs
    /\ DnaOf \in [Weights -> Native \union Senders]
    /\ {PAIN, WATCHDOG, THERMAL} \subseteq Vectors /\ Vectors \subseteq 0 .. 255
    /\ Bindings \subseteq Vectors \X Actions
    /\ Strays \subseteq 0 .. 254
    /\ MaxDna \in Nat

VARIABLES
    handler,    \* the globules still to pump and what the handler leaves the processor in
    cpu,        \* running, waiting (one hlt, until an interrupt) or dead (cli; hlt for ever)
    stimulus,   \* last_stimulus of the keyboard, the buffer every keystroke globule points to
    breaths,    \* global_stats.breath_rate
    frames,     \* history: the frames inhaled
    reflexes,   \* reflex_table
    status,     \* triggered_count and last_vector
    genome,     \* trusted_genome up to trusted_count
    asleep      \* is_sleeping of the dream daemon

organVars == <<handler, cpu, stimulus, breaths, frames, reflexes, status, genome, asleep>>
allVars == <<vars, organVars>>

Globule(t, s, o) == [type |-> t, source |-> s, target |-> o]
NoHandler == [todo |-> <<>>, halt |-> "running"]

OrgansInit ==
    /\ Init
    /\ handler = NoHandler
    /\ cpu = "running"
    /\ stimulus = "none"
    /\ breaths = 0
    /\ frames = 0
    /\ reflexes = [v \in Vectors |-> CASE v = PAIN -> "pain"
                                       [] v \in {WATCHDOG, THERMAL} -> "burn"
                                       [] OTHER -> "none"]
    /\ status = [triggered |-> 0, last |-> 0]
    /\ genome = <<>>
    /\ asleep = FALSE

\* Nothing is on the stack and the processor executes.
Idle == cpu = "running" /\ handler = NoHandler /\ call = NoCall

\* A handler that pumps the globules ps and then leaves the processor in state h.
Handle(ps, h) ==
    /\ Idle
    /\ pumps + Len(ps) <= MaxPumps
    /\ handler' = [todo |-> ps, halt |-> h]
    /\ UNCHANGED vars

\* A globule made of a frame: an alert with a stray source is none.
Frame(p) == p.source = NETWORK /\ p.type # "WHITE"

\* Mutant: a frame counts as a breath whatever united_bus_pump answered.
BreathAlways(p) == breaths' = IF Frame(p) THEN breaths + 1 ELSE breaths

\* network_inhale counts the frames that united_bus_pump accepted.
Breath(p) ==
    breaths' = IF Frame(p) /\ nextId' # nextId THEN breaths + 1 ELSE breaths

\* The next united_bus_pump of the handler in progress, and its return.
Emit ==
    /\ handler.todo # <<>>
    /\ Pump(Head(handler.todo))
    /\ Breath(Head(handler.todo))
    /\ IF Len(handler.todo) = 1
       THEN handler' = NoHandler /\ cpu' = handler.halt
       ELSE handler' = [handler EXCEPT !.todo = Tail(@)] /\ UNCHANGED cpu
    /\ UNCHANGED <<stimulus, frames, reflexes, status, genome, asleep>>

----------------------------------------------------------------------------
\* Senses.  Every keystroke writes the one buffer, globules still unread included.
Keystroke(k) ==
    /\ Handle(<<Globule("RED", SENSORY, CORTEX)>>, "running")
    /\ stimulus' = k
    /\ UNCHANGED <<cpu, breaths, frames, reflexes, status, genome, asleep>>

\* sense_update_retina and sense_transduce_serial pump no address, only a size.
Retina ==
    /\ Handle(<<Globule("RED", SENSORY, CORTEX)>>, "running")
    /\ UNCHANGED <<cpu, stimulus, breaths, frames, reflexes, status, genome, asleep>>

Serial == Retina

Timer ==
    /\ Handle(<<Globule("YELLOW", SENSORY, BROADCAST)>>, "running")
    /\ UNCHANGED <<cpu, stimulus, breaths, frames, reflexes, status, genome, asleep>>

\* Lungs: a frame under 64 bytes is control for the kernel, a longer one is data
\* for the cortex, which the barrier stops.
Inhale(control) ==
    /\ Handle(IF control THEN <<Globule("YELLOW", NETWORK, KERNEL)>>
                         ELSE <<Globule("RED", NETWORK, CORTEX)>>, "running")
    /\ frames' = frames + 1
    /\ UNCHANGED <<cpu, stimulus, breaths, reflexes, status, genome, asleep>>

----------------------------------------------------------------------------
\* Spinal cord.
Burn == <<Globule("YELLOW", REFLEX, BROADCAST)>>

\* reflex_bind_action and reflex_watchdog_kick (which resets a counter nobody reads).
Bind(v, a) ==
    /\ Idle
    /\ reflexes' = [reflexes EXCEPT ![v] = a]
    /\ UNCHANGED <<vars, handler, cpu, stimulus, breaths, frames, status, genome, asleep>>

\* Mutant: the processor is halted before the alert is sent.
ReflexHaltsFirst(v) ==
    /\ reflexes[v] # "none"
    /\ status' = [triggered |-> status.triggered + 1, last |-> v]
    /\ IF reflexes[v] = "pain"
       THEN Handle(<<Globule("WHITE", REFLEX, BROADCAST)>>, "running") /\ cpu' = "waiting"
       ELSE Handle(Burn, "running") /\ UNCHANGED cpu
    /\ UNCHANGED <<stimulus, breaths, frames, reflexes, genome, asleep>>

\* reflex_trigger: pain broadcasts an alert and executes one hlt, a burn broadcasts
\* a throttle signal.
Reflex(v) ==
    /\ reflexes[v] # "none"
    /\ status' = [triggered |-> status.triggered + 1, last |-> v]
    /\ IF reflexes[v] = "pain"
       THEN Handle(<<Globule("WHITE", REFLEX, BROADCAST)>>, "waiting")
       ELSE Handle(Burn, "running")
    /\ UNCHANGED <<cpu, stimulus, breaths, frames, reflexes, genome, asleep>>

\* reflex_thermal_check above 85 degrees: alert, SAFE mode, throttle.
Overheat ==
    /\ Handle(<<Globule("WHITE", REFLEX, BROADCAST), Globule("YELLOW", REFLEX, BROADCAST)>>
                \o Burn, "running")
    /\ UNCHANGED <<cpu, stimulus, breaths, frames, reflexes, status, genome, asleep>>

\* An interrupt ends the hlt of reflex_on_pain; simulated death has disabled them.
Interrupt ==
    /\ cpu = "waiting"
    /\ cpu' = "running"
    /\ UNCHANGED <<vars, handler, stimulus, breaths, frames, reflexes, status, genome, asleep>>

\* shadow_simulate_death: a kill signal with no source, then cli and hlt for ever.
SimulateDeath(s) ==
    /\ Handle(<<Globule("WHITE", s, BROADCAST)>>, "dead")
    /\ UNCHANGED <<cpu, stimulus, breaths, frames, reflexes, status, genome, asleep>>

\* proprioception_check_posture, a fault found.  The canary lies below the stack
\* pointer, where any later call may have overwritten it.
PostureFault ==
    /\ Handle(<<Globule("WHITE", POSTURE, BROADCAST)>>, "running")
    /\ UNCHANGED <<cpu, stimulus, breaths, frames, reflexes, status, genome, asleep>>

----------------------------------------------------------------------------
\* Thymus.
IsSelf(sig) == sig \in Range(genome)

\* identity_is_self of a foreigner tells the immune organ, with no source.
Foreign(s) == <<Globule("WHITE", s, IMMUNE)>>

Trusted(sig) == IF Len(genome) < MaxDna THEN Append(genome, sig) ELSE genome

\* identity_trust_dna, called by the host.
TrustDna(sig) ==
    /\ Idle
    /\ genome' = Trusted(sig)
    /\ UNCHANGED <<vars, handler, cpu, stimulus, breaths, frames, reflexes, status, asleep>>

\* evolution_apply_mutation: what is already trusted is trusted once more (and takes
\* one more entry), anything else is rejected.
ApplyMutation(w, s) ==
    \/ /\ Idle
       /\ IsSelf(DnaOf[w])
       /\ genome' = Trusted(DnaOf[w])
       /\ UNCHANGED <<vars, handler, cpu, stimulus, breaths, frames, reflexes, status, asleep>>
    \/ /\ ~IsSelf(DnaOf[w])
       /\ Handle(Foreign(s), "running")
       /\ UNCHANGED <<cpu, stimulus, breaths, frames, reflexes, status, genome, asleep>>

\* swarm_on_pheromone_received: the antibody of a trusted peer goes to the immune organ.
Pheromone(sig, s) ==
    /\ Handle(IF IsSelf(sig) THEN <<Globule("WHITE", SWARM, IMMUNE)>> ELSE Foreign(s),
              "running")
    /\ UNCHANGED <<cpu, stimulus, breaths, frames, reflexes, status, genome, asleep>>

----------------------------------------------------------------------------
\* Readers.  dream_baremetal_loop reads one byte behind the address of each yellow
\* globule; a broadcast has address 0, so the byte may be anything.
Read(o) ==
    /\ Idle
    /\ \E max \in Batches : Absorb(o, max)
    /\ UNCHANGED organVars

Reading == AbsorbStep /\ UNCHANGED organVars

ReadReturn ==
    /\ AbsorbReturn
    /\ asleep' \in IF call.organ = DREAM /\ \E g \in Range(call.out) : g.type = "YELLOW"
                   THEN BOOLEAN ELSE {asleep}
    /\ UNCHANGED <<handler, cpu, stimulus, breaths, frames, reflexes, status, genome>>

Collect ==
    /\ Idle
    /\ Gc
    /\ UNCHANGED organVars

OrgansNext ==
    \/ Emit
    \/ \E k \in Keys : Keystroke(k)
    \/ Retina
    \/ Serial
    \/ Timer
    \/ \E control \in BOOLEAN : Inhale(control)
    \/ \E b \in Bindings : Bind(b[1], b[2])
    \/ \E v \in Vectors : Reflex(v)
    \/ Overheat
    \/ Interrupt
    \/ PostureFault
    \/ \E sig \in Native : TrustDna(sig)
    \/ \E s \in Strays :
         \/ SimulateDeath(s)
         \/ \E w \in Weights : ApplyMutation(w, s)
         \/ \E sig \in Senders : Pheromone(sig, s)
    \/ \E o \in Organs \ {SENSORY} : Read(o)
    \/ Reading
    \/ ReadReturn
    \/ Collect

OrgansSpec == OrgansInit /\ [][OrgansNext]_allVars

----------------------------------------------------------------------------
\* Whenever the processor is halted, for a while or for ever, the alert that says so
\* is already in the stream and is its newest globule.
AlarmBeforeHalt ==
    cpu # "running" =>
      \E i \in Slots : /\ blood[i].id = nextId - 1
                       /\ blood[i].type = "WHITE"
                       /\ blood[i].target = BROADCAST

\* The breath rate counts the frames the bus took: a frame that is neither counted
\* nor still on the stack is one of the drops of the bus, and no frame is counted twice.
Inhaling == \E p \in Range(handler.todo) : Frame(p)
LungsAccounted ==
    LET done == frames - (IF Inhaling THEN 1 ELSE 0)
    IN  breaths <= done /\ done - breaths <= drops /\ breaths < nextId
=============================================================================
