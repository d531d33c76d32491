# Operating Organism in TLA+

A verification development of the Operating Organism (OO): TLA+ modules
translated from the source, TLC configurations that check them on small
instances, and TLAPS proofs of the properties that matter most for every value
of the constants. `PROJECT.json` ties every definition to the source lines it
stands for, every property to a mutant of the code that breaks it, and every
hazard to the properties that watch it.

## 1. The system

OO is a set of "organs", C libraries without an operating system beneath them,
that talk over one ring buffer, and of servers and agents on hosts around them.

| Component | Source | State | Operations | Interacts with |
|---|---|---|---|---|
| United bus | `united-baremetal` | ring of globules, write and oldest index, one read head per organ, capacity, counters | init, pump, absorb, gc, health, two broadcasts | every organ pumps into it and absorbs from it |
| Control planes | `control-planes` | registry of organ healths, runtime mode, the three planes' last status, tick counter | publish, evaluate, reflex, strategy, autonomy, tick, telemetry | organs publish; the tick broadcasts the mode on the bus |
| Vital life loop | `vital-baremetal` (`life_loop.c`, `consciousness_fsm.c`, `nociception.c`, `energy_metabolism.c`, `vital_persistence.c`, `uefi_entry.c`) | consciousness, circadian phase, pulse, energy pool, budgets, saved pulse | heartbeat, energy request and supply, restart | reads the guardian, asks the bus for globules, saves its pulse |
| Vital balance and memory | `vital-baremetal`: `homeostasis_regulator.c`, `epigenetics.c`, `dream_simulator.c`, `synapse_network.c`, `pineal_gland.c`, `metabolic_forth.c` | board of eight parameters, tension and force, personality and its checksum, nodes and links | inject, regulate, mark an experience, dream, restart, stimulate, tick | layers of the heartbeat |
| Other vital organs | guardian, vault, aura, entropy, unifier | private tables | called once per heartbeat or not at all | the life loop |
| Kernel scheduler | `kernel-baremetal` | pool and list of organ tasks, homeostasis state, circadian clock, hormones | init, register, set state, heartbeat | runs every organ's entry point, which may call back |
| Memory organ | `memory-baremetal` | cells, tissues, replicated blocks and words | allocate, free, purge, apoptosis, hedged read and write | allocator of the others |
| Bot core | `bot-baremetal/core` | DNA with its seal, pools of the territory, ring of anomalies | make, learn, back up, restore; observe, mark, baseline | other bot agents |
| Bot instinct | `bot-baremetal/instinct` | threat level, counters, ring of events | trigger, reset, order | callbacks of the owner |
| Bot immune swarm | `bot-baremetal/immune` | swarm level, agents, quarantine | process event, contain, regenerate | - |
| Bot adaptive layer and bridge | `bot-baremetal/adaptive`, `/oo_bridge` | pattern store, genomes, exported messages | learn, mutate, synchronise | files exchanged with other bots |
| Colony mesh | `colony-server/src/main.rs` | peer registry, gossip file, dedup cache, breakers | gossip loop, gossip and peer handlers | other colony servers, over HTTP |
| Colony storage | `colony-server/src/storage.rs` | fossil files, live registry, threat and mutation files, node profile | heartbeat handler, threat registry, status | organisms that send heartbeats |
| Sense, reflex, network, identity, evolution, swarm, shadow, dream, proprioception | one directory each | a few counters, a reflex table, a table of trusted signatures | one handler per organ | clients of the bus |
| Drivers, vocal organ, voice writer, desktop display, yamaoo, trial model, tools | one directory each | devices, files, pictures | - | outside the organism's control path |

The directories `llm-baremetal`, `oo-host`, `oo-dplus`, `oo-sim`, `oo-lab`,
`oo-model`, `oo-system`, `llm.c`, `llama2.c` and `bounty-helix` are submodules
with no content in this tree.

Where the difficulty lies, and what makes each part correct:

* **Bus**: one ring and many readers of different speed. An index that moves on
  one path only (override, contraction, collection) breaks another path much
  later. Correct: nothing accepted is lost, repeated or reordered; every pump is
  accounted for; absorb returns.
* **Control planes**: organs report in any order between ticks and the mode has
  hysteresis. Correct: a broken vital chain forces SAFE and a throttle, SAFE is
  left through RECOVERY only, no plane masks the reflex, and a healthy organism
  comes back to NORMAL.
* **Vital loop**: several layers ask for a change of consciousness in one beat
  and the matrix silently refuses some. Correct: a famine is felt, sleep
  restores, an alert subsides, budgets stay balanced, also across a restart.
* **Balance and memory of the vital organ**: bytes moved from both sides by long
  sequences of small steps, layers that contradict what earlier layers of the same
  beat announced, nodes that excite each other in one tick. Correct: nothing wraps,
  regulation heals without swinging, the force follows the tension, a node rests
  after it fired and learning never over-excites the network.
* **Scheduler**: entry points change the state and the list the heartbeat is
  walking. Correct: the list stays whole, a beat ends, and the clock and the
  hormones do not undo an emergency.
* **Memory organ**: several kinds of blocks in one bitmap. Correct: no cell has
  two holders, none is lost, and owners read back what they wrote.
* **Bot core and instinct**: pools and rings at their limits, 32-bit heads that
  turn over, a seal renewed by learning. Correct: an element is on the map once,
  suspicion outlives a baseline, a spoilt backup never becomes the agent, levels
  are entered along the matrix only, the history reads back in order.
* **Small organs**: handlers pump several globules and then halt the processor.
  Correct: the alert is in the stream before the halt, and what the lungs count
  is what the bus took.
* **Colony mesh and storage**: a peer is a name, an address and a process, three
  things that need not agree; timeouts race handlers, retries and relays duplicate,
  writes fail or are cut short, servers restart from files. Correct: an envelope
  reaches everyone within its hops, and is stored no more often than the dedup
  window and its lifetime allow; rounds end; a fault costs the archive at most one
  record.

## 2. Modules

| Module | Models | Used by |
|---|---|---|
| `BloodFlow` | abstract: one FIFO per organ, no ring | instantiated by `UnitedBus` |
| `UnitedBus` | the ring, `united_bus.c` | `UnitedBusProofs`, `MCUnitedBus`, `Organs` |
| `Organs` | the small organs, composed with the bus | `OrgansProofs`, `MCOrgans` |
| `ControlPlanes` | registry, mode machine, planes, resolution, telemetry | `ControlPlanesProofs`, `MCKernel` |
| `VitalLoop` | consciousness, circadian rhythm, pain, metabolism, restart | `VitalProofs`, `MCVitalOrgan` |
| `Epigenome` | personality, checksum, dreams, restart | `VitalProofs`, `MCVitalOrgan` |
| `Homeostasis` | board of setpoints, tension and force | `VitalProofs`, `MCVitalOrgan` |
| `Synapses` | nodes, links, Hebbian learning | `VitalProofs`, `MCVitalOrgan` |
| `Brainstem` | the kernel scheduler | `BrainstemProofs`, `MCKernel` |
| `BioMemory` | cells, tissues and replicated blocks of the memory organ | `BioMemoryProofs`, `MCBioMemory` |
| `Territory`, `BotDna`, `Instinct` | the bot's map, its DNA, its threat levels | `BotProofs`, `MCBotCore`, `MCBotDna` |
| `ColonyMesh` | gossip between colony servers | `ColonyProofs`, `MCColonyMesh`, `MCColony` |
| `ColonyRegistry` | the archives of one colony server | `ColonyProofs`, `MCColony` |
| `...Proofs` | theorems and lemmas of a component | - |
| `MC...` | routes, topologies and budgets for TLC | the `.cfg` files |

A definition whose comment begins with "Mutant:" is a plausible bug in the
definition below it; no specification uses it.

`MCBotCore`, `MCKernel`, `MCVitalOrgan` and `MCColony` check several components
that share no state (or, in `MCVitalOrgan`, one value that another only reads).
Interleaving them would multiply the states without a new case, so a variable
`focus`, chosen at the start, says which of them moves in a behaviour; the
components that stand still satisfy their invariants in their initial states, and
each action property is about the variables of its own component.

### UnitedBus

Variables are the fields of the static `bus` structure; `call` is the frame of
the absorb call in progress. The firmware is single threaded, so pump, gc and
absorb exclude each other, but absorb is a loop whose exit condition is not
obvious, and it takes one step per iteration: `Absorb` (prologue), `AbsorbStep`
(one pass), `AbsorbReturn` (the head is stored). `PumpRefused` and
`PumpAccepted` are the outcomes of `united_bus_pump`: congestion, the override
by a priority globule, the blood-brain barrier, dilation and contraction.
Payloads are left out: routing does not read them. `MaxPumps` bounds the
exploration.

### Organs

The composition of the bus with its clients. A handler runs to its end on the
one stack: `handler` holds the globules it still has to pump and the state it
leaves the processor in; `Emit` pumps one of them, and every other call waits.
`cpu` tells a single `hlt` (until an `Interrupt`) from the endless one of
`shadow_simulate_death`. The senses, the lungs, the reflexes, the thymus with
its two clients, proprioception and the dream daemon are one action each. A
handler that leaves its globule's source byte unset takes it from `Strays`.

### ControlPlanes

`health` is the registry (`Absent` until the first report), `mode` the runtime
mode, `modeSignal` the last mode broadcast. `Tick` is the whole of
`control_tick`: mode, reflex, strategy, autonomy, resolution, telemetry, in that
order and each from the values the code hands it. Thresholds are the code's own
(40, 75, 85, 90). The byte layout of telemetry, the mode organs report with
their health and heartbeat counters are left out: no decision reads them.

### VitalLoop

`Heartbeat` composes the layers of `vital_eternal_heartbeat` in the code's
order as a chain `m1`, `m2`, `m3` of the consciousness, so that each layer sees
what the earlier one left. Periods and rates are constants with the code's
values in their comments; runs scale them down and keep their order. The pulse
is folded back by `Period` once it reaches twice that, which keeps it finite
and preserves the only thing read from it, its distance to multiples of
`SaveEvery` and to the phase's start. The agony layer, the only way into
SURVIVAL, needs a board that is not viable; `Homeostasis!RegulationHeals` shows
that no regulated board is, so the layer is left out here.

### Epigenome, Homeostasis, Synapses

`Epigenome` keeps the code's arithmetic: a bias moved by 1, 2, 3 or 5, a
resilience that softens later traumas, and a checksum that is the XOR of six
fields. The journal's entries are left out, and the checksum does not cover them.
The operator `^` of the code is the constant `BitXor`, which `MCVitalOrgan` binds to
the bitwise one. Export and import are not actions: their only callers
(`vital_persistence.c:59` and `:89`) offer 512 bytes for a structure of 4120, and
both functions return at once. `EpigenomeAssumption` states the two sizes, so
`Restart` begins with a virgin memory. (In `src` nothing calls
`vital_persistence_init`; `VitalLoop` takes saving to be enabled, which is the case
in which a restart has something to restore: its pulse.)

`Homeostasis!BoardBeat` is one beat of the layers that move the tension, in the
order of `life_loop.c`, and the regulation of the board; `Shaken` is what a
violation of the integrity in layer 15 makes of the personality before the last
layer reads it. The real-time clock's encodings are `Hours`. `Synapses!Tick` is
layer 9 of the heartbeat: `synapse_propagate` visits nodes in order, each seeing what
earlier ones did to it, then `synapse_hebbian_learning` strengthens, weakens and
scales the links.

### Brainstem

A heartbeat is one `Beat` (clock, hormones, the globules of the bus) and one
`Run` for each task of the list, because an entry point may itself register an
organ or change the state. The list is kept as the code keeps it, by `next` in a
pool. `SchedulerInit` models a second call of the initialisation, which resets
the pool and not `next_task_id`. Shares, sleep and the effect of SURVIVAL are those
of `oo_scheduler_set_state`; `oo_scheduler.h` announces others (section 4).

### BioMemory

`bitmap` is `cell_bitmap`, `memory` the bytes behind it, `table` the array
`allocations` of `hedged_malloc.c`. A pointer is the index of the cell it points
to; with `ZeroBase` the address of cell 0 is NULL, as it is until
`bio_mem_init` sets `mem_base`. `held` has no counterpart in the code: it is
what the callers hold and last wrote, and the actions that take a block take it
from there, which states the callers' side of the contract (a tissue is purged
with the size it was asked for, `bio_consolidate_memory` is used on one cell, a
replicated block is freed with `hedged_free`). Read latencies enter only through
the replica they make `hedged_read` prefer.

### Territory, BotDna, Instinct

`Territory` has one action for an observation of something known and one for
something new, per pool; a full pool refuses silently. The ring of anomalies
keeps its 32-bit head (`AnomalyWord`). `BotDna` models the digest as the fields
it was computed from, and lets bytes of the agent and of its backup change, those
the code hashes (`Spoil`) as well as the prime directives (`Meddle`) and
`is_healthy` (`Flag`), which lie behind the hash and are not under it.
`Instinct` has the code's whole table of triggers, its matrix, and the callback a reaction makes.

### ColonyMesh

The code knows a peer by its `peer_id`, reaches it at an `address`, and relates
neither to the process that answers: a node is listed under its own `node_id` (a
random UUID by default), under whatever name a bootstrap list gives it, or under
both. The model keeps the three apart: `Names`, `Addresses` and `Nodes`, with
`NodeId`, `Bind` (the `COLONY_BIND` a node puts into its envelopes) and `Host`, which
says who answers at an address *for a given caller*, because `0.0.0.0:8080` is the
caller's own host. `Heard` is `register_peer` with its replacement of the address,
`NewTask` leaves out the two names the code compares and nothing else. So a node's own
gossip may come back to it under another name, and the model lets it.

`tasks` are the running `send_gossip_to_peers` calls, `wire` the requests on
the way and `handlers` those between the two locks of `handle_mesh_gossip`.
`Timeout` covers the sender's five seconds: the request is lost, still on its
way, or still being handled, and the retry may overtake it. A line of the gossip file
that a failing write or a crash cuts short (`LogCut`, `Halves`) stays open and is
continued by the next append; lines that do not parse are skipped when `Restart`
rebuilds the dedup cache (`LoadSeen`). A crash while `write_json` runs leaves a
registry that reads as empty. Two clocks are kept apart as the code keeps them: ages in
the handler come from truncated differences, ages in the cache from differences of
truncated seconds (`Second` ticks make a second). Signatures are keys: each hop signs
anew. Assumed: the nodes' clocks agree, and names are ASCII (the reload ends at a line
cut within a character of several bytes). Evicting idle registry entries is folded into
reading them (`KnownPeers`).

### ColonyRegistry

`job` is the heartbeat being stored with the writes it has left. A line of a
file holds the records written into it whole and whether it parses; `CutShort`
gives what an interrupted `writeln!` may leave: nothing, a part of the record,
or the record without its end of line, which the next append continues. A JSON
file that is cut short reads as empty (`Unreadable`), except the node profile,
which ends the start. A part of a record that is cut inside a character of
several bytes would make `get_threat_registry` fail altogether; records are taken
to be cut between characters.

## 3. Runs

| Run | Instance | Shows |
|---|---|---|
| `bus_quiet` | two organs, ring of 3, six pumps, batches 1 and 4, no priority globules | FIFO per organ (refinement of `BloodFlow`), reported backlog covers every reader, absorb returns |
| `bus_dilated` (violation) | ring of 2 dilating to 4 | a contraction below the write index makes absorb loop for ever |
| `organs` | three readers, ring of 2 dilating to 3, four pumps, every handler | alert before halt and the lungs' account, through override, dilation, contraction and both refusals |
| `kernel` | planes: one vital organ and two others, reports around every threshold and one above 100; scheduler: two organs, a cycle of two beats, one re-initialisation, a globule for the kernel | the mode machine, the planes and their resolution, return to NORMAL; list, emergency and shares, end of every beat |
| `vital_organ` | one organ, all layers, supplies, guardian, one restart; the code's numbers for memory and board, seventy experiences; two nodes and two links with scaled limits | energy and consciousness; personality, regulation, force, refractory period, damping |
| `memory` | three cells of two bytes, requests of one and three bytes, replica counts from none to one too many, two records | cells are exclusive and none is lost, records follow blocks, data is read back |
| `bot_core` | two pids, pools of one or two, rings of two whose head turns over after four; two roles and decay; triggers on both sides of their thresholds | map, seal of the hashed bytes and backup, levels, history |
| `dna_directives` (violation) | the same agent and backup | an agent with changed prime directives verifies |
| `mesh_line` | line of three nodes with routable addresses, one listed under another name, a dead entry whose breaker opens, a key rotation; two envelopes, cache of one entry, one timeout | dissemination although one node refuses another's key and the cache is cut; rounds end |
| `mesh_replay` | two nodes and a client that repeats itself, half-second clock, window equal to the maximum age, retries, a late request, a failing write with a torn line, a crash; the archive with two organisms, two threats, four heartbeats and two faults | copies bounded by the windows in a lifetime; archives across faults |
| `mesh_disk` (violation) | two nodes, a failing write | an id is suppressed although it was never stored |
| `mesh_wildcard` (violation) | two nodes that bind `0.0.0.0:8080` | after it was gossiped to, a node posts to itself and its gossip stops spreading |

**Bounds.** A ring of 2 or 3 slots with more pumps than slots wraps, fills,
refuses, and lets a reader lag a whole ring; a dilation and its contraction fit
into four pumps. One vital and two non-vital organs let mean and worst health
disagree in every way the thresholds tell apart. Three nodes in a line are the
least in which a relay is needed; two with a client are the least in which a late
request and a repetition meet a restart. `mesh_replay` has the proportions of the
default configuration: a window as long as an envelope is fresh, with instants within
each second, so that the two truncations disagree and a second copy is really stored.
`TwoFaults` has two of a timeout, a failing write and a crash in one behaviour.
Two attempts per post (`Attempts`) give every post a retry. `MaxCopies` lets its client
go on until a third copy is stored, one above the bound. `MetEarly` keeps
introductions by `POST /mesh/peer` to the first instant or before the crash: later ones
only change the time of an entry. Two faults and four heartbeats are the least in which
a torn line swallows a record, a second one is torn, and the vote is still decided. In
the memory organ the bitmap and the table both fill up, blocks end inside a cell and on
its edge, and a freed record is replaced by the last one. Vital periods keep the order
of the code's: a dream is shorter than a phase, an alert shorter than a dream, two
phases as long as idleness. Fifty triumphs or traumas take the personality to either
end of its byte; `MostlyOne` leaves out lives that mix both kinds more than once, which
move it less and which `TemperamentKept` covers. A cycle of two beats has a night and a
day. Bot pools of one and two elements fill, and rings of two with heads of four turn
over twice. `FewOrgans` bounds trusts, reflexes and frames used together.

**Fairness.** `UnitedBus!FairSpec`: an absorb call that has begun goes on, since
nothing pre-empts it. `MCKernel!KernelSpec`: the control tick is driven by a timer
(`Governs(Tick)`); an entry point returns and the loop over the list goes on
(`Schedules(Run)`), but that a heartbeat begins is not assumed.
`MCVitalOrgan!OrganSpec`: `efi_main` beats in an endless loop (`Lives(Beat)`).
`ColonyMesh!FairSpec`: the runtime polls each node's send calls, its connections and
the timers of posts that can no longer be answered; gossip rounds, other timeouts,
failing writes, crashes and client posts are never fair.
`MCColonyMesh!LineSpec` is that with servers that stay up, since a crash loses the calls
of its node and with them what they had to spread.

**Deadlock** is not checked in the runs that end by a budget or in which the
system may really stop (`organs`: the processor is halted for ever; the archive:
a torn profile; the mesh and the bot: budgets of envelopes, observations and triggers).

## 4. Findings

Four runs that TLC refutes, each against a line of the repository (quoted in
`PROJECT.json`):

* `bus_dilated`: the absorb loop that does not end after a contraction;
* `mesh_disk`: the gossip id that is marked before it is stored;
* `mesh_wildcard`: `register_peer` takes over the sender's `COLONY_BIND`
  (`storage.rs:137`), which the README and the deployed service set to
  `0.0.0.0:8080`. The next rounds of whoever heard it go to its own host, where they
  are duplicates, and no longer to the peer. `mesh_line` therefore has routable
  addresses. In the run the peer is bootstrapped under its `COLONY_NODE_ID`;
  with the random default it has a second entry, which keeps the bootstrap address, and
  gossip flows until that entry has been idle for an hour;
* `dna_directives`: `bot_dna.h:122` and `:133` and the manifesto call the prime
  directives sealed and the comment on `_bot_dna_compute_hash` has all but the hash and
  `_reserved` hashed; the code hashes what lies before `integrity_hash`, which leaves
  out the directives and `is_healthy`. `SealSound` and `DnaSealSound` speak of the
  hashed bytes only.

Where the modules follow the code against another text of the repository:

* *Scheduler.* `oo_scheduler.h:8-11` gives the cortex 90 % in RELAXED, shares 50/50 in
  VIGILANT, and has every process that is not vital killed in SURVIVAL.
  `oo_scheduler_set_state` gives 80 to the cortex and 10 to the immune organs in
  RELAXED, 50 and 40 in VIGILANT, 5 and 90 in COMBAT; in SURVIVAL it puts only the
  cortex to sleep and gives 95 to the immune organs. `StateObeyed` and
  `SchedulerObeys` say that what the *code* sets lasts, and nothing of the header.
* *Epigenetics.* `epigenetics.c:34` has the checksum detect a corruption of the
  journal, which it does not cover; `:28` counts a generation at each reboot and `:9`
  lets memories outlive one, but every restart begins with a virgin memory (512 bytes
  of room for 4120). No property asks for either.
* *Gossip.* The colony's README describes the dedup window as a retention; with
  `max_age_s` fixed at 300 (`main.rs:295`) a window of 300 (default) admits an envelope
  twice, one of 120 (`README.md:44`) three times and one of 60 (`test_mesh.py:85`) five
  times. `ReplaysBounded` states that bound, and only a window above 300 gives
  once.

Met while modelling, without a run of its own:

* *Bus.* The override compares read heads with the write index, so an organ that
  lags a whole ring loses its backlog (`united_bus.c:44`).
* *Vital loop.* With the stand-alone build's proportions a famine keeps the
  organism from ever sleeping again, and sleep is what would end it. After a
  restart the pulse is restored and `phase_start_pulse` is not, so the first beat
  ends the dawn (`vital_persistence.c:86`).
* *Balance and memory.* The next generation's branch does not seal again. The alert of
  `homeostasis_regulator.c:72` and the agony of the life loop wait for values the
  regulation has just removed. A tension above 150 gains five more at each beat.
  A clock in 12-hour mode is misread. A node that fired keeps its activation, and
  one with a threshold above 127 never fires.
* *Scheduler.* The day after a night does not wake the cortex
  (`oo_scheduler.c:98`): only a command does. A cortex registered during SURVIVAL
  runs. Task ids are bytes that the initialisation does not reset: after 255
  registrations an organ has id 0 and its slot is given away while it is linked;
  `BrainstemAssumption` keeps the runs below that.
* *Memory organ.* At base 0 the address of the first cell is NULL and the cell is
  taken and lost (`bio_alloc.c:42`; `MemoryKept` assumes another base). Raising
  the replica count of `hedged_read.c` leaves the new replicas as they were;
  `bio_purge_infected_tissue` on a replicated block would leave its record;
  `bio_consolidate_memory` frees one cell whatever size it is given.
* *Bot.* The reaction to a trigger is that of the rule with the lowest level,
  against the comment (`instinct_layer.c:101`); a refused level is still recorded
  and announced; `bot_get_threat_level` reads a layer nothing triggers. A new
  program under a recycled pid inherits its status; a full pool refuses silently;
  `territory_verify_files` returns 0 whatever happened. Learning a pattern seals
  changed bytes; a spoilt backup
  destroys the sound agent it is restored over.
* *Small organs.* Frames of 64 bytes and more are red globules for the cortex,
  so the barrier refuses every one, reported as congestion. All keystrokes share
  one buffer and `sense_get_last_stimulus` returns another, always empty one. The
  trusted genome starts empty and `mutation.c` trusts only what is trusted
  already, so without the host every mutation is rejected; trusting something
  twice takes two entries, and a full genome ignores new ones.
* *Colony mesh.* Relays leave out the name of the node that minted the envelope and
  not the node (`main.rs:695`): one that is listed under a bootstrap name too gets its own
  gossip back, and only its cache stops it. The copy of an envelope that arrives first
  decides how far it travels (`main.rs:413`). An open breaker never closes: only a
  successful post resets the count (`main.rs:709`). A cache of 10 000 entries is cut by
  age and then cleared, and what was cut out is stored and relayed again
  (`main.rs:585`).
* *Colony storage.* A record continued into a torn line is lost although it was
  answered "ok" (`storage.rs:278`), also when the line was torn by the report of
  another threat: a threat whose every report is critical and answered may so be
  missing from the status page, and `CriticalSeen` weighs its reports against those
  of all threats; in the gossip file
  (`storage.rs:179`) a line so continued is skipped when the cache is reloaded, and the
  record has neither id. A torn `node.json` ends every later start. An
  older heartbeat replaces a newer one. `observer_count` counts records, not
  organisms (`models.rs:64`), and a tie between severities is decided by the order
  of a hash map.
* *Planes.* `organ_autonomy.c` announces the most urgent action and returns the
  first match.

## 5. Proofs

| Theorem | States | From |
|---|---|---|
| `UnitedBusProofs!BusSafety` | indices in range, every pump accounted for | `BusInv` |
| `UnitedBusProofs!QuietDelivery` | without priority globules the ring implements `BloodFlow` | `QuietInv` |
| `UnitedBusProofs!QuietPending` | the reported backlog covers every reader | `QuietInv` |
| `ControlPlanesProofs!PlanesSafety` | registry clamped, mode announced, reflex never masked | `PlanesInv` |
| `ControlPlanesProofs!SafeExit` | SAFE is left through RECOVERY only | `PlanesInv` |
| `ControlPlanesProofs!BreachIsAnswered` | a broken vital chain ends in SAFE with a throttle | `PlanesInv` |
| `ControlPlanesProofs!NormalIsHealthy` | a tick that ends in NORMAL found the chain alive and every other organ healthy | `PlanesInv` |
| `VitalProofs!VitalSafety` | types, budgets balanced, fasting means spent | `VitalInv` |
| `VitalProofs!FamineFelt` | a famine leaves the organism ALERT or FOCUSED | `VitalInv` |
| `VitalProofs!SleepIsRest` | a beat slept through ends with more energy | `VitalInv` |
| `VitalProofs!ForceIsTrue` | the force is the one the tension calls for | `BoardInv` |
| `VitalProofs!BeatsHeal` | every beat brings every parameter nearer to its target, never past it, and leaves the board viable | `BoardInv` |
| `VitalProofs!FiringRests` | a node fires only after it has rested | `NetInv` |
| `VitalProofs!ExcitationBound` | after a tick the sum of the links is within its limit and no weight wraps | `NetInv` |
| `VitalProofs!TemperamentKept` | personality in range and checksum right through every life (assuming `XorCounts`) | `EpiInv` |
| `BrainstemProofs!SchedulerList` | the list of organs stays whole | `SchedulerInv` |
| `BrainstemProofs!SchedulerObeys` | clock, hormones and registrations do not undo what `set_state` did | `SchedulerInv` |
| `BioMemoryProofs!MemorySafety` | no cell has two holders, the table follows the blocks | `MemInv` |
| `BioMemoryProofs!MemoryRecords` | one record for each replicated block and no other | `MemInv` |
| `BioMemoryProofs!MemoryKept` | away from address 0 no used cell is without a holder | `MemInv` and `NoLeak` |
| `BioMemoryProofs!MemoryReadsBack` | owners read back what they wrote (assuming `Countable`) | `MemInv` and `CopyInv` |
| `BotProofs!TerritoryMap`, `!TerritoryCode` | the map has every element once, its ring is in order; writable code is suspect through every baseline | `TerritoryInv` |
| `BotProofs!TerritoryTrust` | trust comes from a baseline only, suspicion stays | `TerritoryInv` |
| `BotProofs!DnaSealSound` | what verifies has the *hashed* bytes it was sealed with, or learned since; what does not had one changed or was never made | `DnaInv` |
| `BotProofs!DnaNotRevived` | a spoilt backup never becomes the agent | `DnaInv` |
| `BotProofs!InstinctRecord` | the history reads back in order | `InstinctInv` |
| `BotProofs!InstinctFlow` | levels are entered along the matrix | `FlowInv` |
| `BotProofs!InstinctClimbs` | a trigger raises the level by one step, never into CONFINEMENT | `FlowInv` |
| `OrgansProofs!OrgansAlarm`, `!OrgansLungs` | alert before halt, the lungs' account | `OrgansInv` |
| `ColonyProofs!MeshReplays` | copies of an envelope in one node's record: one for each dedup window in its lifetime (if the cache is always `Roomy`) | `ReplayInv` |
| `ColonyProofs!ArchiveKept` | a fault costs the archive at most one report; live entries are backed by the fossil record; outweighing alarms are seen | `ArchiveInv` |

All hold for every value of the constants that satisfies the named assumption of
the module (`BusAssumption`, `PlanesAssumption`, `VitalAssumption`,
`HomeostasisAssumption`, `SynapsesAssumption`, `EpigenomeAssumption`,
`BrainstemAssumption`, `MemoryAssumption`, `TerritoryAssumption`, `DnaAssumption`,
`InstinctAssumption`, `OrgansAssumption`, `MeshAssumption`, `RegistryAssumption`),
which TLC evaluates on every run. Three hypotheses are stated with the theorem that
needs them: `Countable` (no request needs more cells than a `uint32_t` counts; beyond
it the code really returns too small a block), `XorCounts` (`^` of two naturals is a
natural) and `[]Roomy` (the cache is never cut for its size; one that is forgets).
`MeshAssumption` relates neither the names, the addresses and the nodes to each other
nor the window to the maximum age, so `MeshReplays` holds for every configuration of
the repository. The type invariants of these modules, `ModeAnnounced` and `Accounting`
are proved and not also model-checked.

* **Bus.** `BusInv` adds the accounting equation to the types: the counters
  alone do not bound the next id. `QuietInv` adds `RingOK`: at its resting
  capacity, every reader stands on a slot between the oldest and the write
  index. The lemmas `RingGap`, `BacklogIsGap` and `SuccIsNext` trade the moduli
  for a distance; each action then keeps every reader's distance or changes it
  by one, and the refinement follows step by step (`AbsorbIteration` takes the
  head of one FIFO, an accepted pump appends to all).
* **Planes.** `PlanesInv` is the types with the two invariants. `RankValues` and
  `ResolveProtects` reduce the resolution to an order on decisions, and
  `PlaneDecisions` bounds what each plane may propose.
* **Vital loop.** `FastingMeansSpent` is inductive only with the types; the
  famine property also needs `MindOK`: of the nine states only DREAMING, AWARE,
  FOCUSED and ALERT are reachable, and from each of them a searing pain leads to
  ALERT, except from DREAMING, where it is refused, but where sleep has just
  given energy back.
* **Memory.** `Exclusive` alone is not inductive: `hedged_free` takes the size it
  gives back from the record and not from its caller. `MemInv` therefore adds
  `RecordsAgree`, and `Whole`: a block has as many cells as its release will
  compute, and at least one, so that two blocks never begin at the same cell and
  the search of the table finds a block's own record (`IndexFound`).
  `TakeExclusive`, `DropExclusive` and `SwapExclusive` are the three things an
  operation does to the blocks; `RemoveRecords` follows the record that moves.

  `ReadsBack` adds `CopyInv`: *every* replica has the data, not only the one
  `hedged_read` prefers, and all lie in the cells of their block; that two blocks
  then share no byte is arithmetic on their first cells and sizes (`Quotient`).
* **Board.** `BoardInv` puts every parameter on its scale. A correction is a
  truncated share of the distance, so the lemmas bound a quotient by its dividend
  from both sides; healing follows for each parameter apart.
* **Network.** A tick folds over nodes and links. The folds are unfolded to the
  function they `CHOOSE` (`FoldTrace`), and what holds after each node is shown by
  the set of the numbers up to which it holds. `NetInv` says that a node that
  recently fired is still refractory (`Rested`), so `FiringRests` holds whatever
  order nodes excite each other in; `SumsShrink` shows that the scaling takes the
  sum of the links below its limit in spite of the truncation of each.
* **Epigenetic memory.** `EpiInv` is the types with what every operation makes of a
  memory (`Tempered`). The lessons of a dream are a fold like those above.
* **Scheduler.** That the list is whole is not first-order: `Whole` says that every
  set that has the head and is closed under `next` has every organ, which each
  registration keeps. `IdsFresh` bounds the ids by the registrations, so that none
  comes round; `Calm` keeps the hormones from touching a share.
* **Bot.** The rings need the place of every entry, not only their number (`Ring`,
  `Kept`): the entry of event `t` lies at `t` modulo the ring's size although the
  head is a word that turns over. `SealedOnce` says what a seal that no longer
  matches still tells. `FlowInv` balances the entries of each level with the
  transitions.
* **Small organs.** `StackShape`: a handler that is going to halt has exactly one
  globule left, the alert.
* **Mesh.** Envelopes carry no history, so `ReplayInv` says that there is a
  function `birth` which every copy agrees with (`Shape`, `Genuine`). `Timed` counts the
  copies a node has accepted, stored or still at work, against the seconds that have
  passed since the birth: the k-th was not `Due` before k - 1 windows had gone by, and
  the last is still remembered by the cache unless it is so old that another may be
  accepted (`Paced`). A file that lost lines has fewer copies, later (`PacedLater`), which
  is how torn lines and restarts enter: what a line that no longer parses would have
  told the cache, the record does not count either. `SecondsApart` relates the two
  truncations of time.
* **Archive.** A line is *standing* (closed and parses), *spoilt* (closed and does
  not parse) or open. `Balanced` says of every set P of signals: what was answered
  for P stands or is paid for by a spoilt line; what votes was reported; and what
  stands against P together with the spoilt lines is at most what was reported and
  not answered for P, because the report that tore a line is never answered. The
  three are needed for sets and not only for threats, since `CriticalSeen` compares
  one severity with the complement. `Excused` charges each spoilt line to a fault.
  The attempt to prove `CriticalSeen` per threat failed for a good reason (section
  4); it is now stated, and checked with two threats, in the form that holds.

The library's induction theorems take an operator as parameter, which the provers
cannot instantiate. Where a recursive function or a fold occurs in a theorem, the
induction is written out over a set of numbers (`Climbing`, `FoldTrace`) or of
subsets (`SubsetRecursion`); RECURSIVE operators do not occur in these modules.

Only model-checked: liveness under fairness (`AbsorbReturns`,
`HomeostasisRegained`, `AlertSubsides`, `Spreads`, `BeatEnds`), which is out of
this prover's reach, and the four violations. Every invariant and action property of
a passing run has a theorem. With a cache that evicts, how often an envelope is
stored is neither claimed nor checked.

## 6. Mutants

Every property of a passing run has a mutant: a dropped guard, a swapped
comparison (`Fastest`), a missing reset (`RecycleFasting`,
`LoadSeenNothing`), a correction that is too coarse (`CorrectedCoarsely`), a
blind digest (`DigestBlind`), a wrong order (`ResolveLast`, `ReflexHaltsFirst`,
`WritesLiveFirst`), and so on. Each makes TLC refute its property in the same
run.

## 7. Not modelled

Drivers (port I/O), the voice writer and the desktop display (pure output), the
yamaoo lane (observation from the host), the trial model (numeric inference),
build, deployment and USB scripts, the submodules (absent). The immune swarm of
the bot does not compile at this commit (its agents build a `SwarmEvent` without
the `signature` field `swarm_mind.rs` declares); its threat matrix is that of
`threat_state.c`, which `Instinct` models. The quantum vault is compiled
and linked (`vital-baremetal/Makefile:63`); `oo_stubs.c` answers for the guardian and
defines a second `vital_quantum_sign`, which `--allow-multiple-definition` lets the
linker take. The answers of both are free inputs of the life loop. Hot
patching and camouflage write code and device state. The hedged word store and
the bot's Python layers are planned.

Within modelled parts: payloads, wording, counters kept for display, concurrent
callers of the bus (the firmware has one loop), device errors, words taught to
the metabolic Forth (nothing sends any).

## 8. Plan

1. Done: every module of section 2, and a theorem for every safety property that a
   passing run checks.
2. Left for proofs: the safety half of the liveness arguments (a measure that each
   step of absorb or of a walk along the list decreases), and the abstract
   counterpart of `BioMemory` as a refinement.
3. `HedgedRead`: the store of replicated words and its reconfiguration, against an
   abstract memory.
4. `GenomeSync`: pattern store, mutation, and exchange of genomes by files.
