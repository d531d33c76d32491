------------------------------ MODULE Epigenome ------------------------------
(***************************************************************************)
(* The epigenetic memory of the vital organ (epigenetics.c) and the dreams *)
(* that write to it (dream_simulator.c): scars and triumphs move the       *)
(* personality, and every experience seals the counters with a checksum.   *)
(*                                                                         *)
(* The journal's entries are left out; where the next one goes is kept.    *)
(* The checksum does not cover the journal, although the comment of        *)
(* epigenetics.c:34 says that it is there to detect its corruption.        *)
(*                                                                         *)
(* vital_persistence.c gives vital_epigenetic_export and                   *)
(* vital_epigenetic_import a buffer smaller than the structure, so both    *)
(* return at once: a save keeps nothing of the memory and a restart begins *)
(* with a virgin one, whatever epigenetics.c:9 and :28 say of memories and *)
(* generations that outlive a reboot.  That is an assumption on the two    *)
(* sizes here, and neither function is an action.                          *)
(***************************************************************************)
EXTENDS Integers

CONSTANTS
    BitXor(_, _),    \* the operator ^ of C on unsigned numbers
    Salt,            \* what the checksum starts from, 0x12345678
    MaxEvents,       \* MAX_EPIGENETIC_EVENTS, 256
    StructSize,      \* sizeof(oo_epigenetic_memory_t), 4120
    DnaRoom,         \* sizeof SomaDNA.epigenetic_data, 512
    Entropies,       \* the random numbers of the dreams
    MaxExperiences   \* bound of the model on total_experiences

VARIABLE memory      \* the structure of epigenetics.c

epigenomeVars == <<memory>>

Checksum(m) ==
    LET counters == BitXor(BitXor(BitXor(Salt, m.trauma), m.success), m.total)
    IN  BitXor(BitXor(BitXor(counters, m.bias), m.resilience), m.generation)

\* What the operations make of a memory: the personality never wraps around its byte,
\* the resilience tells how many traumas there were, and the checksum is that of the rest.
Tempered(m) ==
    /\ m.bias \in 1 .. 252
    /\ m.resilience = IF m.trauma < 200 THEN 50 + m.trauma ELSE 250
    /\ m.trauma + m.success <= m.total
    /\ m.head = m.total % MaxEvents
    /\ m.sum = Checksum(m)

Memories ==
    [trauma : Nat, success : Nat, total : Nat, bias : Nat, resilience : Nat,
     generation : 0 .. 255, head : Nat, sum : Nat]

\* The room in the organism's image is too small for a memory, as in the code.
ASSUME EpigenomeAssumption ==
    /\ {Salt, MaxEvents, StructSize, DnaRoom, MaxExperiences} \subseteq Nat
    /\ MaxEvents > 0 /\ Salt > 0
    /\ DnaRoom < StructSize
    /\ Entropies \subseteq Nat

Sealed(m) == [m EXCEPT !.sum = Checksum(m)]

Virgin ==
    Sealed([trauma |-> 0, success |-> 0, total |-> 0, bias |-> 128, resilience |-> 50,
            generation |-> 1, head |-> 0, sum |-> 0])

\* The static memory of a program that starts.
Blank == [trauma |-> 0, success |-> 0, total |-> 0, bias |-> 0, resilience |-> 0,
          generation |-> 0, head |-> 0, sum |-> 0]

\* vital_epigenetic_init over memory m: a valid memory that has lived would begin its next
\* generation (a uint8_t), anything else, and so every blank one, is wiped.
Reborn(m) ==
    IF m.sum = Checksum(m) /\ m.total > 0
    THEN [m EXCEPT !.generation = (@ + 1) % 256]
    ELSE Virgin

EpigenomeInit == memory = Reborn(Blank)

\* Mutant: the effective impact is taken off whatever the personality is.
ScarredUnguarded(m) ==
    [m EXCEPT !.trauma = @ + 1,
              !.bias = (@ - (IF 5 > m.resilience \div 25 THEN 5 - m.resilience \div 25 ELSE 1))
                         % 256,
              !.resilience = IF @ < 250 THEN @ + 1 ELSE @]

\* A trauma, softened by the resilience, which it strengthens.
Scarred(m) ==
    LET effective == IF 5 > m.resilience \div 25 THEN 5 - m.resilience \div 25 ELSE 1
    IN  [m EXCEPT !.trauma = @ + 1,
                  !.bias = IF @ > effective THEN @ - effective ELSE @,
                  !.resilience = IF @ < 250 THEN @ + 1 ELSE @]

Elated(m) == [m EXCEPT !.success = @ + 1, !.bias = IF @ < 250 THEN @ + 3 ELSE @]

\* vital_mark_experience, by the sign of the impact.
Marked(m, impact) ==
    LET noted == [m EXCEPT !.head = (@ + 1) % MaxEvents, !.total = @ + 1]
    IN  Sealed(IF impact < 0 THEN Scarred(noted)
               ELSE IF impact > 0 THEN Elated(noted) ELSE noted)

MarkExperience(impact) ==
    /\ memory.total < MaxExperiences
    /\ memory' = Marked(memory, impact)

----------------------------------------------------------------------------
\* dream_select_scenario: the severity of the dream a traumatised organism has.
Severity(trauma) ==
    CASE trauma > 200 -> 100
      [] trauma > 150 -> 95
      [] trauma > 100 -> 85
      [] trauma > 50  -> 70
      [] trauma > 20  -> 60
      [] OTHER        -> 50

\* dream_simulate: the survival rate, a uint8_t capped at 100, for entropy e.
SurvivalRate(severity, bias, e) ==
    LET base == 100 - severity \div (IF bias > 128 THEN 2 ELSE 3)
        rate == (base + (e % 20) - 10) % 256
    IN  IF rate > 100 THEN 100 ELSE rate

\* dream_apply_lessons: one experience per lesson of the dream.
Lessons(m, n, impact) ==
    LET after[k \in 0 .. n] == IF k = 0 THEN m ELSE Marked(after[k - 1], impact)
    IN  after[n]

\* Layer 8 of the heartbeat.
Dream(e) ==
    LET rate == SurvivalRate(Severity(255 - memory.bias), memory.bias, e)
    IN  /\ memory.total + rate \div 25 <= MaxExperiences
        /\ memory' = Lessons(memory, rate \div 25, IF rate > 70 THEN 1 ELSE -1)

\* vital_init after a reset; then vital_persistence_load has too few bytes for the import
\* and changes nothing.
Restart == memory' = Reborn(Blank)

EpigenomeNext ==
    \/ \E impact \in {-1, 0, 1} : MarkExperience(impact)
    \/ \E e \in Entropies : Dream(e)
    \/ Restart

EpigenomeSpec == EpigenomeInit /\ [][EpigenomeNext]_epigenomeVars

----------------------------------------------------------------------------
\* The personality never wraps around its byte, whatever mix of traumas, triumphs
\* and dreams it lives through, and the resilience tells how many traumas it had:
\* also after a dream and a restart.
TemperamentSound == Tempered(memory)
=============================================================================
