----------------------------- MODULE UnitedBus -----------------------------
(***************************************************************************)
(* The blood stream of the organism (united-baremetal/src/united_bus.c):   *)
(* one ring of globules, one write index (systole), one oldest index       *)
(* (diastole) and one read head per organ.  The ring dilates to its full   *)
(* volume on a white globule and contracts by one slot per other globule.  *)
(*                                                                         *)
(* The firmware is single threaded: pump, gc and absorb never overlap.     *)
(* absorb is a loop whose termination is not obvious, so it is modelled    *)
(* one iteration per step, with every other call excluded meanwhile.       *)
(***************************************************************************)
EXTENDS Integers, Sequences, FiniteSets

CONSTANTS
    Organs,     \* ids of the organs that read the bus (0 .. MAX_ORGANS - 1 in the code)
    Routes,     \* the <<source, target>> pairs they use, target 0xFF for a broadcast
    Types,      \* the globule types the organs of this instance pump
    Base,       \* resting capacity of the ring (1024)
    Volume,     \* BLOOD_VOLUME, the number of slots (2048)
    MaxPumps,   \* bound on the number of pumps explored
    Batches     \* the max_globules values callers pass to absorb

CORTEX    == 0
SENSORY   == 4
BROADCAST == 255
NoOrgan   == -1
AllTypes  == {"RED", "WHITE", "YELLOW", "GOLD", "SILVER", "PURPLE"}
Priority  == {"WHITE", "YELLOW"}

ASSUME BusAssumption ==
    /\ Organs \subseteq 0 .. 15
    /\ {CORTEX, SENSORY} \subseteq Organs
    /\ Routes \subseteq (0 .. 254) \X (0 .. 255)
    /\ Types \subseteq AllTypes
    /\ Base \in Nat /\ Volume \in Nat /\ MaxPumps \in Nat
    /\ 1 < Base /\ Base <= Volume
    /\ Batches \subseteq Nat

VARIABLES
    blood,      \* blood_stream: the slots
    capacity,   \* current_capacity
    systole,    \* heart_systole: the next slot written
    diastole,   \* heart_diastole: the oldest slot kept
    heads,      \* organ_read_heads
    nextId,     \* next_globule_id
    drops,      \* health.drops
    pumps,      \* health.total_pumps
    call        \* the absorb call in progress: organ, local head, out_buffer, max

vars == <<blood, capacity, systole, diastole, heads, nextId, drops, pumps, call>>

Slots == 0 .. Volume - 1

\* A globule as its sender fills it in; the payload plays no part in routing.
\* united_bus_broadcast_yellow and _white pump a priority globule to every organ.
Broadcasts == [type : Types \intersect Priority, source : Organs, target : {BROADCAST}]
Packets ==
    {[type |-> t, source |-> r[1], target |-> r[2]] : t \in Types, r \in Routes}
      \union Broadcasts

\* A globule in the ring: a packet stamped with its id, or the all-zero globule
\* of the static array where nothing was written yet.
Stamp(p, n) == [type |-> p.type, source |-> p.source, target |-> p.target, id |-> n]
Globules == {Stamp(p, n) : p \in Packets, n \in 1 .. MaxPumps}
Blank == [type |-> "BLANK", source |-> 0, target |-> CORTEX, id |-> 0]
Contents == Globules \union {Blank}

NoCall == [organ |-> NoOrgan, head |-> 0, out |-> <<>>, max |-> 0]
Calls == [organ : Organs \union {NoOrgan}, head : Slots, out : Seq(Contents), max : Nat]

----------------------------------------------------------------------------
\* The successor of a slot in the ring of the current capacity.
Succ(i) == (i + 1) % capacity

\* Slots from slot i to the write index: the uint32_t expression
\* (heart_systole - i + current_capacity) % current_capacity.  A head left above
\* a contracted ring makes the sum negative, which wraps by 2^32 = 65536^2.
Backlog(i) ==
    LET sum  == systole - i + capacity
        word == ((65536 % capacity) * (65536 % capacity)) % capacity
    IN  IF sum >= 0 THEN sum % capacity ELSE ((sum % capacity) + word) % capacity

\* Mutant: the full ring is not noticed.
CongestedNever == FALSE

Congested == Succ(systole) = diastole

\* The blood-brain barrier: red globules reach the cortex from the senses only.
Barred(p) == p.target = CORTEX /\ p.type = "RED" /\ p.source # SENSORY

Init ==
    /\ blood = [i \in Slots |-> Blank]
    /\ capacity = Base
    /\ systole = 0
    /\ diastole = 0
    /\ heads = [o \in Organs |-> 0]
    /\ nextId = 1
    /\ drops = 0
    /\ pumps = 0
    /\ call = NoCall

\* Congestion: priority globules push the oldest slot out, and the read heads
\* that stand on the write index are moved to the new oldest slot.
NewDiastole(p) ==
    IF Congested /\ p.type \in Priority THEN Succ(diastole) ELSE diastole
NewHeads(p) ==
    IF Congested /\ p.type \in Priority
    THEN [o \in Organs |-> IF heads[o] = systole THEN Succ(diastole) ELSE heads[o]]
    ELSE heads

\* Dilation on an alert, contraction by one slot otherwise.
NewCapacity(p) ==
    IF p.type = "WHITE" THEN Volume
    ELSE IF capacity > Base THEN capacity - 1 ELSE capacity

\* united_bus_pump, the two refusals (-1 congestion, -2 barrier).
PumpRefused(p) ==
    /\ call = NoCall
    /\ pumps < MaxPumps
    /\ (Congested /\ p.type \notin Priority) \/ Barred(p)
    /\ pumps' = pumps + 1
    /\ drops' = drops + 1
    /\ UNCHANGED <<blood, capacity, systole, diastole, heads, nextId, call>>

\* united_bus_pump, the globule enters the stream.
PumpAccepted(p) ==
    /\ call = NoCall
    /\ pumps < MaxPumps
    /\ ~(Congested /\ p.type \notin Priority)
    /\ ~Barred(p)
    /\ pumps' = pumps + 1
    /\ diastole' = NewDiastole(p)
    /\ heads' = NewHeads(p)
    /\ capacity' = NewCapacity(p)
    /\ blood' = [blood EXCEPT ![systole] = Stamp(p, nextId)]
    /\ nextId' = nextId + 1
    /\ systole' = Succ(systole)
    /\ UNCHANGED <<drops, call>>

Pump(p) == PumpRefused(p) \/ PumpAccepted(p)

\* Mutant: the collector keeps the fastest reader's slots instead of the slowest's.
Fastest(o) ==
    \A k \in Organs : \/ Backlog(heads[k]) > Backlog(heads[o])
                      \/ Backlog(heads[k]) = Backlog(heads[o]) /\ o <= k

\* united_bus_gc: diastole moves to the head with the longest backlog, the write
\* index when every reader is there; the lowest organ id wins a tie.
Slowest(o) ==
    \A k \in Organs : \/ Backlog(heads[k]) < Backlog(heads[o])
                      \/ Backlog(heads[k]) = Backlog(heads[o]) /\ o <= k
Gc ==
    /\ call = NoCall
    /\ \E o \in Organs :
         /\ Slowest(o)
         /\ diastole' = IF Backlog(heads[o]) = 0 THEN systole ELSE heads[o]
    /\ UNCHANGED <<blood, capacity, systole, heads, nextId, drops, pumps, call>>

\* united_bus_absorb: the call, one iteration of its loop, the return.
Absorb(o, max) ==
    /\ call = NoCall
    /\ call' = [organ |-> o, head |-> heads[o], out |-> <<>>, max |-> max]
    /\ UNCHANGED <<blood, capacity, systole, diastole, heads, nextId, drops, pumps>>

Unfinished == call.head # systole /\ Len(call.out) < call.max

Addressed(g, o) == g.target \in {BROADCAST, o}

\* Mutant: the head moves past the globules that are taken only.
AbsorbStepStuck ==
    /\ call # NoCall
    /\ Unfinished
    /\ call' = IF Addressed(blood[call.head], call.organ)
               THEN [call EXCEPT !.head = Succ(call.head),
                                 !.out = Append(call.out, blood[call.head])]
               ELSE call
    /\ UNCHANGED <<blood, capacity, systole, diastole, heads, nextId, drops, pumps>>

AbsorbStep ==
    /\ call # NoCall
    /\ Unfinished
    /\ call' = [call EXCEPT
                  !.head = Succ(call.head),
                  !.out = IF Addressed(blood[call.head], call.organ)
                          THEN Append(call.out, blood[call.head]) ELSE call.out]
    /\ UNCHANGED <<blood, capacity, systole, diastole, heads, nextId, drops, pumps>>

AbsorbReturn ==
    /\ call # NoCall
    /\ ~Unfinished
    /\ heads' = [heads EXCEPT ![call.organ] = call.head]
    /\ call' = NoCall
    /\ UNCHANGED <<blood, capacity, systole, diastole, nextId, drops, pumps>>

Next ==
    \/ \E p \in Packets : Pump(p)
    \/ Gc
    \/ \E o \in Organs, max \in Batches : Absorb(o, max)
    \/ AbsorbStep
    \/ AbsorbReturn

Spec == Init /\ [][Next]_vars

\* The absorb loop runs on the caller's stack: once entered, nothing else runs.
FairSpec == Spec /\ WF_vars(AbsorbStep \/ AbsorbReturn)

----------------------------------------------------------------------------
\* Where organ o stands in the ring, its absorb call in progress included.
Position(o) == IF call.organ = o THEN call.head ELSE heads[o]

\* united_bus_get_health: the pending_globules it reports.
Pending == Backlog(diastole)

\* The n slots of the ring from slot i on, as a sequence.
Window(slots, i, n, cap) == [k \in 1 .. n |-> slots[(i + k - 1) % cap]]

\* What each organ has still to look at, oldest first.
Unread == [o \in Organs |->
             Window(blood, Position(o), Backlog(Position(o)), capacity)]

Flow == INSTANCE BloodFlow WITH
            unread <- Unread,
            cursor <- [organ |-> call.organ, out |-> call.out]

\* Type invariant: every index stays inside the array and the capacity between
\* its resting value and the array size, dilation and contraction included.
TypeOK ==
    /\ blood \in [Slots -> Contents]
    /\ capacity \in Base .. Volume
    /\ systole \in Slots
    /\ diastole \in Slots
    /\ heads \in [Organs -> Slots]
    /\ nextId \in 1 .. MaxPumps + 1
    /\ drops \in 0 .. MaxPumps
    /\ pumps \in 0 .. MaxPumps
    /\ call \in Calls

\* Every pump is accounted for once: it got the next id or it was counted as a
\* drop, whichever of the two refusals or the congestion override it met.
Accounting == pumps = drops + (nextId - 1)

\* Refinement: without priority globules the ring is a FIFO per organ.  Nothing
\* accepted is lost, repeated or reordered for any organ, at any interleaving of
\* pumps, refused pumps, collections and absorb calls of any batch size.
DeliversInOrder == Flow!FlowSpec

\* The backlog that united_bus_get_health reports covers the slowest reader: the
\* oldest slot kept is never ahead of a read head.
PendingCoversReaders == \A o \in Organs : Backlog(Position(o)) <= Pending

\* Every absorb call returns.
AbsorbReturns == (call # NoCall) ~> (call = NoCall)
=============================================================================
