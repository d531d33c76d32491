-------------------------- MODULE UnitedBusProofs --------------------------
(***************************************************************************)
(* Proofs about the United Bus for every set of organs, routes and types,  *)
(* every ring size and every number of pumps.                              *)
(***************************************************************************)
EXTENDS UnitedBus, SequenceTheorems, TLAPS

\* A slot of the ring has its successor inside the ring.
LEMMA ModRange ==
    ASSUME NEW a \in Int, NEW c \in Nat, 0 < c
    PROVE  a % c \in 0 .. c - 1
OBVIOUS

\* What a stamped packet is, field by field.
LEMMA StampType ==
    ASSUME NEW p \in Packets, NEW n \in 1 .. MaxPumps
    PROVE  /\ Stamp(p, n) \in Contents
           /\ Stamp(p, n).type = p.type
           /\ Stamp(p, n).source = p.source
           /\ Stamp(p, n).target = p.target
BY DEF Contents, Globules, Stamp

\* The inductive invariant: the bookkeeping alone does not bound the ids, the
\* accounting equation does, so the two are proved together.
BusInv == TypeOK /\ Accounting

\* united_bus_init establishes the bookkeeping invariant.
LEMMA InitBusInv == Init => BusInv
<1> SUFFICES ASSUME Init PROVE BusInv
  OBVIOUS
<1> USE BusAssumption
<1>1. Blank \in Contents
  BY DEF Contents, Blank
<1>2. NoCall \in Calls /\ Len(NoCall.out) = 0
  BY DEF NoCall, Calls, Slots
<1>3. TypeOK
  BY <1>1, <1>2 DEF Init, TypeOK, Slots
<1>4. Accounting
  BY DEF Init, Accounting
<1> QED
  BY <1>3, <1>4 DEF BusInv

\* Every call on the bus, and every iteration of absorb, keeps the bookkeeping invariant.
LEMMA NextBusInv == BusInv /\ [Next]_vars => BusInv'
<1> SUFFICES ASSUME BusInv, [Next]_vars PROVE BusInv'
  OBVIOUS
<1> USE BusAssumption
<1>0. TypeOK /\ Accounting
  BY DEF BusInv
<1>s. ASSUME NEW i \in Slots PROVE Succ(i) \in Slots
  BY <1>0, <1>s DEF Succ, Slots, TypeOK
<1>1. ASSUME NEW p \in Packets, PumpRefused(p) PROVE BusInv'
  BY <1>0, <1>1 DEF PumpRefused, BusInv, TypeOK, Accounting
<1>2. ASSUME NEW p \in Packets, PumpAccepted(p) PROVE BusInv'
  <2>1. /\ nextId \in 1 .. MaxPumps /\ pumps < MaxPumps
        /\ nextId' = nextId + 1 /\ pumps' = pumps + 1 /\ drops' = drops
    BY <1>0, <1>2 DEF PumpAccepted, TypeOK, Accounting
  <2>2. Stamp(p, nextId) \in Contents
    BY <2>1, StampType
  <2>4. blood' \in [Slots -> Contents]
    BY <1>0, <1>2, <2>2 DEF PumpAccepted, TypeOK
  <2>5. capacity' \in Base .. Volume
    BY <1>0, <1>2 DEF PumpAccepted, NewCapacity, TypeOK
  <2>6. diastole' \in Slots /\ systole' \in Slots
    BY <1>0, <1>2, <1>s DEF PumpAccepted, NewDiastole, TypeOK
  <2>7. heads' \in [Organs -> Slots]
    BY <1>0, <1>2, <1>s DEF PumpAccepted, NewHeads, TypeOK
  <2>8. call' = call
    BY <1>2 DEF PumpAccepted
  <2>9. TypeOK'
    BY <1>0, <2>1, <2>4, <2>5, <2>6, <2>7, <2>8 DEF TypeOK
  <2>10. Accounting'
    BY <1>0, <2>1 DEF Accounting, TypeOK
  <2> QED
    BY <2>9, <2>10 DEF BusInv
<1>3. ASSUME Gc PROVE BusInv'
  BY <1>0, <1>3 DEF Gc, BusInv, TypeOK, Accounting
<1>4. ASSUME NEW o \in Organs, NEW max \in Batches, Absorb(o, max) PROVE BusInv'
  <2>1. call' \in Calls /\ Len(call'.out) = 0
    BY <1>0, <1>4 DEF Absorb, Calls, TypeOK
  <2> QED
    BY <1>0, <1>4, <2>1 DEF Absorb, BusInv, TypeOK, Accounting
<1>5. ASSUME AbsorbStep PROVE BusInv'
  <2> DEFINE g == blood[call.head]
  <2>1. call.head \in Slots /\ call.out \in Seq(Contents) /\ g \in Contents
    BY <1>0 DEF TypeOK, Calls
  <2>2. call'.out \in Seq(Contents)
    <3>1. CASE Addressed(g, call.organ)
      <4>1. call'.out = Append(call.out, g)
        BY <1>0, <1>5, <3>1 DEF AbsorbStep, TypeOK, Calls
      <4> QED
        BY <1>0, <2>1, <4>1
    <3>2. CASE ~Addressed(g, call.organ)
      <4>1. call'.out = call.out
        BY <1>0, <1>5, <3>2 DEF AbsorbStep, TypeOK, Calls
      <4> QED
        BY <1>0, <2>1, <4>1
    <3> QED
      BY <3>1, <3>2
  <2>3. call' \in Calls
    BY <1>0, <1>5, <1>s, <2>1, <2>2 DEF AbsorbStep, TypeOK, Calls
  <2> QED
    BY <1>0, <1>5, <2>2, <2>3 DEF AbsorbStep, BusInv, TypeOK, Accounting
<1>6. ASSUME AbsorbReturn PROVE BusInv'
  <2>1. call' \in Calls /\ Len(call'.out) = 0
    BY <1>6 DEF AbsorbReturn, NoCall, Calls, Slots
  <2>2. heads' \in [Organs -> Slots]
    BY <1>0, <1>6 DEF AbsorbReturn, TypeOK, Calls
  <2> QED
    BY <1>0, <1>6, <2>1, <2>2 DEF AbsorbReturn, BusInv, TypeOK, Accounting
<1>7. CASE UNCHANGED vars
  BY <1>0, <1>7 DEF vars, BusInv, TypeOK, Accounting
<1> QED
  BY <1>1, <1>2, <1>3, <1>4, <1>5, <1>6, <1>7 DEF Next, Pump

\* Every index stays inside the array through dilation, override and contraction;
\* every pump is accounted for.
THEOREM BusSafety == Spec => [](TypeOK /\ Accounting)
BY InitBusInv, NextBusInv, PTL DEF Spec, BusInv

(***************************************************************************)
(* Refinement: without priority globules the ring implements BloodFlow.    *)
(***************************************************************************)
Quiet == Types \intersect Priority = {}

\* Reduction modulo the capacity, for indices that have wrapped at most once.
LEMMA ModOnce ==
    ASSUME NEW c \in Nat, 0 < c, NEW a \in 0 .. 2 * c - 1
    PROVE  a % c = IF a < c THEN a ELSE a - c
<1>1. CASE a < c
  BY <1>1
<1>2. CASE a >= c
  <2>1. a - c \in 0 .. c - 1 /\ a = 1 * c + (a - c)
    BY <1>2
  <2> QED
    BY <2>1
<1> QED
  BY <1>1, <1>2

\* Writing the slot after a window that leaves one slot free appends to it.
LEMMA WindowAppend ==
    ASSUME TypeOK, NEW g \in Contents, NEW i \in 0 .. Base - 1, NEW n \in 0 .. Base - 1
    PROVE  Window([blood EXCEPT ![(i + n) % Base] = g], i, n + 1, Base)
             = Append(Window(blood, i, n, Base), g)
<1> DEFINE S == Contents
           b == blood
           c == Base
<1>a. b \in [Slots -> S] /\ c \in Nat \ {0} /\ 0 .. c - 1 \subseteq Slots /\ g \in S
      /\ i \in 0 .. c - 1 /\ n \in 0 .. c - 1
  BY BusAssumption DEF TypeOK, Slots
<1> HIDE DEF S, b, c
<1> USE <1>a
<1> DEFINE d == [b EXCEPT ![(i + n) % c] = g]
           w == Window(d, i, n + 1, c)
           v == Window(b, i, n, c)
           u == Append(v, g)
<1>0. \A x \in 0 .. c - 1 : d[x] \in S /\ d[x] = IF x = (i + n) % c THEN g ELSE b[x]
  OBVIOUS
<1> HIDE DEF d
<1>1. w \in Seq(S) /\ Len(w) = n + 1 /\ \A k \in 1 .. n + 1 : w[k] = d[(i + k - 1) % c]
  <2>1. \A k \in 1 .. n + 1 : (i + k - 1) % c \in 0 .. c - 1
    OBVIOUS
  <2> QED
    BY <1>0, <2>1 DEF Window
<1>2. v \in Seq(S) /\ Len(v) = n /\ \A k \in 1 .. n : v[k] = b[(i + k - 1) % c]
  <2>1. \A k \in 1 .. n : (i + k - 1) % c \in 0 .. c - 1
    OBVIOUS
  <2> QED
    BY <2>1 DEF Window
<1> HIDE DEF w, v
<1>3. /\ u \in Seq(S) /\ Len(u) = n + 1 /\ u[n + 1] = g
      /\ \A k \in 1 .. n : u[k] = v[k]
  BY <1>2
<1> HIDE DEF u
<1>4. w[n + 1] = g
  <2>1. w[n + 1] = d[(i + (n + 1) - 1) % c] /\ i + (n + 1) - 1 = i + n
    BY <1>1
  <2>2. (i + n) % c \in 0 .. c - 1
    OBVIOUS
  <2> QED
    BY <1>0, <2>1, <2>2
<1>5. ASSUME NEW k \in 1 .. n PROVE w[k] = u[k]
  <2>1. i + k - 1 \in 0 .. 2 * c - 1 /\ i + n \in 0 .. 2 * c - 1
    OBVIOUS
  <2>2. (i + k - 1) % c # (i + n) % c /\ (i + k - 1) % c \in 0 .. c - 1
    BY <2>1, ModOnce
  <2>3. d[(i + k - 1) % c] = b[(i + k - 1) % c]
    BY <1>0, <2>2
  <2>4. w[k] = d[(i + k - 1) % c] /\ v[k] = b[(i + k - 1) % c]
    BY <1>1, <1>2
  <2> QED
    BY <1>3, <2>3, <2>4
<1>6. \A k \in 1 .. Len(w) : w[k] = u[k]
  BY <1>1, <1>3, <1>4, <1>5
<1> QED
  BY <1>1, <1>3, <1>6, SeqEqual DEF d, w, u, v, b, c

\* Moving the start of a window by one slot drops its head.
LEMMA WindowTail ==
    ASSUME TypeOK, NEW i \in 0 .. Base - 1, NEW n \in 1 .. Base - 1
    PROVE  /\ Window(blood, i, n, Base) # <<>>
           /\ Head(Window(blood, i, n, Base)) = blood[i]
           /\ Window(blood, (i + 1) % Base, n - 1, Base) = Tail(Window(blood, i, n, Base))
<1> DEFINE S == Contents
           b == blood
           c == Base
<1>a. b \in [Slots -> S] /\ c \in Nat \ {0} /\ 0 .. c - 1 \subseteq Slots
      /\ i \in 0 .. c - 1 /\ n \in 1 .. c - 1
  BY BusAssumption DEF TypeOK, Slots
<1> HIDE DEF S, b, c
<1> USE <1>a
<1> DEFINE w == Window(b, i, n, c)
           j == (i + 1) % c
           t == Window(b, j, n - 1, c)
<1>1. w \in Seq(S) /\ Len(w) = n /\ \A k \in 1 .. n : w[k] = b[(i + k - 1) % c]
  <2>1. \A k \in 1 .. n : (i + k - 1) % c \in 0 .. c - 1
    OBVIOUS
  <2> QED
    BY <2>1 DEF Window
<1>3. j \in 0 .. c - 1
  OBVIOUS
<1>4. t \in Seq(S) /\ Len(t) = n - 1 /\ \A k \in 1 .. n - 1 : t[k] = b[(j + k - 1) % c]
  <2> HIDE DEF j
  <2>1. \A k \in 1 .. n - 1 : (j + k - 1) % c \in 0 .. c - 1
    BY <1>3
  <2>2. n - 1 \in Nat
    OBVIOUS
  <2> QED
    BY <2>1, <2>2 DEF Window
<1>7. \A k \in 1 .. n - 1 : (j + k - 1) % c = (i + k) % c
  <2> SUFFICES ASSUME NEW k \in 1 .. n - 1 PROVE (j + k - 1) % c = (i + k) % c
    OBVIOUS
  <2>1. i + 1 \in 0 .. 2 * c - 1 /\ i + k \in 0 .. 2 * c - 1 /\ j + k - 1 \in 0 .. 2 * c - 1
    BY <1>3
  <2>2. j = IF i + 1 < c THEN i + 1 ELSE i + 1 - c
    BY <2>1, ModOnce
  <2>3. (i + k) % c = IF i + k < c THEN i + k ELSE i + k - c
    BY <2>1, ModOnce
  <2> HIDE DEF j
  <2>4. (j + k - 1) % c = IF j + k - 1 < c THEN j + k - 1 ELSE j + k - 1 - c
    BY <1>3, <2>1, ModOnce
  <2> QED
    BY <2>2, <2>3, <2>4, <1>3
<1> HIDE DEF w, t, j
<1>2. w # <<>> /\ Head(w) = w[1] /\ w[1] = b[i]
  <2>1. (i + 1 - 1) % c = i
    BY ModOnce
  <2> QED
    BY <1>1, <2>1
<1>5. /\ Tail(w) \in Seq(S) /\ Len(Tail(w)) = n - 1
      /\ \A k \in 1 .. n - 1 : Tail(w)[k] = w[k + 1]
  BY <1>1, <1>2, HeadTailProperties
<1>6. ASSUME NEW k \in 1 .. n - 1 PROVE t[k] = Tail(w)[k]
  <2>1. k + 1 \in 1 .. n /\ i + (k + 1) - 1 = i + k
    OBVIOUS
  <2>2. w[k + 1] = b[(i + k) % c]
    BY <1>1, <2>1
  <2> QED
    BY <1>4, <1>5, <1>7, <2>2
<1>8. \A k \in 1 .. Len(t) : t[k] = Tail(w)[k]
  BY <1>4, <1>6
<1>9. t = Tail(w)
  BY <1>4, <1>5, <1>8, SeqEqual
<1> QED
  BY <1>2, <1>9 DEF w, t, j, b, c

\* What holds of the ring in quiet traffic: it keeps its resting size, every
\* index is inside it and no reader is behind the oldest slot kept.
RingOK ==
    /\ capacity = Base
    /\ systole \in 0 .. Base - 1
    /\ diastole \in 0 .. Base - 1
    /\ heads \in [Organs -> 0 .. Base - 1]
    /\ call.head \in 0 .. Base - 1
    /\ call # NoCall => call.organ \in Organs
QuietInv == TypeOK /\ RingOK /\ PendingCoversReaders

\* Slots from i to j in a ring of Base slots.
Gap(i, j) == IF i <= j THEN j - i ELSE j - i + Base

\* The modular distance of united_bus_gc and _get_health, without the modulus.
LEMMA RingGap ==
    ASSUME NEW i \in 0 .. Base - 1, NEW j \in 0 .. Base - 1
    PROVE  (j - i + Base) % Base = Gap(i, j) /\ (i + Gap(i, j)) % Base = j
<1>1. /\ j - i + Base \in 0 .. 2 * Base - 1 /\ i + Gap(i, j) \in 0 .. 2 * Base - 1
      /\ Base \in Nat /\ 0 < Base
  BY BusAssumption DEF Gap
<1>2. (j - i + Base) % Base = IF j - i + Base < Base THEN j - i + Base ELSE j - i + Base - Base
  BY <1>1, ModOnce
<1>3. (i + Gap(i, j)) % Base = IF i + Gap(i, j) < Base THEN i + Gap(i, j) ELSE (i + Gap(i, j)) - Base
  <2> DEFINE a == i + Gap(i, j)
  <2>1. a \in 0 .. 2 * Base - 1
    BY <1>1
  <2> HIDE DEF a
  <2>2. a % Base = IF a < Base THEN a ELSE a - Base
    <3>1. Base \in Nat /\ 0 < Base
      BY BusAssumption
    <3> QED
      BY <2>1, <3>1, ModOnce
  <2> QED
    BY <2>2 DEF a
<1>4. (j - i + Base) % Base = Gap(i, j)
  BY <1>1, <1>2 DEF Gap
<1>5. (i + Gap(i, j)) % Base = j
  <2>1. CASE i <= j
    BY <1>1, <1>3, <2>1 DEF Gap
  <2>2. CASE i > j
    BY <1>1, <1>3, <2>2 DEF Gap
  <2> QED
    BY <2>1, <2>2
<1> QED
  BY <1>4, <1>5

\* What a reader still has to read, while the ring keeps its base capacity.
LEMMA BacklogIsGap ==
    ASSUME RingOK, NEW i \in 0 .. Base - 1
    PROVE  Backlog(i) = Gap(i, systole)
<1>1. systole \in 0 .. Base - 1 /\ capacity = Base /\ Base \in Nat /\ systole - i + Base >= 0
  BY BusAssumption DEF RingOK
<1>2. (systole - i + Base) % Base = Gap(i, systole)
  BY <1>1, RingGap
<1> QED
  BY <1>1, <1>2 DEF Backlog

\* The (i + 1) % current_capacity step of pump and absorb, without the modulus.
LEMMA SuccIsNext ==
    ASSUME RingOK, NEW i \in 0 .. Base - 1
    PROVE  /\ Succ(i) = IF i = Base - 1 THEN 0 ELSE i + 1
           /\ Succ(i) \in 0 .. Base - 1
<1>1. i + 1 \in 0 .. 2 * Base - 1 /\ Base \in Nat /\ 0 < Base
  BY BusAssumption
<1>2. (i + 1) % Base = IF i + 1 < Base THEN i + 1 ELSE i + 1 - Base
  BY <1>1, ModOnce
<1> QED
  BY <1>1, <1>2 DEF Succ, RingOK

\* A reader always stands on a slot of the ring.
LEMMA PositionInRing ==
    ASSUME RingOK, NEW o \in Organs
    PROVE  Position(o) \in 0 .. Base - 1
BY DEF RingOK, Position

\* Nobody is absorbing when there is no call.
LEMMA NoCallPosition ==
    ASSUME call = NoCall, NEW o \in Organs
    PROVE  Position(o) = heads[o]
BY BusAssumption DEF Position, NoCall, NoOrgan

\* In quiet traffic an accepted pump moves nothing but the write index.
LEMMA QuietPump ==
    ASSUME Quiet, RingOK, NEW p \in Packets, PumpAccepted(p)
    PROVE  /\ ~Congested
           /\ capacity' = capacity /\ diastole' = diastole /\ heads' = heads /\ call' = call
<1>1. p.type \in Types
  BY DEF Packets, Broadcasts
<1>2. p.type \notin Priority
  BY <1>1 DEF Quiet
<1>3. p.type # "WHITE"
  BY <1>2 DEF Priority
<1> QED
  BY <1>2, <1>3, BusAssumption DEF PumpAccepted, NewDiastole, NewHeads, NewCapacity, RingOK

\* A ring with a free slot stays ahead of every reader when the write index moves.
LEMMA GapGrows ==
    ASSUME NEW i \in 0 .. Base - 1, NEW s \in 0 .. Base - 1, NEW t \in 0 .. Base - 1,
           t = (IF s = Base - 1 THEN 0 ELSE s + 1), t # i
    PROVE  Gap(i, t) = Gap(i, s) + 1 /\ Gap(i, s) \in 0 .. Base - 2
BY BusAssumption DEF Gap

\* united_bus_init establishes the ring invariant.
LEMMA InitQuiet == Init => QuietInv
<1> SUFFICES ASSUME Init PROVE QuietInv
  OBVIOUS
<1>1. TypeOK
  BY InitBusInv DEF BusInv
<1>2. RingOK
  BY BusAssumption DEF Init, RingOK, NoCall
<1>3. PendingCoversReaders
  <2> SUFFICES ASSUME NEW o \in Organs PROVE Backlog(Position(o)) <= Pending
    BY DEF PendingCoversReaders
  <2>1. Position(o) = 0 /\ diastole = 0 /\ systole = 0
    BY NoCallPosition DEF Init
  <2> QED
    BY <1>2, <2>1, BacklogIsGap, BusAssumption DEF Pending, Gap
<1> QED
  BY <1>1, <1>2, <1>3 DEF QuietInv

\* Preservation, and what each step does to the unread globules of an organ.
LEMMA PumpStep ==
    ASSUME Quiet, QuietInv, TypeOK', NEW p \in Packets, PumpAccepted(p)
    PROVE  /\ QuietInv'
           /\ Unread' = [o \in Organs |-> Append(Unread[o], Stamp(p, nextId))]
<1> USE BusAssumption
<1> DEFINE g == Stamp(p, nextId)
<1>0. TypeOK /\ RingOK /\ PendingCoversReaders
  BY DEF QuietInv
<1>1. /\ ~Congested /\ capacity' = capacity /\ diastole' = diastole
      /\ heads' = heads /\ call' = call
  BY <1>0, QuietPump
<1>2. systole' = (IF systole = Base - 1 THEN 0 ELSE systole + 1) /\ systole' \in 0 .. Base - 1
  <2>1. systole \in 0 .. Base - 1 /\ systole' = Succ(systole)
    BY <1>0 DEF RingOK, PumpAccepted
  <2> QED
    BY <1>0, <2>1, SuccIsNext
<1>3. RingOK'
  BY <1>0, <1>1, <1>2 DEF RingOK, NoCall
<1>4. systole' # diastole
  BY <1>1 DEF PumpAccepted, Congested
<1>5. /\ Backlog(diastole) = Gap(diastole, systole)
      /\ Backlog(diastole)' = Gap(diastole, systole')
      /\ Gap(diastole, systole') = Gap(diastole, systole) + 1
      /\ Gap(diastole, systole) \in 0 .. Base - 2
  <2>1. diastole \in 0 .. Base - 1 /\ systole \in 0 .. Base - 1
    BY <1>0 DEF RingOK
  <2>2. Backlog(diastole) = Gap(diastole, systole)
    BY <1>0, <2>1, BacklogIsGap
  <2>3. Backlog(diastole)' = Gap(diastole, systole')
    <3>1. systole' \in 0 .. Base - 1 /\ capacity' = Base /\ systole' - diastole + Base >= 0
      BY <1>2, <1>3, <2>1 DEF RingOK
    <3>2. (systole' - diastole + Base) % Base = Gap(diastole, systole')
      BY <2>1, <3>1, RingGap
    <3> QED
      BY <1>1, <3>1, <3>2 DEF Backlog
  <2> QED
    BY <1>2, <1>4, <2>1, <2>2, <2>3, GapGrows
<1>6. ASSUME NEW o \in Organs
      PROVE  /\ Position(o)' = Position(o) /\ Position(o) \in 0 .. Base - 1
             /\ Backlog(Position(o)) = Gap(Position(o), systole)
             /\ Backlog(Position(o))' = Gap(Position(o), systole')
             /\ Gap(Position(o), systole') = Gap(Position(o), systole) + 1
             /\ Gap(Position(o), systole) \in 0 .. Base - 2
             /\ Gap(Position(o), systole) <= Gap(diastole, systole)
  <2>1. Position(o)' = Position(o) /\ Position(o) \in 0 .. Base - 1
    BY <1>0, <1>1, PositionInRing DEF Position
  <2>2. Backlog(Position(o)) = Gap(Position(o), systole)
    BY <1>0, <2>1, BacklogIsGap
  <2>3. Backlog(Position(o))' = Gap(Position(o), systole')
    <3> DEFINE i == Position(o)
    <3>1. systole' \in 0 .. Base - 1 /\ capacity' = Base /\ systole' - i + Base >= 0
      BY <1>2, <1>3, <2>1 DEF RingOK
    <3>2. (systole' - i + Base) % Base = Gap(i, systole')
      BY <2>1, <3>1, RingGap
    <3> HIDE DEF i
    <3>3. Position(o)' = i
      BY <2>1 DEF i
    <3>4. Backlog(Position(o))' = Gap(i, systole')
      BY <3>1, <3>2, <3>3 DEF Backlog
    <3> QED
      BY <3>4 DEF i
  <2>4. Gap(Position(o), systole) <= Gap(diastole, systole)
    BY <1>0, <1>5, <2>2 DEF PendingCoversReaders, Pending
  <2>5. systole' # Position(o)
    BY <1>0, <1>2, <1>5, <2>1, <2>4 DEF Gap, RingOK
  <2> QED
    BY <1>0, <1>2, <2>1, <2>2, <2>3, <2>4, <2>5, GapGrows DEF RingOK
<1>7. PendingCoversReaders'
  BY <1>1, <1>5, <1>6 DEF PendingCoversReaders, Pending
<1>8. ASSUME NEW o \in Organs PROVE Unread'[o] = Append(Unread[o], g)
  <2> DEFINE i == Position(o)
             n == Gap(i, systole)
  <2>1. i \in 0 .. Base - 1 /\ n \in 0 .. Base - 1 /\ Base \in Nat \ {0} /\ n + 1 = Gap(i, systole')
    BY <1>6
  <2>2. Unread[o] = Window(blood, i, n, Base)
    BY <1>0, <1>6 DEF Unread, RingOK
  <2>3. Unread'[o] = Window(blood', i, n + 1, Base)
    BY <1>0, <1>1, <1>6, <2>1 DEF Unread, RingOK
  <2>4. (i + n) % Base = systole
    BY <1>0, <2>1, RingGap DEF RingOK
  <2>5. g \in Contents
    BY <1>0, StampType DEF PumpAccepted, TypeOK
  <2>6. blood \in [Slots -> Contents] /\ 0 .. Base - 1 \subseteq Slots
    BY <1>0 DEF TypeOK, Slots
  <2>7. blood' = [blood EXCEPT ![(i + n) % Base] = g]
    BY <1>0, <2>4 DEF PumpAccepted, TypeOK, Slots
  <2> HIDE DEF i, n, g
  <2>8. Window([blood EXCEPT ![(i + n) % Base] = g], i, n + 1, Base)
          = Append(Window(blood, i, n, Base), g)
    BY <1>0, <2>1, <2>5, WindowAppend
  <2> QED
    BY <2>2, <2>3, <2>7, <2>8
<1>9. Unread' = [o \in Organs |-> Append(Unread[o], g)]
  <2>1. Unread' = [o \in Organs |-> Unread'[o]]
    BY DEF Unread
  <2> QED
    BY <1>8, <2>1
<1> QED
  BY <1>3, <1>7, <1>9 DEF QuietInv

\* Steps that leave the ring, the write index and every reader's place alone.
LEMMA SameRing ==
    ASSUME UNCHANGED <<blood, capacity, systole>>,
           \A o \in Organs : Position(o)' = Position(o)
    PROVE  /\ Unread' = Unread
           /\ \A o \in Organs : Backlog(Position(o))' = Backlog(Position(o))
BY DEF Unread, Backlog

\* A refused pump leaves the ring and what is unread alone.
LEMMA RefusedStep ==
    ASSUME QuietInv, TypeOK', NEW p, PumpRefused(p)
    PROVE  QuietInv' /\ UNCHANGED <<Unread, call>>
<1>1. UNCHANGED <<blood, capacity, systole, diastole, heads, call>>
  BY DEF PumpRefused
<1>2. RingOK' /\ PendingCoversReaders'
  BY <1>1 DEF QuietInv, RingOK, PendingCoversReaders, Pending, Backlog, Position, NoCall
<1>3. Unread' = Unread
  BY <1>1, SameRing DEF Position
<1> QED
  BY <1>1, <1>2, <1>3 DEF QuietInv

\* united_bus_gc moves the oldest index to the slowest reader and nothing else.
LEMMA GcStep ==
    ASSUME QuietInv, TypeOK', Gc
    PROVE  QuietInv' /\ UNCHANGED <<Unread, call>>
<1>1. UNCHANGED <<blood, capacity, systole, heads, call>> /\ call = NoCall
  BY DEF Gc
<1>2. PICK s \in Organs : Slowest(s) /\ diastole' = IF Backlog(heads[s]) = 0 THEN systole ELSE heads[s]
  BY DEF Gc
<1>3. RingOK /\ heads[s] \in 0 .. Base - 1
  BY DEF QuietInv, RingOK
<1>4. RingOK'
  BY <1>1, <1>2, <1>3 DEF RingOK
<1>5. UNCHANGED Unread /\ \A o \in Organs : Backlog(Position(o))' = Backlog(heads[o])
  <2>1. \A o \in Organs : Position(o)' = Position(o) /\ Position(o) = heads[o]
    BY <1>1, NoCallPosition DEF Position
  <2> QED
    BY <1>1, <2>1, SameRing
<1>6. Pending' = Backlog(heads[s])
  <2>1. systole \in 0 .. Base - 1
    BY <1>3 DEF RingOK
  <2>2. Backlog(heads[s]) = Gap(heads[s], systole) /\ Backlog(systole) = Gap(systole, systole)
    BY <1>3, <2>1, BacklogIsGap
  <2>3. diastole' = heads[s] \/ (diastole' = systole /\ Backlog(heads[s]) = Backlog(systole))
    BY <1>2, <2>1, <2>2 DEF Gap
  <2> QED
    BY <1>1, <2>3 DEF Pending, Backlog
<1>7. PendingCoversReaders'
  <2> SUFFICES ASSUME NEW o \in Organs PROVE Backlog(heads[o]) <= Backlog(heads[s])
    BY <1>5, <1>6 DEF PendingCoversReaders
  <2>1. heads[o] \in 0 .. Base - 1 /\ systole \in 0 .. Base - 1
    BY <1>3 DEF RingOK
  <2>2. Backlog(heads[o]) = Gap(heads[o], systole) /\ Backlog(heads[s]) = Gap(heads[s], systole)
    BY <1>3, <2>1, BacklogIsGap
  <2>3. Backlog(heads[o]) \in Int /\ Backlog(heads[s]) \in Int
    BY <1>3, <2>1, <2>2, BusAssumption DEF Gap
  <2> QED
    BY <1>2, <2>3 DEF Slowest
<1> QED
  BY <1>1, <1>4, <1>5, <1>7 DEF QuietInv

\* The opening lines of united_bus_absorb read nothing yet.
LEMMA AbsorbCallStep ==
    ASSUME QuietInv, TypeOK', NEW o \in Organs, NEW max, Absorb(o, max)
    PROVE  /\ QuietInv' /\ UNCHANGED Unread
           /\ call = NoCall /\ call'.organ = o /\ call'.out = <<>>
<1>1. /\ UNCHANGED <<blood, capacity, systole, diastole, heads>>
      /\ call = NoCall /\ call'.organ = o /\ call'.out = <<>> /\ call'.head = heads[o]
  BY DEF Absorb
<1>2. \A k \in Organs : Position(k)' = Position(k)
  BY <1>1, NoCallPosition DEF Position
<1>3. UNCHANGED Unread /\ \A k \in Organs : Backlog(Position(k))' = Backlog(Position(k))
  BY <1>1, <1>2, SameRing
<1>4. RingOK'
  BY <1>1 DEF QuietInv, RingOK
<1>5. PendingCoversReaders'
  BY <1>1, <1>3 DEF QuietInv, PendingCoversReaders, Pending, Backlog
<1> QED
  BY <1>1, <1>3, <1>4, <1>5 DEF QuietInv

\* The return of united_bus_absorb stores the head it has reached.
LEMMA AbsorbReturnStep ==
    ASSUME QuietInv, TypeOK', AbsorbReturn
    PROVE  /\ QuietInv' /\ UNCHANGED Unread
           /\ call # NoCall /\ call.organ \in Organs /\ call' = NoCall
<1>1. /\ UNCHANGED <<blood, capacity, systole, diastole>> /\ call # NoCall /\ call' = NoCall
      /\ heads' = [heads EXCEPT ![call.organ] = call.head]
  BY DEF AbsorbReturn
<1>2. call.organ \in Organs
  BY <1>1 DEF QuietInv, RingOK
<1>3. NoCall.organ \notin Organs /\ NoCall.head = 0
  BY BusAssumption DEF NoCall, NoOrgan
<1>4. \A k \in Organs : Position(k)' = Position(k)
  BY <1>1, <1>2, <1>3 DEF Position, QuietInv, RingOK
<1>5. UNCHANGED Unread /\ \A k \in Organs : Backlog(Position(k))' = Backlog(Position(k))
  BY <1>1, <1>4, SameRing
<1>6. RingOK'
  BY <1>1, <1>2, <1>3, BusAssumption DEF QuietInv, RingOK
<1>7. PendingCoversReaders'
  BY <1>1, <1>5 DEF QuietInv, PendingCoversReaders, Pending, Backlog
<1> QED
  BY <1>1, <1>2, <1>5, <1>6, <1>7 DEF QuietInv

\* One iteration of united_bus_absorb takes the oldest unread globule of its organ.
LEMMA AbsorbIteration ==
    ASSUME QuietInv, TypeOK', AbsorbStep
    PROVE  /\ QuietInv'
           /\ call.organ \in Organs /\ call'.organ = call.organ
           /\ Unread[call.organ] # <<>>
           /\ Unread' = [Unread EXCEPT ![call.organ] = Tail(Unread[call.organ])]
           /\ \/ call'.out = Append(call.out, Head(Unread[call.organ]))
              \/ call'.out = call.out
<1> USE BusAssumption
<1>0. TypeOK /\ RingOK /\ PendingCoversReaders
  BY DEF QuietInv
<1>1. /\ UNCHANGED <<blood, capacity, systole, diastole, heads>>
      /\ call # NoCall /\ call.head # systole
  BY DEF AbsorbStep, Unfinished
<1>2. systole \in 0 .. Base - 1 /\ diastole \in 0 .. Base - 1 /\ capacity = Base
  BY <1>0, <1>1 DEF RingOK
<1>a. PICK a \in Organs : a = call.organ
  BY <1>0, <1>1 DEF RingOK
<1>i. PICK i \in 0 .. Base - 1 : i = call.head
  BY <1>0 DEF RingOK
<1> DEFINE n == Gap(i, systole)
<1>3. call'.organ = a /\ call'.head = Succ(i)
      /\ (call'.out = Append(call.out, blood[i]) \/ call'.out = call.out)
  BY <1>0, <1>a, <1>i DEF AbsorbStep, TypeOK, Calls
<1>4. Succ(i) = (IF i = Base - 1 THEN 0 ELSE i + 1) /\ Succ(i) \in 0 .. Base - 1
  BY <1>0, <1>2, SuccIsNext
<1>5. n \in 1 .. Base - 1 /\ Gap(Succ(i), systole) = n - 1
  BY <1>1, <1>2, <1>4, <1>i DEF Gap
<1>6. /\ Position(a) = i /\ Position(a)' = Succ(i)
      /\ \A k \in Organs : k # a => Position(k) = heads[k] /\ Position(k)' = heads[k]
  BY <1>1, <1>3, <1>a, <1>i DEF Position
<1>7. RingOK'
  BY <1>0, <1>1, <1>2, <1>3, <1>4, <1>a DEF RingOK
<1>8. Backlog(i) = n /\ Backlog(Succ(i)) = n - 1
  BY <1>0, <1>2, <1>4, <1>5, BacklogIsGap
<1>9. /\ Backlog(Position(a)) = n /\ Backlog(Position(a))' = n - 1
      /\ \A k \in Organs : k # a => Backlog(Position(k))' = Backlog(Position(k))
  <2>1. Backlog(Position(a)) = n
    BY <1>6, <1>8
  <2>2. Backlog(Position(a))' = Backlog(Succ(i))
    BY <1>1, <1>6 DEF Backlog
  <2>3. \A k \in Organs : k # a => Backlog(Position(k))' = Backlog(Position(k))
    BY <1>1, <1>6 DEF Backlog
  <2> QED
    BY <1>8, <2>1, <2>2, <2>3
<1>10. PendingCoversReaders'
  <2>1. Pending' = Pending
    BY <1>1 DEF Pending, Backlog
  <2>2. Pending \in Int
    BY <1>0, <1>2, BacklogIsGap DEF Pending, Gap
  <2>3. \A k \in Organs : Backlog(Position(k)) <= Pending
    BY <1>0 DEF PendingCoversReaders
  <2> HIDE DEF n
  <2>4. n - 1 <= Pending
    BY <1>2, <1>5, <1>9, <2>2, <2>3
  <2>5. \A k \in Organs : Backlog(Position(k))' <= Pending
    BY <1>9, <2>3, <2>4
  <2> QED
    BY <2>1, <2>5 DEF PendingCoversReaders
<1>11. Unread[a] = Window(blood, i, n, Base) /\ Unread'[a] = Window(blood, (i + 1) % Base, n - 1, Base)
  <2>1. Unread[a] = Window(blood, Position(a), Backlog(Position(a)), capacity)
    BY <1>2 DEF Unread
  <2>2. Unread'[a] = Window(blood', Position(a)', Backlog(Position(a))', capacity')
    BY <1>2 DEF Unread
  <2> HIDE DEF n
  <2> QED
    BY <1>1, <1>2, <1>6, <1>9, <2>1, <2>2 DEF Succ
<1>12. /\ Unread[a] # <<>> /\ Head(Unread[a]) = blood[i] /\ Unread'[a] = Tail(Unread[a])
  <2> HIDE DEF n
  <2> QED
    BY <1>0, <1>2, <1>5, <1>11, WindowTail
<1>13. \A k \in Organs : k # a => Unread'[k] = Unread[k]
  <2> SUFFICES ASSUME NEW k \in Organs, k # a PROVE Unread'[k] = Unread[k]
    OBVIOUS
  <2>1. Unread[k] = Window(blood, Position(k), Backlog(Position(k)), capacity)
    BY DEF Unread
  <2>2. Unread'[k] = Window(blood', Position(k)', Backlog(Position(k))', capacity')
    BY DEF Unread
  <2> QED
    BY <1>1, <1>6, <1>9, <2>1, <2>2
<1>14. Unread' = [Unread EXCEPT ![a] = Tail(Unread[a])]
  <2>1. DOMAIN Unread = Organs /\ Unread' = [k \in Organs |-> Unread'[k]] /\ Unread = [k \in Organs |-> Unread[k]]
    BY DEF Unread
  <2> QED
    BY <1>2, <1>12, <1>13, <2>1
<1> QED
  BY <1>2, <1>3, <1>7, <1>10, <1>12, <1>14, <1>a DEF QuietInv

\* In quiet traffic every behaviour of the ring is a behaviour of BloodFlow, and
\* the oldest slot kept is never ahead of a reader.
LEMMA QuietStep ==
    ASSUME Quiet, QuietInv, TypeOK', [Next]_vars
    PROVE  QuietInv' /\ [Flow!FlowNext]_(Flow!flowVars)
<1> USE DEF Flow!FlowNext, Flow!flowVars, Flow!Idle
<1>1. ASSUME NEW p \in Packets, PumpRefused(p) PROVE QuietInv' /\ UNCHANGED Flow!flowVars
  BY <1>1, RefusedStep
<1>2. ASSUME NEW p \in Packets, PumpAccepted(p)
      PROVE  QuietInv' /\ \E g \in Globules : Flow!Publish(g)
  <2>1. Stamp(p, nextId) \in Globules
    BY <1>2, BusAssumption DEF Globules, PumpAccepted, QuietInv, TypeOK
  <2>2. call' = call
    BY <1>2 DEF PumpAccepted
  <2>3. QuietInv' /\ Unread' = [o \in Organs |-> Append(Unread[o], Stamp(p, nextId))]
    BY <1>2, PumpStep
  <2>4. Flow!Publish(Stamp(p, nextId))
    BY <2>2, <2>3 DEF Flow!Publish
  <2> QED
    BY <2>1, <2>3, <2>4
<1>3. ASSUME Gc PROVE QuietInv' /\ UNCHANGED Flow!flowVars
  BY <1>3, GcStep
<1>4. ASSUME NEW o \in Organs, NEW max \in Batches, Absorb(o, max)
      PROVE  QuietInv' /\ Flow!StartAbsorb(o)
  BY <1>4, AbsorbCallStep DEF Flow!StartAbsorb, NoCall
<1>5. ASSUME AbsorbStep PROVE QuietInv' /\ \E o \in Organs : Flow!Inspect(o)
  <2>1. Flow!Inspect(call.organ)
    BY <1>5, AbsorbIteration DEF Flow!Inspect
  <2> QED
    BY <1>5, <2>1, AbsorbIteration
<1>6. ASSUME AbsorbReturn PROVE QuietInv' /\ Flow!EndAbsorb
  BY <1>6, AbsorbReturnStep, BusAssumption DEF Flow!EndAbsorb, NoCall, NoOrgan
<1>7. CASE UNCHANGED vars
  <2>1. \A o \in Organs : Position(o)' = Position(o)
    BY <1>7 DEF vars, Position
  <2>2. UNCHANGED Unread
    BY <1>7, <2>1, SameRing DEF vars
  <2>3. QuietInv'
    BY <1>7 DEF vars, QuietInv, RingOK, PendingCoversReaders, Pending, Backlog, Position, NoCall
  <2> QED
    BY <1>7, <2>2, <2>3 DEF vars
<1> QED
  BY <1>1, <1>2, <1>3, <1>4, <1>5, <1>6, <1>7 DEF Next, Pump

\* The initial ring is the empty flow.
LEMMA QuietInitFlow == Init => Flow!FlowInit
<1> SUFFICES ASSUME Init PROVE Flow!FlowInit
  OBVIOUS
<1>1. RingOK /\ systole = 0 /\ call = NoCall
  BY InitQuiet DEF QuietInv, Init
<1>2. ASSUME NEW o \in Organs PROVE Unread[o] = <<>>
  <2>1. Position(o) = 0 /\ 0 \in 0 .. Base - 1
    BY <1>1, NoCallPosition, BusAssumption DEF Init
  <2>2. Backlog(Position(o)) = 0
    BY <1>1, <2>1, BacklogIsGap DEF Gap
  <2>3. Unread[o] = Window(blood, 0, 0, capacity)
    BY <2>1, <2>2 DEF Unread
  <2> QED
    BY <2>3 DEF Window
<1>3. Unread = [o \in Organs |-> <<>>]
  BY <1>2 DEF Unread
<1> QED
  BY <1>1, <1>3 DEF Flow!FlowInit, Flow!Idle, NoCall

\* Refinement: without priority globules the ring implements a FIFO per organ.
THEOREM QuietDelivery == Quiet => (Spec => DeliversInOrder)
<1> SUFFICES ASSUME Quiet PROVE Spec => DeliversInOrder
  OBVIOUS
<1>1. Init => QuietInv /\ Flow!FlowInit
  BY InitQuiet, QuietInitFlow
<1>2. QuietInv /\ TypeOK' /\ [Next]_vars => QuietInv' /\ [Flow!FlowNext]_(Flow!flowVars)
  BY QuietStep
<1>3. Spec => []TypeOK
  BY BusSafety, PTL
<1> QED
  BY <1>1, <1>2, <1>3, PTL DEF Spec, DeliversInOrder, Flow!FlowSpec

\* In quiet traffic the reported backlog covers every reader.
THEOREM QuietPending == Quiet => (Spec => []PendingCoversReaders)
<1> SUFFICES ASSUME Quiet PROVE Spec => []PendingCoversReaders
  OBVIOUS
<1>1. Init => QuietInv
  BY InitQuiet
<1>2. QuietInv /\ TypeOK' /\ [Next]_vars => QuietInv'
  BY QuietStep
<1>3. Spec => []TypeOK
  BY BusSafety, PTL
<1>4. QuietInv => PendingCoversReaders
  BY DEF QuietInv
<1> QED
  BY <1>1, <1>2, <1>3, <1>4, PTL DEF Spec
=============================================================================
