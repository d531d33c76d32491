---------------------------- MODULE OrgansProofs ----------------------------
(***************************************************************************)
(* Proofs about the organs that live on the bus, for every ring size, set  *)
(* of readers, keys, vectors, bindings, signatures and values found in a   *)
(* source byte that a handler leaves unset.                                *)
(***************************************************************************)
EXTENDS Organs, TLAPS

----------------------------------------------------------------------------
\* The inductive invariant.

\* What the organs pump, and what lies in the slots.
Sent  == [type : AllTypes, source : 0 .. 255, target : 0 .. 255]
Cells == [type : AllTypes \union {"BLANK"}, source : 0 .. 255, target : 0 .. 255, id : Nat]

\* The ring as the organs use it.
RingShape ==
    /\ blood \in [Slots -> Cells]
    /\ capacity \in Base .. Volume
    /\ systole \in Slots
    /\ diastole \in Slots
    /\ heads \in [Organs -> Slots]
    /\ nextId \in Nat \ {0}
    /\ drops \in Nat
    /\ pumps \in Nat
    /\ call \in [organ : Organs \union {NoOrgan}, head : Slots, out : Seq(Cells), max : Nat]

\* The stack: a handler that is to halt the processor has one globule left, the
\* alert; one that carries a frame has nothing else; and a halted processor has no
\* handler.
StackShape ==
    /\ handler \in [todo : Seq(Sent), halt : {"running", "waiting", "dead"}]
    /\ cpu \in {"running", "waiting", "dead"}
    /\ handler.todo = <<>> => handler.halt = "running"
    /\ handler.halt # "running" =>
          /\ Len(handler.todo) = 1
          /\ handler.todo[1].type = "WHITE" /\ handler.todo[1].target = BROADCAST
    /\ \A k \in 1 .. Len(handler.todo) : Frame(handler.todo[k]) => Len(handler.todo) = 1
    /\ cpu # "running" => handler.todo = <<>>

Counts == breaths \in Nat /\ frames \in Nat

OrgansInv ==
    RingShape /\ StackShape /\ Counts /\ AlarmBeforeHalt /\ LungsAccounted

----------------------------------------------------------------------------
\* The ring.

\* A collection or a step of a reader changes no globule and no count, and the reader
\* takes what lies in the ring.
LEMMA ReadersKeepRing ==
    ASSUME RingShape,
           \/ Gc \/ AbsorbStep \/ AbsorbReturn
           \/ \E o \in Organs, max \in Batches : Absorb(o, max)
    PROVE  RingShape' /\ UNCHANGED <<blood, nextId, drops>>
<1> USE BusAssumption
<1>s. ASSUME NEW i \in Slots PROVE Succ(i) \in Slots
  BY <1>s DEF Succ, Slots, RingShape
<1>1. CASE Gc
  BY <1>1 DEF Gc, RingShape
<1>2. ASSUME NEW o \in Organs, NEW max \in Batches, Absorb(o, max)
      PROVE  RingShape' /\ UNCHANGED <<blood, nextId, drops>>
  <2>1. /\ call' \in [organ : Organs \union {NoOrgan}, head : Slots, out : Seq(Cells), max : Nat]
        /\ Len(call'.out) = 0
    BY <1>2 DEF Absorb, RingShape
  <2> QED
    BY <1>2, <2>1 DEF Absorb, RingShape
<1>3. CASE AbsorbStep
  <2> DEFINE g == blood[call.head]
  <2>1. call.head \in Slots /\ call.out \in Seq(Cells) /\ g \in Cells
    BY DEF RingShape
  <2>2. call'.out \in Seq(Cells)
    <3>1. CASE Addressed(g, call.organ)
      <4>1. call'.out = Append(call.out, g)
        BY <1>3, <3>1 DEF AbsorbStep, RingShape
      <4> QED
        BY <2>1, <4>1
    <3>2. CASE ~Addressed(g, call.organ)
      <4>1. call'.out = call.out
        BY <1>3, <3>2 DEF AbsorbStep, RingShape
      <4> QED
        BY <2>1, <4>1
    <3> QED
      BY <3>1, <3>2
  <2>3. call' \in [organ : Organs \union {NoOrgan}, head : Slots, out : Seq(Cells), max : Nat]
    BY <1>3, <1>s, <2>1, <2>2 DEF AbsorbStep, RingShape
  <2> QED
    BY <1>3, <2>2, <2>3 DEF AbsorbStep, RingShape
<1>4. CASE AbsorbReturn
  <2>1. /\ call' \in [organ : Organs \union {NoOrgan}, head : Slots, out : Seq(Cells), max : Nat]
        /\ Len(call'.out) = 0
    BY <1>4 DEF AbsorbReturn, NoCall, Slots
  <2>2. heads' \in [Organs -> Slots]
    BY <1>4 DEF AbsorbReturn, RingShape
  <2> QED
    BY <1>4, <2>1, <2>2 DEF AbsorbReturn, RingShape
<1> QED
  BY <1>1, <1>2, <1>3, <1>4

\* A pump either drops the globule and says so, or stamps it as the newest one.
LEMMA PumpShape ==
    ASSUME RingShape, NEW p \in Sent, Pump(p)
    PROVE  /\ RingShape'
           /\ \/ nextId' = nextId /\ drops' = drops + 1 /\ p.type # "WHITE"
              \/ /\ nextId' = nextId + 1 /\ drops' = drops
                 /\ systole \in Slots /\ blood'[systole] = Stamp(p, nextId)
<1> USE BusAssumption
<1>s. ASSUME NEW i \in Slots PROVE Succ(i) \in Slots
  BY <1>s DEF Succ, Slots, RingShape
<1>1. CASE PumpRefused(p)
  <2>1. p.type # "WHITE"
    BY <1>1 DEF PumpRefused, Barred, Priority
  <2> QED
    BY <1>1, <2>1 DEF PumpRefused, RingShape
<1>2. CASE PumpAccepted(p)
  <2>1. Stamp(p, nextId) \in Cells
    BY DEF Stamp, Cells, Sent, RingShape
  <2>3. /\ blood' \in [Slots -> Cells]
        /\ systole \in Slots /\ blood'[systole] = Stamp(p, nextId)
    BY <1>2, <2>1 DEF PumpAccepted, RingShape
  <2>4. capacity' \in Base .. Volume
    BY <1>2 DEF PumpAccepted, NewCapacity, RingShape
  <2>5. diastole' \in Slots /\ systole' \in Slots
    BY <1>2, <1>s DEF PumpAccepted, NewDiastole, RingShape
  <2>6. heads' \in [Organs -> Slots]
    BY <1>2, <1>s DEF PumpAccepted, NewHeads, RingShape
  <2>7. /\ call' = call /\ nextId' = nextId + 1 /\ drops' = drops /\ pumps' = pumps + 1
        /\ nextId' \in Nat \ {0} /\ pumps' \in Nat
    BY <1>2 DEF PumpAccepted, RingShape
  <2>8. RingShape'
    BY <2>3, <2>4, <2>5, <2>6, <2>7 DEF RingShape
  <2> QED
    BY <2>3, <2>7, <2>8
<1> QED
  BY <1>1, <1>2 DEF Pump

----------------------------------------------------------------------------
\* The lungs.

\* A frame is on the stack when one of the globules left to pump is one.
LEMMA InhalingMeans ==
    ASSUME NEW s \in Seq(Sent)
    PROVE  (\E p \in Range(s) : Frame(p)) <=> \E k \in 1 .. Len(s) : Frame(s[k])
<1>1. Range(s) = {s[k] : k \in 1 .. Len(s)}
  BY DEF Range
<1> QED
  BY <1>1

\* The frames that have left the stack, for a number of frames inhaled so far.
Past(n, s) == n - (IF \E k \in 1 .. Len(s) : Frame(s[k]) THEN 1 ELSE 0)

LEMMA LungsMean ==
    ASSUME handler.todo \in Seq(Sent)
    PROVE  LungsAccounted <=> /\ breaths <= Past(frames, handler.todo)
                              /\ Past(frames, handler.todo) - breaths <= drops
                              /\ breaths < nextId
<1>1. Inhaling <=> \E k \in 1 .. Len(handler.todo) : Frame(handler.todo[k])
  BY InhalingMeans DEF Inhaling
<1> QED
  BY <1>1 DEF LungsAccounted, Past

LEMMA LungsMeanNext ==
    ASSUME handler'.todo \in Seq(Sent)
    PROVE  LungsAccounted' <=> /\ breaths' <= Past(frames', handler'.todo)
                               /\ Past(frames', handler'.todo) - breaths' <= drops'
                               /\ breaths' < nextId'
<1>1. Inhaling' <=> \E k \in 1 .. Len(handler'.todo) : Frame(handler'.todo[k])
  BY InhalingMeans DEF Inhaling
<1> QED
  BY <1>1 DEF LungsAccounted, Past

----------------------------------------------------------------------------
\* The handlers.

\* A handler begins: no frame among its globules, or one frame and nothing else, and
\* the alert last when it is to halt.
LEMMA HandleKeeps ==
    ASSUME OrgansInv, NEW ps \in Seq(Sent), NEW h \in {"running", "waiting", "dead"},
           Handle(ps, h), Len(ps) > 0,
           UNCHANGED <<cpu, breaths>>,
           h # "running" =>
             Len(ps) = 1 /\ ps[1].type = "WHITE" /\ ps[1].target = BROADCAST,
           \/ frames' = frames /\ \A k \in 1 .. Len(ps) : ~Frame(ps[k])
           \/ frames' = frames + 1 /\ Len(ps) = 1 /\ Frame(ps[1])
    PROVE  OrgansInv'
<1>1. /\ RingShape /\ StackShape /\ Counts /\ AlarmBeforeHalt
      /\ LungsAccounted
  BY DEF OrgansInv
<1>2. /\ handler.todo = <<>> /\ cpu = "running" /\ cpu' = "running" /\ UNCHANGED vars
      /\ handler'.todo = ps /\ handler'.halt = h
      /\ handler' \in [todo : Seq(Sent), halt : {"running", "waiting", "dead"}]
  BY DEF Handle, Idle, NoHandler
<1>3. RingShape'
  BY <1>1, <1>2 DEF vars, RingShape
<1>4. ps # <<>>
  OBVIOUS
<1>5. StackShape'
  BY <1>2, <1>4 DEF StackShape
<1>6. Counts' /\ AlarmBeforeHalt'
  BY <1>1, <1>2 DEF Counts, AlarmBeforeHalt
<1>7. LungsAccounted'
  <2>1. handler.todo \in Seq(Sent) /\ Len(handler.todo) = 0
    BY <1>1, <1>2 DEF StackShape
  <2>2. Past(frames, handler.todo) = frames
    BY <1>1, <2>1 DEF Past, Counts
  <2>3. Past(frames', ps) = frames
    BY <1>1 DEF Past, Counts
  <2>4. breaths <= frames /\ frames - breaths <= drops /\ breaths < nextId
    BY <1>1, <2>1, <2>2, LungsMean
  <2>5. breaths' = breaths /\ drops' = drops /\ nextId' = nextId
    BY <1>2 DEF vars
  <2> QED
    BY <1>2, <2>3, <2>4, <2>5, LungsMeanNext
<1> QED
  BY <1>3, <1>5, <1>6, <1>7 DEF OrgansInv

\* A globule of the handler is pumped; with the last one the handler returns.
LEMMA EmitKeeps ==
    ASSUME OrgansInv, Emit
    PROVE  OrgansInv'
<1> DEFINE todo == handler.todo
           p == Head(handler.todo)
<1>1. /\ RingShape /\ StackShape /\ Counts /\ LungsAccounted
  BY DEF OrgansInv
<1>2. todo \in Seq(Sent) /\ todo # <<>> /\ Len(todo) \in Nat \ {0} /\ p = todo[1] /\ p \in Sent
  BY <1>1 DEF Emit, StackShape
<1>3. /\ RingShape'
      /\ \/ nextId' = nextId /\ drops' = drops + 1 /\ p.type # "WHITE"
         \/ /\ nextId' = nextId + 1 /\ drops' = drops
            /\ systole \in Slots /\ blood'[systole] = Stamp(p, nextId)
  BY <1>1, <1>2, PumpShape DEF Emit
<1>4. cpu = "running"
  BY <1>1, <1>2 DEF StackShape
<1>5. CASE Len(todo) = 1
  <2>1. handler' = NoHandler /\ cpu' = handler.halt
    BY <1>5 DEF Emit
  <2>2. StackShape' /\ handler'.todo = <<>> /\ handler'.todo \in Seq(Sent)
    BY <1>1, <2>1 DEF StackShape, NoHandler
  <2>3. AlarmBeforeHalt'
    <3> SUFFICES ASSUME cpu' # "running"
                 PROVE  \E i \in Slots : /\ blood'[i].id = nextId' - 1
                                         /\ blood'[i].type = "WHITE"
                                         /\ blood'[i].target = BROADCAST
      BY DEF AlarmBeforeHalt
    <3>1. p.type = "WHITE" /\ p.target = BROADCAST
      BY <1>1, <1>2, <2>1 DEF StackShape
    <3>2. nextId' = nextId + 1 /\ systole \in Slots /\ blood'[systole] = Stamp(p, nextId)
      BY <1>3, <3>1
    <3>3. nextId' - 1 = nextId
      BY <1>1, <3>2 DEF RingShape
    <3>4. /\ blood'[systole].id = nextId /\ blood'[systole].type = "WHITE"
          /\ blood'[systole].target = BROADCAST
      BY <3>1, <3>2 DEF Stamp
    <3> QED
      BY <3>2, <3>3, <3>4
  <2>4. Past(frames, todo) = frames - (IF Frame(p) THEN 1 ELSE 0)
    BY <1>2, <1>5 DEF Past
  <2>5. frames' = frames /\ Past(frames', handler'.todo) = frames
    BY <1>1, <2>2 DEF Emit, Past, Counts
  <2>6. /\ breaths <= Past(frames, todo) /\ Past(frames, todo) - breaths <= drops
        /\ breaths < nextId
    BY <1>1, <1>2, LungsMean
  <2>7. breaths' = IF Frame(p) /\ nextId' # nextId THEN breaths + 1 ELSE breaths
    BY DEF Emit, Breath
  <2>8. breaths \in Nat /\ frames \in Nat /\ nextId \in Nat /\ drops \in Nat
    BY <1>1 DEF Counts, RingShape
  <2>9. /\ breaths' <= frames /\ frames - breaths' <= drops' /\ breaths' < nextId'
        /\ breaths' \in Nat
    BY <1>3, <2>4, <2>6, <2>7, <2>8
  <2>10. LungsAccounted' /\ Counts'
    BY <2>2, <2>5, <2>8, <2>9, LungsMeanNext DEF Counts
  <2> QED
    BY <1>3, <2>2, <2>3, <2>10 DEF OrgansInv
<1>6. CASE Len(todo) # 1
  <2>1. handler' = [handler EXCEPT !.todo = Tail(todo)] /\ cpu' = cpu
    BY <1>6 DEF Emit
  <2>2. handler'.todo = Tail(todo) /\ handler'.halt = handler.halt
    BY <1>1, <2>1 DEF StackShape
  <2>3. /\ Tail(todo) \in Seq(Sent) /\ Len(Tail(todo)) = Len(todo) - 1
        /\ \A k \in 1 .. Len(Tail(todo)) : Tail(todo)[k] = todo[k + 1]
    BY <1>2
  <2>4. handler.halt = "running" /\ \A k \in 1 .. Len(todo) : ~Frame(todo[k])
    BY <1>1, <1>6 DEF StackShape
  <2>5. \A k \in 1 .. Len(Tail(todo)) : ~Frame(Tail(todo)[k])
    BY <1>2, <2>3, <2>4
  <2>6. StackShape'
    <3>1. handler' \in [todo : Seq(Sent), halt : {"running", "waiting", "dead"}]
      BY <1>1, <2>1, <2>3 DEF StackShape
    <3> QED
      BY <1>4, <2>1, <2>2, <2>4, <2>5, <3>1 DEF StackShape
  <2>7. AlarmBeforeHalt'
    BY <1>4, <2>1 DEF AlarmBeforeHalt
  <2>8. ~Frame(p)
    BY <1>2, <2>4
  <2>9. breaths' = breaths /\ frames' = frames
    BY <2>8 DEF Emit, Breath
  <2>10. Past(frames, todo) = frames /\ Past(frames', handler'.todo) = frames
    BY <1>1, <2>2, <2>4, <2>5, <2>9 DEF Past, Counts
  <2>11. breaths <= frames /\ frames - breaths <= drops /\ breaths < nextId
    BY <1>1, <1>2, <2>10, LungsMean
  <2>12. breaths \in Nat /\ frames \in Nat /\ nextId \in Nat /\ drops \in Nat
    BY <1>1 DEF Counts, RingShape
  <2>13. breaths' <= frames /\ frames - breaths' <= drops' /\ breaths' < nextId'
    BY <1>3, <2>9, <2>11, <2>12
  <2>14. LungsAccounted' /\ Counts'
    BY <2>2, <2>3, <2>9, <2>10, <2>12, <2>13, LungsMeanNext DEF Counts
  <2> QED
    BY <1>3, <2>6, <2>7, <2>14 DEF OrgansInv
<1> QED
  BY <1>5, <1>6

\* A step that leaves the globules, the stack and the counts, and may wake the
\* processor.
LEMMA QuietKeeps ==
    ASSUME OrgansInv, RingShape',
           UNCHANGED <<blood, nextId, drops, handler, breaths, frames>>,
           cpu' = cpu \/ cpu' = "running"
    PROVE  OrgansInv'
<1>1. StackShape /\ Counts /\ AlarmBeforeHalt /\ LungsAccounted
  BY DEF OrgansInv
<1>2. StackShape' /\ Counts'
  BY <1>1 DEF StackShape, Counts
<1>3. AlarmBeforeHalt'
  BY <1>1 DEF AlarmBeforeHalt
<1>4. LungsAccounted'
  BY <1>1, <1>2, LungsMean, LungsMeanNext DEF StackShape
<1> QED
  BY <1>2, <1>3, <1>4 DEF OrgansInv

----------------------------------------------------------------------------
\* The globules of the handlers.

\* The globules of the organs are no frames, but for those of the lungs.
LEMMA OrganGlobules ==
    /\ \A g \in {Globule("RED", SENSORY, CORTEX), Globule("YELLOW", SENSORY, BROADCAST),
                 Globule("YELLOW", REFLEX, BROADCAST), Globule("WHITE", SWARM, IMMUNE)} :
          g \in Sent /\ ~Frame(g)
    /\ \A s \in Strays \union {REFLEX, POSTURE} :
          /\ Globule("WHITE", s, BROADCAST) \in Sent
          /\ ~Frame(Globule("WHITE", s, BROADCAST))
          /\ Globule("WHITE", s, BROADCAST).type = "WHITE"
          /\ Globule("WHITE", s, BROADCAST).target = BROADCAST
    /\ \A s \in Strays : Globule("WHITE", s, IMMUNE) \in Sent /\ ~Frame(Globule("WHITE", s, IMMUNE))
BY OrgansAssumption
DEF Globule, Sent, Frame, AllTypes, SENSORY, CORTEX, BROADCAST, NETWORK, REFLEX, POSTURE,
    IMMUNE, SWARM

\* A handler of one globule.
LEMMA OneGlobule ==
    ASSUME NEW g \in Sent
    PROVE  <<g>> \in Seq(Sent) /\ Len(<<g>>) = 1 /\ <<g>>[1] = g
OBVIOUS

\* Handlers of one globule that is no frame.
LEMMA OneKeeps ==
    ASSUME OrgansInv, NEW g \in Sent, ~Frame(g), NEW h \in {"running", "waiting", "dead"},
           h = "running" \/ (g.type = "WHITE" /\ g.target = BROADCAST),
           Handle(<<g>>, h), UNCHANGED <<cpu, breaths, frames>>
    PROVE  OrgansInv'
<1> DEFINE ps == <<g>>
<1>1. ps \in Seq(Sent) /\ Len(ps) = 1 /\ ps[1] = g
  BY OneGlobule, Zenon
<1>2. Handle(ps, h)
  OBVIOUS
<1> HIDE DEF ps
<1>3. \A k \in 1 .. Len(ps) : ~Frame(ps[k])
  BY <1>1
<1>4. h # "running" => (Len(ps) = 1 /\ ps[1].type = "WHITE" /\ ps[1].target = BROADCAST)
  BY <1>1, Zenon
<1>5. frames' = frames /\ UNCHANGED <<cpu, breaths>> /\ Len(ps) > 0
  BY <1>1
<1> QED
  BY <1>1, <1>2, <1>3, <1>4, <1>5, HandleKeeps

\* A frame comes in: control for the kernel or data for the cortex.
LEMMA InhaleKeeps ==
    ASSUME OrgansInv, NEW control \in BOOLEAN, Inhale(control)
    PROVE  OrgansInv'
<1> DEFINE g == IF control THEN Globule("YELLOW", NETWORK, KERNEL)
                ELSE Globule("RED", NETWORK, CORTEX)
           ps == <<g>>
<1>1. g \in Sent /\ Frame(g)
  BY DEF Globule, Sent, Frame, AllTypes, NETWORK, KERNEL, CORTEX
<1>2. Handle(ps, "running") /\ frames' = frames + 1 /\ UNCHANGED <<cpu, breaths>>
  BY DEF Inhale
<1> HIDE DEF g
<1>3. ps \in Seq(Sent) /\ Len(ps) = 1 /\ ps[1] = g
  BY <1>1, OneGlobule, Zenon
<1> HIDE DEF ps
<1>4. Frame(ps[1]) /\ Len(ps) > 0
  BY <1>1, <1>3
<1> QED
  BY <1>2, <1>3, <1>4, HandleKeeps

\* The three globules of an overheated processor.
LEMMA OverheatKeeps ==
    ASSUME OrgansInv, Overheat
    PROVE  OrgansInv'
<1> DEFINE a == Globule("WHITE", REFLEX, BROADCAST)
           b == Globule("YELLOW", REFLEX, BROADCAST)
           ps == <<a, b>> \o <<b>>
<1>1. a \in Sent /\ b \in Sent /\ ~Frame(a) /\ ~Frame(b)
  BY DEF Globule, Sent, Frame, AllTypes, REFLEX, NETWORK, BROADCAST
<1>2. Handle(ps, "running") /\ UNCHANGED <<cpu, breaths, frames>>
  BY DEF Overheat, Burn
<1> HIDE DEF a, b
<1>3. /\ ps \in Seq(Sent) /\ Len(ps) = 3
      /\ ps[1] = a /\ ps[2] = b /\ ps[3] = b
  <2>1. <<a, b>> \in Seq(Sent) /\ <<b>> \in Seq(Sent)
    BY <1>1
  <2>2. Len(<<a, b>>) = 2 /\ Len(<<b>>) = 1
    OBVIOUS
  <2> QED
    BY <2>1, <2>2
<1> HIDE DEF ps
<1>4. \A k \in 1 .. Len(ps) : ~Frame(ps[k])
  BY <1>1, <1>3
<1> QED
  BY <1>2, <1>3, <1>4, HandleKeeps

LEMMA OrgansStart == OrgansInit => OrgansInv
<1> SUFFICES ASSUME OrgansInit PROVE OrgansInv
  OBVIOUS
<1> USE BusAssumption
<1>1. Blank \in Cells
  BY DEF Blank, Cells, CORTEX
<1>2. /\ NoCall \in [organ : Organs \union {NoOrgan}, head : Slots, out : Seq(Cells), max : Nat]
      /\ Len(NoCall.out) = 0
  BY DEF NoCall, Slots
<1>3. RingShape
  BY <1>1, <1>2 DEF OrgansInit, Init, RingShape, Slots
<1>5. StackShape /\ Counts /\ handler.todo \in Seq(Sent) /\ Len(handler.todo) = 0
  BY DEF OrgansInit, StackShape, NoHandler, Counts
<1>6. AlarmBeforeHalt
  BY DEF OrgansInit, AlarmBeforeHalt
<1>7. LungsAccounted
  <2>1. frames = 0 /\ breaths = 0 /\ drops = 0 /\ nextId = 1
    BY DEF OrgansInit, Init
  <2>2. Past(frames, handler.todo) = 0
    <3>1. ~ \E k \in 1 .. Len(handler.todo) : Frame(handler.todo[k])
      BY <1>5
    <3>2. Past(frames, handler.todo) = frames - 0
      BY <3>1, Zenon DEF Past
    <3> QED
      BY <2>1, <3>2
  <2>3. /\ breaths <= Past(frames, handler.todo)
        /\ Past(frames, handler.todo) - breaths <= drops
        /\ breaths < nextId
    BY <2>1, <2>2
  <2> QED
    BY <1>5, <2>3, LungsMean, Zenon
<1> QED
  BY <1>3, <1>5, <1>6, <1>7 DEF OrgansInv

LEMMA OrgansStep ==
    ASSUME OrgansInv, [OrgansNext]_allVars
    PROVE  OrgansInv'
<1>0. RingShape
  BY DEF OrgansInv
<1>u. ASSUME UNCHANGED <<vars, handler, breaths, frames>>, cpu' = cpu \/ cpu' = "running"
      PROVE  OrgansInv'
  <2>1. UNCHANGED vars
    BY <1>u
  <2>2. RingShape' /\ UNCHANGED <<blood, nextId, drops>>
    BY <1>0, <2>1 DEF vars, RingShape
  <2> QED
    BY <1>u, <2>2, QuietKeeps
<1>r. ASSUME \/ Gc \/ AbsorbStep \/ AbsorbReturn
             \/ \E o \in Organs, max \in Batches : Absorb(o, max),
             UNCHANGED <<handler, cpu, breaths, frames>>
      PROVE  OrgansInv'
  <2>1. RingShape' /\ UNCHANGED <<blood, nextId, drops>>
    BY <1>0, <1>r, ReadersKeepRing
  <2> QED
    BY <1>r, <2>1, QuietKeeps
<1>1. CASE Emit
  BY <1>1, EmitKeeps
<1>2. ASSUME NEW k \in Keys, Keystroke(k) PROVE OrgansInv'
  BY <1>2, OneKeeps, OrganGlobules DEF Keystroke
<1>3. CASE Retina \/ Serial
  BY <1>3, OneKeeps, OrganGlobules DEF Retina, Serial
<1>4. CASE Timer
  BY <1>4, OneKeeps, OrganGlobules DEF Timer
<1>5. ASSUME NEW control \in BOOLEAN, Inhale(control) PROVE OrgansInv'
  BY <1>5, InhaleKeeps
<1>6. ASSUME NEW b \in Bindings, Bind(b[1], b[2]) PROVE OrgansInv'
  BY <1>6, <1>u DEF Bind
<1>7. ASSUME NEW v \in Vectors, Reflex(v) PROVE OrgansInv'
  <2>1. CASE reflexes[v] = "pain"
    BY <1>7, <2>1, OneKeeps, OrganGlobules DEF Reflex
  <2>2. CASE reflexes[v] # "pain"
    BY <1>7, <2>2, OneKeeps, OrganGlobules DEF Reflex, Burn
  <2> QED
    BY <2>1, <2>2
<1>8. CASE Overheat
  BY <1>8, OverheatKeeps
<1>9. CASE Interrupt
  BY <1>9, <1>u DEF Interrupt
<1>10. CASE PostureFault
  BY <1>10, OneKeeps, OrganGlobules DEF PostureFault
<1>11. ASSUME NEW sig \in Native, TrustDna(sig) PROVE OrgansInv'
  BY <1>11, <1>u DEF TrustDna
<1>12. ASSUME NEW s \in Strays, SimulateDeath(s) PROVE OrgansInv'
  BY <1>12, OneKeeps, OrganGlobules DEF SimulateDeath
<1>13. ASSUME NEW s \in Strays, NEW w \in Weights, ApplyMutation(w, s) PROVE OrgansInv'
  <2>1. CASE IsSelf(DnaOf[w])
    BY <1>13, <2>1, <1>u DEF ApplyMutation
  <2>2. CASE ~IsSelf(DnaOf[w])
    BY <1>13, <2>2, OneKeeps, OrganGlobules DEF ApplyMutation, Foreign
  <2> QED
    BY <2>1, <2>2
<1>14. ASSUME NEW s \in Strays, NEW sig \in Senders, Pheromone(sig, s) PROVE OrgansInv'
  <2>1. CASE IsSelf(sig)
    BY <1>14, <2>1, OneKeeps, OrganGlobules DEF Pheromone
  <2>2. CASE ~IsSelf(sig)
    BY <1>14, <2>2, OneKeeps, OrganGlobules DEF Pheromone, Foreign
  <2> QED
    BY <2>1, <2>2
<1>15. ASSUME NEW o \in Organs \ {SENSORY}, Read(o) PROVE OrgansInv'
  BY <1>15, <1>r DEF Read, organVars
<1>16. CASE Reading
  BY <1>16, <1>r DEF Reading, organVars
<1>17. CASE ReadReturn
  BY <1>17, <1>r DEF ReadReturn
<1>18. CASE Collect
  BY <1>18, <1>r DEF Collect, organVars
<1>19. CASE UNCHANGED allVars
  BY <1>19, <1>u DEF allVars, organVars
<1> QED
  BY <1>1, <1>2, <1>3, <1>4, <1>5, <1>6, <1>7, <1>8, <1>9, <1>10, <1>11, <1>12, <1>13,
     <1>14, <1>15, <1>16, <1>17, <1>18, <1>19
  DEF OrgansNext

LEMMA OrgansAlways == OrgansSpec => []OrgansInv
<1>1. OrgansInit => OrgansInv
  BY OrgansStart
<1>2. OrgansInv /\ [OrgansNext]_allVars => OrgansInv'
  BY OrgansStep
<1> QED
  BY <1>1, <1>2, PTL DEF OrgansSpec

\* reflex_on_pain and shadow_simulate_death stop the processor only after the alert
\* that says so is the newest globule of the stream, full ring or not.
THEOREM OrgansAlarm == OrgansSpec => []AlarmBeforeHalt
<1>1. OrgansInv => AlarmBeforeHalt
  BY DEF OrgansInv
<1> QED
  BY <1>1, OrgansAlways, PTL

\* The breath rate of network_inhale counts every frame the bus took, once, and what
\* it does not count is among the drops of the bus.
THEOREM OrgansLungs == OrgansSpec => []LungsAccounted
<1>1. OrgansInv => LungsAccounted
  BY DEF OrgansInv
<1> QED
  BY <1>1, OrgansAlways, PTL
=============================================================================
