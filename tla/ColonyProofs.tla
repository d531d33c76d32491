---------------------------- MODULE ColonyProofs ----------------------------
(***************************************************************************)
(* Proofs about the gossip mesh, for any nodes and clients, any names,     *)
(* addresses and listen addresses, any limits of the code and any number   *)
(* of timeouts, failing writes, torn lines and crashes; and about the      *)
(* archive of a colony server, for any organisms, threats and heartbeats   *)
(* and any number of faults.                                               *)
(***************************************************************************)
EXTENDS ColonyMesh, ColonyRegistry, FiniteSetTheorems, SequenceTheorems, TLAPS

----------------------------------------------------------------------------
(* The mesh *)

\* The inductive invariant.

Envelopes == [id : Ids, ttl : Nat, from : Registrations, sentAt : Nat]
Logs == [lines : [Ids -> Seq(Nat)], open : BOOLEAN, last : SUBSET Ids]

\* An envelope was sent when its id was born, which is past; the id is one of a client or
\* one that the history m knows.
Genuine(e, birth, m, now) ==
    /\ e \in Envelopes
    /\ e.sentAt = birth[e.id] /\ birth[e.id] <= now
    /\ e.id \in ClientIds \/ m[e.id] # NoPeer

SoundTask(t, birth, m, now) ==
    /\ t = [node |-> t.node, env |-> t.env, round |-> t.round, peer |-> t.peer,
            try |-> t.try, todo |-> t.todo]
    /\ Genuine(t.env, birth, m, now)

SoundRequest(q, birth, m, now) == q.to \in Nodes /\ Genuine(q.env, birth, m, now)

\* birth is the time each id was minted, or composed by a client.
Shape(birth) ==
    /\ birth \in [Ids -> Nat]
    /\ \A i \in ClientIds : birth[i] = Composed
    /\ clock \in Nat
    /\ minted \in [Ids -> Nodes \union {NoPeer}]
    /\ log \in [Nodes -> Logs]
    /\ IsFiniteSet(handlers)
    /\ \A t \in tasks : SoundTask(t, birth, minted, clock)
    /\ \A q \in wire \union handlers : SoundRequest(q, birth, minted, clock)
    /\ \A n \in Nodes, i \in Ids \ ClientIds : minted[i] = NoPeer => Stored(n, i) = <<>>

\* The copies of id i that node n has accepted: those at work and those in its file.
Pending(n, i) == {q \in handlers : q.to = n /\ q.env.id = i}
Load(n, i) == Len(Stored(n, i)) + Cardinality(Pending(n, i))

\* The first second in which a k-th copy can be accepted, one window after the other.
Due(b, k) == b + (k - 1) * (Window + 1)

\* An entry s of the cache is not older than x, or x is so old that it may be forgotten.
Remembers(s, now, x) == (s # Never /\ s >= x) \/ now > Window + x

\* The lines of an id born in second b came no sooner than they were due; the last of the
\* copies was accepted while it was fresh, and is remembered.
Paced(lines, load, s, now, b) ==
    /\ \A k \in 1 .. Len(lines) : lines[k] >= Due(b, k)
    /\ load >= 1 => /\ Due(b, load) <= now
                    /\ Due(b, load) <= b + MaxAge + 1
                    /\ Remembers(s, now, Due(b, load))

Timed(birth) ==
    /\ seen \in [Nodes -> [Ids -> Nat \union {Never}]]
    /\ \A n \in Nodes, i \in Ids :
          Paced(Stored(n, i), Load(n, i), seen[n][i], Now, birth[i] \div Second)

ReplayInv == \E birth \in [Ids -> Nat] : Shape(birth) /\ Timed(birth)

\* No node meets more ids in a dedup window than its cache holds, so that the cache is
\* never cut.
Roomy == \A n \in Nodes : Size(Recent(n, Window)) < CacheCap

----------------------------------------------------------------------------
\* Seconds.

\* Comparing numbers by their quotients.
LEMMA QuotientOrder ==
    ASSUME NEW n \in Nat \ {0}, NEW x \in Int, NEW y \in Int,
           NEW r \in 0 .. n - 1, NEW s \in 0 .. n - 1, n * x + r <= n * y + s
    PROVE  x <= y
<1> SUFFICES ASSUME x >= y + 1 PROVE FALSE
  OBVIOUS
<1>1. PICK d \in Nat : x = y + 1 + d
  <2>1. x - (y + 1) \in Nat /\ x = y + 1 + (x - (y + 1))
    OBVIOUS
  <2> QED
    BY <2>1
<1>2. n * (y + 1 + d) = n * y + n + n * d
  OBVIOUS
<1>3. n * y \in Int /\ n * d \in Nat
  OBVIOUS
<1> QED
  BY <1>1, <1>2, <1>3

\* A time in ticks by its second and the rest.
LEMMA Quotient ==
    ASSUME NEW n \in Nat \ {0}, NEW a \in Int
    PROVE  /\ a \div n \in Int /\ a % n \in 0 .. n - 1
           /\ a = n * (a \div n) + (a % n)
OBVIOUS

\* The second of a later time is not smaller.
LEMMA SecondsGrow ==
    ASSUME NEW n \in Nat \ {0}, NEW a \in Int, NEW b \in Int, a <= b
    PROVE  a \div n <= b \div n
<1> DEFINE p == a \div n
           q == b \div n
           r == a % n
           s == b % n
<1>1. /\ p \in Int /\ q \in Int /\ r \in 0 .. n - 1 /\ s \in 0 .. n - 1
      /\ a = n * p + r /\ b = n * q + s
  BY Quotient
<1> HIDE DEF p, q, r, s
<1>2. n * p + r <= n * q + s
  BY <1>1
<1>3. p <= q
  BY <1>1, <1>2, QuotientOrder
<1> QED
  BY <1>3 DEF p, q

\* The second of a time after the start.
LEMMA SecondsNat ==
    ASSUME NEW n \in Nat \ {0}, NEW a \in Nat
    PROVE  a \div n \in Nat
<1>1. a \div n \in Int
  BY Quotient
<1>2. 0 \div n <= a \div n
  BY SecondsGrow
<1>3. 0 \div n = 0
  OBVIOUS
<1> QED
  BY <1>1, <1>2, <1>3

\* The seconds of two times are at most one further apart than the times are.
LEMMA SecondsApart ==
    ASSUME NEW n \in Nat \ {0}, NEW a \in Int, NEW b \in Int
    PROVE  a \div n <= b \div n + (a - b) \div n + 1
<1> DEFINE p == a \div n
           q == b \div n
           k == (a - b) \div n
           r == a % n
           s == b % n
           u == (a - b) % n
<1>1. /\ p \in Int /\ q \in Int /\ r \in 0 .. n - 1 /\ s \in 0 .. n - 1
      /\ a = n * p + r /\ b = n * q + s
  BY Quotient
<1>2. k \in Int /\ u \in 0 .. n - 1 /\ a - b = n * k + u
  <2>1. a - b \in Int
    OBVIOUS
  <2> QED
    BY <2>1, Quotient
<1> HIDE DEF p, q, k, r, s, u
<1>3. n * (q + k + 1) = n * q + n * k + n
  BY <1>1, <1>2
<1>4. n * p \in Int /\ n * q \in Int /\ n * k \in Int
  BY <1>1, <1>2
<1>5. n * p + r <= n * (q + k + 1) + (n - 1)
  BY <1>1, <1>2, <1>3, <1>4
<1>6. q + k + 1 \in Int /\ n - 1 \in 0 .. n - 1
  BY <1>1, <1>2
<1>7. p <= q + k + 1
  BY <1>1, <1>5, <1>6, QuotientOrder
<1> QED
  BY <1>7 DEF p, q, k

----------------------------------------------------------------------------
\* Windows.

LEMMA Limits ==
    /\ Window \in Nat /\ MaxAge \in Nat /\ Composed \in Nat /\ MaxHops \in Nat
    /\ Second \in Nat \ {0} /\ ClientIds \subseteq Ids /\ NoPeer \notin Nodes
    /\ NodeId \in [Nodes -> Names] /\ Bind \in [Nodes -> Addresses]
    /\ ClientFrom \in [Clients -> Registrations]
BY MeshAssumption

\* The windows follow each other.
LEMMA Windows ==
    ASSUME NEW b \in Nat, NEW k \in Nat \ {0}
    PROVE  /\ Due(b, k) \in Nat /\ Due(b, k) >= b /\ Due(b, 1) = b
           /\ Due(b, k + 1) = Due(b, k) + Window + 1
<1> DEFINE d == Window + 1
           j == k - 1
<1>1. d \in Nat /\ j \in Nat /\ j + 1 = k
  BY Limits
<1>2. Due(b, k) = b + j * d /\ Due(b, k + 1) = b + (j + 1) * d /\ Due(b, 1) = b + 0 * d
  BY DEF Due
<1> HIDE DEF d, j
<1>3. j * d \in Nat /\ (j + 1) * d = j * d + d /\ 0 * d = 0
  BY <1>1
<1>4. Due(b, k + 1) = Due(b, k) + d
  BY <1>1, <1>2, <1>3
<1> QED
  BY <1>1, <1>2, <1>3, <1>4, Limits DEF d

LEMMA WindowsGrow ==
    ASSUME NEW b \in Nat, NEW j \in Nat \ {0}, NEW k \in Nat, j <= k
    PROVE  Due(b, j) <= Due(b, k)
<1> DEFINE d == Window + 1
           x == j - 1
           y == k - j
<1>1. d \in Nat /\ x \in Nat /\ y \in Nat /\ k - 1 = x + y
  BY Limits
<1>2. Due(b, j) = b + x * d /\ Due(b, k) = b + (x + y) * d
  BY <1>1 DEF Due
<1> HIDE DEF d, x, y
<1>3. (x + y) * d = x * d + y * d /\ x * d \in Nat /\ y * d \in Nat
  BY <1>1
<1> QED
  BY <1>2, <1>3

\* Fewer copies, later, with nothing forgotten, are still as far apart.
LEMMA PacedLater ==
    ASSUME NEW b \in Nat, NEW now \in Nat, NEW now2 \in Nat, now <= now2,
           NEW load \in Nat, NEW load2 \in Nat, load2 <= load, NEW s, NEW s2,
           NEW lines, NEW lines2, Paced(lines, load, s, now, b),
           \A k \in 1 .. Len(lines2) : lines2[k] >= Due(b, k),
           \A x \in Nat : (x <= now /\ Remembers(s, now, x)) => Remembers(s2, now2, x),
           s \in Nat \union {Never}
    PROVE  Paced(lines2, load2, s2, now2, b)
<1> SUFFICES ASSUME load2 >= 1
             PROVE  /\ Due(b, load2) <= now2
                    /\ Due(b, load2) <= b + MaxAge + 1
                    /\ Remembers(s2, now2, Due(b, load2))
  BY DEF Paced
<1> DEFINE x == Due(b, load2)
           y == Due(b, load)
<1>1. x \in Nat /\ y \in Nat /\ x <= y
  <2>1. load2 \in Nat \ {0} /\ load \in Nat \ {0}
    OBVIOUS
  <2> QED
    BY <2>1, Windows, WindowsGrow
<1>2. y <= now /\ y <= b + MaxAge + 1 /\ Remembers(s, now, y)
  BY DEF Paced
<1> HIDE DEF x, y
<1>3. Window \in Nat /\ MaxAge \in Nat
  BY Limits
<1>4. x <= now /\ x <= b + MaxAge + 1
  BY <1>1, <1>2, <1>3
<1>5. Remembers(s, now, x)
  BY <1>1, <1>2, <1>3 DEF Remembers, Never
<1>6. Remembers(s2, now2, x)
  BY <1>1, <1>4, <1>5
<1> QED
  BY <1>1, <1>4, <1>6 DEF x

----------------------------------------------------------------------------
\* The gossip file.

Shorter(s, t) == Len(t) <= Len(s) /\ \A k \in 1 .. Len(t) : t[k] = s[k]
OneMore(s, t) ==
    Len(t) = Len(s) + 1 /\ t[Len(t)] = Now /\ \A k \in 1 .. Len(s) : t[k] = s[k]

\* What an append of id i leaves of f, finished or not.
Outcome(f, g, i) ==
    /\ g \in Logs
    /\ \A j \in Ids : \/ Shorter(f.lines[j], g.lines[j])
                      \/ j = i /\ OneMore(f.lines[j], g.lines[j])

LEMMA ShorterSelf == ASSUME NEW s \in Seq(Nat) PROVE Shorter(s, s)
<1>1. Len(s) \in Nat
  OBVIOUS
<1> QED
  BY <1>1 DEF Shorter

\* The last line is lost.
LEMMA UnspoiltLines ==
    ASSUME NEW f \in Logs
    PROVE  /\ Unspoilt(f) \in [Ids -> Seq(Nat)]
           /\ \A j \in Ids : Shorter(f.lines[j], Unspoilt(f)[j])
<1>1. f.lines \in [Ids -> Seq(Nat)]
  BY DEF Logs
<1>2. ASSUME NEW j \in Ids
      PROVE  Unspoilt(f)[j] \in Seq(Nat) /\ Shorter(f.lines[j], Unspoilt(f)[j])
  <2> DEFINE s == f.lines[j]
             m == Len(s) - 1
             t == SubSeq(s, 1, m)
  <2>1. s \in Seq(Nat) /\ Len(s) \in Nat
    BY <1>1
  <2>2. Unspoilt(f)[j] = IF j \in f.last THEN t ELSE s
    BY DEF Unspoilt
  <2> HIDE DEF s
  <2>3. m \in Int /\ m <= Len(s) /\ \A k \in 1 .. m : s[k] \in Nat
    BY <2>1, ElementOfSeq
  <2>4. /\ t \in Seq(Nat)
        /\ Len(t) = IF 1 <= m THEN m - 1 + 1 ELSE 0
        /\ \A k \in 1 .. m - 1 + 1 : t[k] = s[1 + k - 1]
    BY <2>3, SubSeqProperties
  <2> HIDE DEF m, t
  <2>5. Shorter(s, t)
    BY <2>1, <2>3, <2>4 DEF Shorter
  <2>6. Shorter(s, s)
    BY <2>1, ShorterSelf
  <2> QED
    BY <2>1, <2>2, <2>4, <2>5, <2>6 DEF s
<1> QED
  BY <1>2 DEF Unspoilt

LEMMA LineLines ==
    ASSUME NEW f \in Logs, NEW i \in Ids, Now \in Nat
    PROVE  /\ Line(f, i) \in [Ids -> Seq(Nat)]
           /\ \A j \in Ids : \/ Shorter(f.lines[j], Line(f, i)[j])
                             \/ j = i /\ OneMore(f.lines[j], Line(f, i)[j])
<1>1. f.lines \in [Ids -> Seq(Nat)]
  BY DEF Logs
<1>2. CASE f.open
  BY <1>2, UnspoiltLines DEF Line
<1>3. CASE ~f.open
  <2> DEFINE s == f.lines[i]
             t == Append(s, Now)
  <2>1. Line(f, i) = [f.lines EXCEPT ![i] = t]
    BY <1>3 DEF Line
  <2>2. s \in Seq(Nat)
    BY <1>1
  <2> HIDE DEF s
  <2>3. /\ t \in Seq(Nat) /\ Len(t) = Len(s) + 1 /\ t[Len(s) + 1] = Now
        /\ \A k \in 1 .. Len(s) : t[k] = s[k]
    BY <2>2, AppendProperties
  <2> HIDE DEF t
  <2>4. OneMore(s, t)
    BY <2>3 DEF OneMore
  <2>5. Line(f, i) \in [Ids -> Seq(Nat)] /\ Line(f, i)[i] = t
    BY <1>1, <2>1, <2>3
  <2>6. ASSUME NEW j \in Ids, j # i PROVE Shorter(f.lines[j], Line(f, i)[j])
    <3>1. Line(f, i)[j] = f.lines[j] /\ f.lines[j] \in Seq(Nat)
      BY <1>1, <2>1, <2>6
    <3> QED
      BY <3>1, ShorterSelf
  <2> QED
    BY <2>4, <2>5, <2>6 DEF s
<1> QED
  BY <1>2, <1>3

LEMMA AppendOutcome ==
    ASSUME NEW f \in Logs, NEW i \in Ids, Now \in Nat,
           NEW g \in {Logged(f, i)} \union LogCut(f, i)
    PROVE  Outcome(f, g, i)
<1>1. \A j \in Ids : f.lines[j] \in Seq(Nat)
  BY DEF Logs
<1>2. CASE g = f
  BY <1>1, <1>2, ShorterSelf DEF Outcome
<1>3. CASE g = [lines |-> Unspoilt(f), open |-> TRUE, last |-> {}]
  <2>1. g.lines = Unspoilt(f) /\ g \in Logs
    BY <1>3, UnspoiltLines DEF Logs
  <2> QED
    BY <2>1, UnspoiltLines DEF Outcome
<1>4. CASE \E o \in BOOLEAN, l \in SUBSET Ids :
             g = [lines |-> Line(f, i), open |-> o, last |-> l]
  <2>1. PICK o \in BOOLEAN, l \in SUBSET Ids :
             g = [lines |-> Line(f, i), open |-> o, last |-> l]
    BY <1>4
  <2>2. g.lines = Line(f, i) /\ g \in Logs
    BY <2>1, LineLines DEF Logs
  <2> QED
    BY <2>2, LineLines DEF Outcome
<1>5. \/ g = f
      \/ g = [lines |-> Unspoilt(f), open |-> TRUE, last |-> {}]
      \/ g = [lines |-> Line(f, i), open |-> FALSE, last |-> {}]
      \/ g = [lines |-> Line(f, i), open |-> TRUE, last |-> IF f.open THEN {} ELSE {i}]
  BY DEF Logged, LogCut
<1>6. {} \in SUBSET Ids /\ {i} \in SUBSET Ids
  OBVIOUS
<1> QED
  BY <1>2, <1>3, <1>4, <1>5, <1>6

----------------------------------------------------------------------------
\* Send calls and requests.

LEMMA TaskUpdates ==
    ASSUME NEW birth, NEW m, NEW now, NEW t, SoundTask(t, birth, m, now), NEW x
    PROVE  /\ SoundTask([t EXCEPT !.todo = x], birth, m, now)
           /\ SoundTask([t EXCEPT !.peer = x], birth, m, now)
           /\ SoundTask([t EXCEPT !.try = x], birth, m, now)
<1>1. t = [node |-> t.node, env |-> t.env, round |-> t.round, peer |-> t.peer,
           try |-> t.try, todo |-> t.todo]
  BY DEF SoundTask
<1>2. SoundTask([t EXCEPT !.todo = x], birth, m, now)
  BY <1>1 DEF SoundTask
<1>3. SoundTask([t EXCEPT !.peer = x], birth, m, now)
  BY <1>1 DEF SoundTask
<1>4. SoundTask([t EXCEPT !.try = x], birth, m, now)
  BY <1>1 DEF SoundTask
<1> QED
  BY <1>2, <1>3, <1>4

LEMMA TaskMoves ==
    ASSUME NEW birth, NEW m, NEW now, NEW t, SoundTask(t, birth, m, now)
    PROVE  /\ SoundTask(Idle(t), birth, m, now)
           /\ SoundTask(Retry(t), birth, m, now)
           /\ SoundTask(FailedTask(t), birth, m, now)
           /\ \A x, p : SoundTask([t EXCEPT !.todo = x, !.peer = p, !.try = 1], birth, m, now)
<1>1. SoundTask(Idle(t), birth, m, now)
  <2> DEFINE u == [t EXCEPT !.peer = NoPeer]
  <2>1. Idle(t) = [u EXCEPT !.try = 0]
    BY DEF Idle
  <2>2. SoundTask(u, birth, m, now)
    BY TaskUpdates
  <2> HIDE DEF u
  <2>3. SoundTask([u EXCEPT !.try = 0], birth, m, now)
    BY <2>2, TaskUpdates
  <2> QED
    BY <2>1, <2>3
<1>2. SoundTask(Retry(t), birth, m, now)
  BY TaskUpdates DEF Retry
<1>3. ASSUME NEW x, NEW p
      PROVE  SoundTask([t EXCEPT !.todo = x, !.peer = p, !.try = 1], birth, m, now)
  <2> DEFINE u == [t EXCEPT !.todo = x]
             v == [u EXCEPT !.peer = p]
  <2>1. [t EXCEPT !.todo = x, !.peer = p, !.try = 1] = [v EXCEPT !.try = 1]
    OBVIOUS
  <2>2. SoundTask(u, birth, m, now)
    BY TaskUpdates
  <2> HIDE DEF u
  <2>3. SoundTask(v, birth, m, now)
    BY <2>2, TaskUpdates
  <2> HIDE DEF v
  <2> QED
    BY <2>1, <2>3, TaskUpdates
<1> QED
  BY <1>1, <1>2, <1>3 DEF FailedTask

\* The request of a call is posted to a node, if to anybody.
LEMMA SentSound ==
    ASSUME NEW birth, NEW m, NEW now, NEW t, SoundTask(t, birth, m, now), NEW q \in Sent(t)
    PROVE  SoundRequest(q, birth, m, now)
<1>1. q = Request(t) /\ q.to \in Nodes
  BY DEF Sent
<1>2. q.env = t.env
  BY <1>1 DEF Request
<1> QED
  BY <1>1, <1>2 DEF SoundTask, SoundRequest

LEMMA FailedPostsSound ==
    ASSUME NEW birth, NEW m, NEW now, NEW t, SoundTask(t, birth, m, now),
           NEW q \in FailedPosts(t)
    PROVE  SoundRequest(q, birth, m, now)
BY TaskMoves, SentSound DEF FailedPosts

LEMMA NewTaskSound ==
    ASSUME NEW birth, NEW m, NEW now, NEW n, NEW e, Genuine(e, birth, m, now),
           NEW round, NEW known
    PROVE  SoundTask(NewTask(n, e, round, known), birth, m, now)
<1> DEFINE todo == {p \in known : p.name \notin {NodeId[n], e.from.name}}
<1>1. NewTask(n, e, round, known) = [node |-> n, env |-> e, round |-> round,
                                     peer |-> NoPeer, try |-> 0, todo |-> todo]
  BY DEF NewTask
<1> HIDE DEF todo
<1> QED
  BY <1>1 DEF SoundTask

\* An envelope with one hop less is the same envelope.
LEMMA RelayGenuine ==
    ASSUME NEW birth, NEW m, NEW now, NEW e, Genuine(e, birth, m, now), e.ttl > 1
    PROVE  Genuine([e EXCEPT !.ttl = @ - 1], birth, m, now)
<1> DEFINE f == [e EXCEPT !.ttl = @ - 1]
<1>1. e \in Envelopes /\ e.ttl - 1 \in Nat
  BY DEF Genuine, Envelopes
<1>2. f \in Envelopes /\ f.id = e.id /\ f.sentAt = e.sentAt
  BY <1>1 DEF Envelopes
<1> HIDE DEF f
<1>3. Genuine(f, birth, m, now)
  BY <1>2 DEF Genuine
<1> QED
  BY <1>3 DEF f

\* An envelope stays genuine.
LEMMA GenuineLater ==
    ASSUME NEW birth \in [Ids -> Nat], NEW m, NEW now \in Nat, NEW now2 \in Nat, now <= now2,
           NEW e, Genuine(e, birth, m, now)
    PROVE  Genuine(e, birth, m, now2)
<1>1. e.id \in Ids
  BY DEF Genuine, Envelopes
<1>2. birth[e.id] \in Nat /\ birth[e.id] <= now
  BY <1>1 DEF Genuine
<1> QED
  BY <1>2 DEF Genuine

LEMMA LiveSubset == ASSUME NEW ts PROVE Live(ts) \subseteq ts
BY DEF Live

\* The answers of a handler leave sound calls and requests.
LEMMA SuccessSound ==
    ASSUME NEW birth, NEW ts, \A t \in ts : SoundTask(t, birth, minted, clock),
           NEW q, Success(q, ts)
    PROVE  /\ \A t \in tasks' : SoundTask(t, birth, minted, clock)
           /\ wire' \subseteq wire
<1>1. tasks' \subseteq {IF t \in Waiting(q) THEN Idle(t) ELSE t : t \in ts}
  BY LiveSubset DEF Success
<1>2. \A t \in ts : SoundTask(Idle(t), birth, minted, clock)
  BY TaskMoves
<1> QED
  BY <1>1, <1>2 DEF Success

LEMMA FailureSound ==
    ASSUME NEW birth, Shape(birth), NEW q, Failure(q)
    PROVE  /\ \A t \in tasks' : SoundTask(t, birth, minted, clock)
           /\ \A r \in wire' : r \in wire \/ SoundRequest(r, birth, minted, clock)
<1>1. tasks' \subseteq {IF t \in Waiting(q) THEN FailedTask(t) ELSE t : t \in tasks}
  BY LiveSubset DEF Failure
<1>2. \A t \in tasks : /\ SoundTask(t, birth, minted, clock)
                       /\ SoundTask(FailedTask(t), birth, minted, clock)
  BY TaskMoves DEF Shape
<1>3. \A t \in tasks' : SoundTask(t, birth, minted, clock)
  BY <1>1, <1>2
<1>4. ASSUME NEW r \in wire', r \notin wire PROVE SoundRequest(r, birth, minted, clock)
  <2>1. PICK t \in Waiting(q) : r \in FailedPosts(t)
    BY <1>4 DEF Failure
  <2>2. t \in tasks
    BY <2>1 DEF Waiting
  <2> QED
    BY <1>2, <2>1, <2>2, FailedPostsSound
<1> QED
  BY <1>3, <1>4

----------------------------------------------------------------------------
\* The steps, and the shape of the mesh.

\* A step that mints nothing.
LEMMA ShapeFrame ==
    ASSUME NEW birth, Shape(birth), clock' = clock, minted' = minted,
           \A t \in tasks' : SoundTask(t, birth, minted, clock),
           \A q \in wire' : q \in wire \/ SoundRequest(q, birth, minted, clock),
           handlers' \subseteq handlers,
           log' = log
    PROVE  Shape(birth)'
<1>1. IsFiniteSet(handlers')
  BY FS_Subset DEF Shape
<1> QED
  BY <1>1 DEF Shape, Stored

\* One that leaves a file as an append of q may.
LEMMA ShapeFileFrame ==
    ASSUME NEW birth, Shape(birth), clock' = clock, minted' = minted,
           \A t \in tasks' : SoundTask(t, birth, minted, clock),
           \A r \in wire' : r \in wire \/ SoundRequest(r, birth, minted, clock),
           handlers' \subseteq handlers,
           NEW q \in handlers, NEW g, Outcome(log[q.to], g, q.env.id),
           log' = [log EXCEPT ![q.to] = g]
    PROVE  Shape(birth)'
<1>1. IsFiniteSet(handlers')
  BY FS_Subset DEF Shape
<1>2. /\ q.to \in Nodes /\ q.env.id \in Ids
      /\ q.env.id \in ClientIds \/ minted[q.env.id] # NoPeer
  BY DEF Shape, SoundRequest, Genuine, Envelopes
<1>3. log \in [Nodes -> Logs] /\ log' \in [Nodes -> Logs] /\ log'[q.to] = g
  BY <1>2 DEF Shape, Outcome
<1>4. ASSUME NEW n \in Nodes, NEW i \in Ids \ ClientIds, minted[i] = NoPeer
      PROVE  log'[n].lines[i] = <<>>
  <2>1. log[n].lines[i] = <<>>
    BY <1>4 DEF Shape, Stored
  <2>2. CASE n # q.to
    BY <1>2, <1>3, <2>1, <2>2
  <2>3. CASE n = q.to
    <3>1. i # q.env.id
      BY <1>2, <1>4
    <3>2. Shorter(<<>>, g.lines[i])
      BY <2>1, <2>3, <3>1 DEF Outcome
    <3>3. g.lines[i] \in Seq(Nat)
      BY <1>3 DEF Logs
    <3>4. g.lines[i] = <<>>
      BY <3>2, <3>3, EmptySeq DEF Shorter
    <3> QED
      BY <1>3, <2>3, <3>4
  <2> QED
    BY <2>2, <2>3
<1> QED
  BY <1>1, <1>3, <1>4 DEF Shape, Stored

LEMMA SendKeeps ==
    ASSUME NEW birth, Shape(birth), NEW t \in tasks, NEW p, Skip(t, p) \/ Post(t, p)
    PROVE  Shape(birth)'
<1>1. \A x \in tasks : SoundTask(x, birth, minted, clock)
  BY DEF Shape
<1>2. CASE Skip(t, p)
  <2> DEFINE u == [t EXCEPT !.todo = t.todo \ {p}]
  <2>1. SoundTask(u, birth, minted, clock)
    BY <1>1, TaskUpdates
  <2> HIDE DEF u
  <2>2. tasks' \subseteq tasks \union {u}
    BY <1>2, LiveSubset DEF Skip, Swap, u
  <2> QED
    BY <1>1, <1>2, <2>1, <2>2, ShapeFrame DEF Skip
<1>3. CASE Post(t, p)
  <2> DEFINE u == [t EXCEPT !.todo = t.todo \ {p}, !.peer = p, !.try = 1]
  <2>1. SoundTask(u, birth, minted, clock)
    BY <1>1, TaskMoves
  <2> HIDE DEF u
  <2>2. tasks' \subseteq tasks \union {u} /\ wire' = wire \union Sent(u)
    BY <1>3, LiveSubset DEF Post, Swap, u
  <2>3. \A q \in Sent(u) : SoundRequest(q, birth, minted, clock)
    BY <2>1, SentSound
  <2> QED
    BY <1>1, <1>3, <2>1, <2>2, <2>3, ShapeFrame DEF Post
<1> QED
  BY <1>2, <1>3

LEMMA TimeoutKeeps ==
    ASSUME NEW birth, Shape(birth), NEW t \in tasks, Timeout(t)
    PROVE  Shape(birth)'
<1>1. \A x \in tasks : SoundTask(x, birth, minted, clock)
  BY DEF Shape
<1>2. SoundTask(FailedTask(t), birth, minted, clock)
  BY <1>1, TaskMoves
<1>3. tasks' \subseteq tasks \union {FailedTask(t)}
  BY LiveSubset DEF Timeout, Swap
<1>4. wire' \subseteq wire \union FailedPosts(t)
  BY DEF Timeout
<1>5. \A q \in FailedPosts(t) : SoundRequest(q, birth, minted, clock)
  BY <1>1, FailedPostsSound
<1> QED
  BY <1>1, <1>2, <1>3, <1>4, <1>5, ShapeFrame DEF Timeout

LEMMA AnswerKeeps ==
    ASSUME NEW birth, Shape(birth), NEW q \in wire, Drop(q) \/ Duplicate(q) \/ Accept(q)
    PROVE  Shape(birth)'
<1>1. \A x \in tasks : SoundTask(x, birth, minted, clock)
  BY DEF Shape
<1>2. CASE Drop(q) \/ Duplicate(q)
  <2>1. Success(q, tasks) /\ UNCHANGED <<clock, minted, log, handlers>>
    BY <1>2 DEF Drop, Duplicate
  <2>2. (\A t \in tasks' : SoundTask(t, birth, minted, clock)) /\ wire' \subseteq wire
    BY <1>1, <2>1, SuccessSound
  <2> QED
    BY <2>1, <2>2, ShapeFrame
<1>3. CASE Accept(q)
  <2>1. handlers' = handlers \union {q} /\ UNCHANGED <<clock, minted, log, tasks, wire>>
    BY <1>3 DEF Accept
  <2>2. IsFiniteSet(handlers')
    BY <2>1, FS_AddElement DEF Shape
  <2> QED
    BY <2>1, <2>2 DEF Shape, Stored
<1> QED
  BY <1>2, <1>3

LEMMA NowNat == ASSUME clock \in Nat PROVE Now \in Nat
BY Limits, SecondsNat DEF Now

\* What a handler's append of its line leaves of the file, finished or not.
LEMMA HandlerOutcome ==
    ASSUME NEW birth, Shape(birth), NEW q \in handlers,
           NEW g \in {Logged(log[q.to], q.env.id)} \union LogCut(log[q.to], q.env.id)
    PROVE  Outcome(log[q.to], g, q.env.id)
<1>1. log[q.to] \in Logs /\ q.env.id \in Ids /\ Now \in Nat
  BY NowNat DEF Shape, SoundRequest, Genuine, Envelopes
<1> QED
  BY <1>1, AppendOutcome

LEMMA HalvesOutcome ==
    ASSUME NEW birth, Shape(birth), NEW q \in handlers, NEW left \in Halves(q)
    PROVE  Outcome(log[q.to], left.file, q.env.id)
<1>1. left.file = log[q.to] \/ left.file \in LogCut(log[q.to], q.env.id)
  BY DEF Halves
<1>2. log[q.to] \in LogCut(log[q.to], q.env.id)
  BY DEF LogCut
<1> QED
  BY <1>1, <1>2, HandlerOutcome

LEMMA StoreKeeps ==
    ASSUME NEW birth, Shape(birth), NEW q \in handlers, Store(q)
    PROVE  Shape(birth)'
<1>1. \A x \in tasks : SoundTask(x, birth, minted, clock)
  BY DEF Shape
<1>2. Genuine(q.env, birth, minted, clock)
  BY DEF Shape, SoundRequest
<1>3. \A t \in tasks \union Relay(q) : SoundTask(t, birth, minted, clock)
  <2>1. ASSUME NEW t \in Relay(q) PROVE SoundTask(t, birth, minted, clock)
    <3>1. /\ q.env.ttl > 1
          /\ t = NewTask(q.to, [q.env EXCEPT !.ttl = @ - 1], FALSE, KnownPeers(q.to)')
      BY <2>1 DEF Relay
    <3>2. Genuine([q.env EXCEPT !.ttl = @ - 1], birth, minted, clock)
      BY <1>2, <3>1, RelayGenuine
    <3> QED
      BY <3>1, <3>2, NewTaskSound
  <2> QED
    BY <1>1, <2>1
<1>4. (\A t \in tasks' : SoundTask(t, birth, minted, clock)) /\ wire' \subseteq wire
  <2>1. Success(q, tasks \union Relay(q))
    BY DEF Store
  <2> QED
    BY <1>3, <2>1, SuccessSound
<1>5. /\ log' = [log EXCEPT ![q.to] = Logged(log[q.to], q.env.id)]
      /\ handlers' \subseteq handlers /\ clock' = clock /\ minted' = minted
  BY DEF Store
<1>6. Outcome(log[q.to], Logged(log[q.to], q.env.id), q.env.id)
  BY HandlerOutcome
<1> QED
  BY <1>4, <1>5, <1>6, ShapeFileFrame

LEMMA StoreFailsKeeps ==
    ASSUME NEW birth, Shape(birth), NEW q \in handlers, StoreFails(q)
    PROVE  Shape(birth)'
<1>1. /\ \A t \in tasks' : SoundTask(t, birth, minted, clock)
      /\ \A r \in wire' : r \in wire \/ SoundRequest(r, birth, minted, clock)
  BY FailureSound DEF StoreFails
<1>2. PICK left \in Halves(q) : log' = [log EXCEPT ![q.to] = left.file]
  BY DEF StoreFails
<1>3. handlers' \subseteq handlers /\ clock' = clock /\ minted' = minted
  BY DEF StoreFails
<1>4. Outcome(log[q.to], left.file, q.env.id)
  BY HalvesOutcome
<1> QED
  BY <1>1, <1>2, <1>3, <1>4, ShapeFileFrame

\* A fresh id is born with the round; no envelope carries it yet.
LEMMA RoundKeeps ==
    ASSUME NEW birth, Shape(birth), NEW n \in Nodes, NEW i \in Ids \ ClientIds,
           GossipRound(n, i), NEW born, born = [birth EXCEPT ![i] = clock]
    PROVE  Shape(born)'
<1> DEFINE self == [name |-> NodeId[n], addr |-> Bind[n]]
           env == [id |-> i, ttl |-> MaxHops, from |-> self, sentAt |-> clock]
<1>1. /\ minted[i] = NoPeer /\ minted' = [minted EXCEPT ![i] = n]
      /\ UNCHANGED <<clock, log, wire, handlers>>
      /\ tasks' \subseteq tasks \union {NewTask(n, env, TRUE, KnownPeers(n))}
  BY LiveSubset DEF GossipRound
<1>2. /\ birth \in [Ids -> Nat] /\ clock \in Nat /\ minted \in [Ids -> Nodes \union {NoPeer}]
      /\ \A j \in ClientIds : birth[j] = Composed
  BY DEF Shape
<1>3. n # NoPeer
  BY Limits
<1>4. ASSUME NEW e, Genuine(e, birth, minted, clock) PROVE Genuine(e, born, minted', clock)
  <2>1. e.id # i /\ e.id \in Ids
    BY <1>1, <1>4 DEF Genuine, Envelopes
  <2>2. born[e.id] = birth[e.id] /\ minted'[e.id] = minted[e.id]
    BY <1>1, <1>2, <2>1
  <2> QED
    BY <1>4, <2>2 DEF Genuine
<1>5. Genuine(env, born, minted', clock)
  <2>1. self \in Registrations
    BY Limits DEF Registrations
  <2>2. env \in Envelopes /\ env.id = i /\ env.sentAt = clock
    BY <1>2, <2>1, Limits DEF Envelopes
  <2>3. born[i] = clock /\ minted'[i] = n
    BY <1>1, <1>2
  <2> HIDE DEF env
  <2> QED
    BY <1>2, <1>3, <2>2, <2>3 DEF Genuine
<1>6. SoundTask(NewTask(n, env, TRUE, KnownPeers(n)), born, minted', clock)
  <2> HIDE DEF env
  <2> QED
    BY <1>5, NewTaskSound
<1> HIDE DEF env
<1>7. \A t \in tasks' : SoundTask(t, born, minted', clock)
  <2>1. \A t \in tasks : SoundTask(t, born, minted', clock)
    BY <1>4 DEF Shape, SoundTask
  <2> QED
    BY <1>1, <1>6, <2>1
<1>8. \A q \in wire \union handlers : SoundRequest(q, born, minted', clock)
  BY <1>4 DEF Shape, SoundRequest
<1>9. ASSUME NEW k \in Nodes, NEW j \in Ids \ ClientIds, minted'[j] = NoPeer
      PROVE  log[k].lines[j] = <<>>
  BY <1>1, <1>2, <1>3, <1>9 DEF Shape, Stored
<1>10. \A j \in ClientIds : born[j] = Composed
  BY <1>2, Limits
<1>11. born \in [Ids -> Nat] /\ minted' \in [Ids -> Nodes \union {NoPeer}]
  BY <1>1, <1>2
<1>12. clock' \in Nat /\ log' \in [Nodes -> Logs] /\ IsFiniteSet(handlers')
  BY <1>1 DEF Shape
<1>13. /\ \A t \in tasks' : SoundTask(t, born, minted', clock')
       /\ \A q \in wire' \union handlers' : SoundRequest(q, born, minted', clock')
       /\ \A k \in Nodes, j \in Ids \ ClientIds :
             minted'[j] = NoPeer => log'[k].lines[j] = <<>>
  BY <1>1, <1>7, <1>8, <1>9
<1> QED
  BY <1>10, <1>11, <1>12, <1>13 DEF Shape, Stored

LEMMA ClientKeeps ==
    ASSUME NEW birth, Shape(birth), NEW c \in Clients, NEW n \in Nodes, NEW i \in ClientIds,
           NEW ttl \in {0, MaxHops}, NEW key, ClientPost(c, n, i, ttl, key)
    PROVE  Shape(birth)'
<1> DEFINE env == [id |-> i, ttl |-> ttl, from |-> ClientFrom[c], sentAt |-> Composed]
           q == [by |-> c, peer |-> NoPeer, to |-> n, env |-> env, key |-> key, try |-> 1]
<1>1. /\ wire' = wire \union {q} /\ UNCHANGED <<clock, minted, log, tasks, handlers>>
      /\ clock >= Composed
  BY DEF ClientPost
<1>2. q.to = n /\ q.env = env
  OBVIOUS
<1>3. Genuine(env, birth, minted, clock)
  <2>1. i \in Ids /\ ttl \in Nat /\ ClientFrom[c] \in Registrations /\ Composed \in Nat
    BY Limits
  <2>2. env \in Envelopes /\ env.id = i /\ env.sentAt = Composed
    BY <2>1 DEF Envelopes
  <2>3. birth[i] = Composed /\ clock \in Nat
    BY DEF Shape
  <2> HIDE DEF env
  <2> QED
    BY <1>1, <2>1, <2>2, <2>3 DEF Genuine
<1> HIDE DEF env, q
<1>4. SoundRequest(q, birth, minted, clock)
  BY <1>2, <1>3 DEF SoundRequest
<1>5. \A t \in tasks : SoundTask(t, birth, minted, clock)
  BY DEF Shape
<1> QED
  BY <1>1, <1>4, <1>5, ShapeFrame

\* The file that a restart finds, and whose unfinished append it is, if one's.
LEMMA RestartOutcome ==
    ASSUME NEW birth, Shape(birth), NEW n \in Nodes, Restart(n)
    PROVE  \E g \in Logs :
              /\ log' = [log EXCEPT ![n] = g]
              /\ seen' = [seen EXCEPT ![n] = LoadSeen(g.lines)]
              /\ g = log[n] \/ \E q \in handlers : q.to = n /\ Outcome(log[n], g, q.env.id)
<1>1. PICK left \in {[registry |-> peers[n], file |-> log[n]]}
                      \union UNION {Halves(q) : q \in AtWork(n)} :
         /\ log' = [log EXCEPT ![n] = left.file]
         /\ seen' = [seen EXCEPT ![n] = LoadSeen(left.file.lines)]
  BY DEF Restart
<1>2. CASE left = [registry |-> peers[n], file |-> log[n]]
  BY <1>1, <1>2 DEF Shape
<1>3. ASSUME NEW q \in AtWork(n), left \in Halves(q)
      PROVE  \E g \in Logs :
                /\ log' = [log EXCEPT ![n] = g]
                /\ seen' = [seen EXCEPT ![n] = LoadSeen(g.lines)]
                /\ g = log[n] \/ \E r \in handlers : r.to = n /\ Outcome(log[n], g, r.env.id)
  <2>1. q \in handlers /\ q.to = n
    BY DEF AtWork
  <2>2. Outcome(log[n], left.file, q.env.id)
    BY <1>3, <2>1, HalvesOutcome
  <2>3. left.file \in Logs
    BY <2>2 DEF Outcome
  <2> QED
    BY <1>1, <2>1, <2>2, <2>3
<1> QED
  BY <1>1, <1>2, <1>3

LEMMA RestartKeeps ==
    ASSUME NEW birth, Shape(birth), NEW n \in Nodes, Restart(n)
    PROVE  Shape(birth)'
<1>1. /\ clock' = clock /\ minted' = minted
      /\ tasks' \subseteq tasks /\ wire' \subseteq wire /\ handlers' \subseteq handlers
  BY DEF Restart
<1>2. PICK g \in Logs :
         /\ log' = [log EXCEPT ![n] = g]
         /\ g = log[n] \/ \E q \in handlers : q.to = n /\ Outcome(log[n], g, q.env.id)
  BY RestartOutcome
<1>3. \A t \in tasks' : SoundTask(t, birth, minted, clock)
  BY <1>1 DEF Shape
<1>4. CASE g = log[n]
  <2>1. log' = log
    BY <1>2, <1>4 DEF Shape
  <2> QED
    BY <1>1, <1>3, <2>1, ShapeFrame
<1>5. CASE \E q \in handlers : q.to = n /\ Outcome(log[n], g, q.env.id)
  BY <1>1, <1>2, <1>3, <1>5, ShapeFileFrame
<1> QED
  BY <1>2, <1>4, <1>5

LEMMA TickKeeps ==
    ASSUME NEW birth, Shape(birth), Tick
    PROVE  Shape(birth)'
<1>1. /\ clock \in Nat /\ clock' = clock + 1 /\ birth \in [Ids -> Nat]
      /\ UNCHANGED <<minted, log, tasks, wire, handlers>>
  BY DEF Tick, Shape
<1>2. clock' \in Nat /\ clock <= clock'
  BY <1>1
<1>3. ASSUME NEW e, Genuine(e, birth, minted, clock) PROVE Genuine(e, birth, minted, clock')
  BY <1>1, <1>2, <1>3, GenuineLater
<1>4. \A t \in tasks : SoundTask(t, birth, minted, clock')
  BY <1>3 DEF Shape, SoundTask
<1>5. \A q \in wire \union handlers : SoundRequest(q, birth, minted, clock')
  BY <1>3 DEF Shape, SoundRequest
<1> QED
  BY <1>1, <1>2, <1>4, <1>5 DEF Shape, Stored

\* The registry of peers is not part of the shape.
LEMMA RestKeeps ==
    ASSUME NEW birth, Shape(birth),
           (\E r \in Introductions : RegisterPeer(r[1], r[2])) \/ UNCHANGED vars
    PROVE  Shape(birth)'
<1>1. UNCHANGED <<clock, minted, log, tasks, wire, handlers>>
  BY DEF RegisterPeer, vars
<1> QED
  BY <1>1, ShapeFrame DEF Shape

----------------------------------------------------------------------------
\* The dedup cache.

\* Dropping what is older than the window forgets nothing that could come back.
LEMMA RecentRemembers ==
    ASSUME seen \in [Nodes -> [Ids -> Nat \union {Never}]], Now \in Nat, Window \in Nat,
           NEW n \in Nodes, NEW i \in Ids, NEW born \in Nat, Remembers(seen[n][i], Now, born)
    PROVE  Remembers(Recent(n, Window)[i], Now, born)
<1>1. seen[n][i] \in Nat \union {Never}
  OBVIOUS
<1> DEFINE s == seen[n][i]
<1>2. Recent(n, Window)[i] = IF s # Never /\ Now - s <= Window THEN s ELSE Never
  BY DEF Recent
<1>3. Remembers(s, Now, born) /\ s \in Nat \union {Never}
  BY <1>1
<1> HIDE DEF s
<1>4. CASE s # Never /\ Now - s <= Window
  BY <1>2, <1>3, <1>4
<1>5. CASE ~(s # Never /\ Now - s <= Window)
  BY <1>2, <1>3, <1>5 DEF Remembers, Never
<1> QED
  BY <1>4, <1>5

\* mark_gossip_seen with room for the entry: what was remembered is, and the id looked
\* up is when it was not there.
LEMMA MarkRemembers ==
    ASSUME seen \in [Nodes -> [Ids -> Nat \union {Never}]], Now \in Nat, Window \in Nat,
           Roomy, NEW n \in Nodes, NEW i \in Ids
    PROVE  /\ MarkSeen(n, i) \in [Nodes -> [Ids -> Nat \union {Never}]]
           /\ \A m \in Nodes, j \in Ids, born \in Nat :
                 (Remembers(seen[m][j], Now, born) /\ born <= Now)
                   => Remembers(MarkSeen(n, i)[m][j], Now, born)
           /\ ~IsSeen(n, i) => MarkSeen(n, i)[n][i] = Now
<1> DEFINE row == IF IsSeen(n, i) THEN Recent(n, Window)
                  ELSE [Recent(n, Window) EXCEPT ![i] = Now]
<1>1. Room(n) = Recent(n, Window)
  BY DEF Room, Roomy
<1>2. MarkSeen(n, i) = [seen EXCEPT ![n] = row]
  BY <1>1 DEF MarkSeen
<1>3. Recent(n, Window) \in [Ids -> Nat \union {Never}]
  BY DEF Recent
<1>4. row \in [Ids -> Nat \union {Never}]
  BY <1>3
<1>5. ~IsSeen(n, i) => row[i] = Now
  BY <1>3
<1>6. ASSUME NEW j \in Ids, NEW born \in Nat, Remembers(seen[n][j], Now, born), born <= Now
      PROVE  Remembers(row[j], Now, born)
  <2>1. Remembers(Recent(n, Window)[j], Now, born)
    BY <1>6, RecentRemembers
  <2>2. row[j] = Recent(n, Window)[j] \/ row[j] = Now
    BY <1>3
  <2>3. Remembers(Now, Now, born)
    BY <1>6 DEF Remembers, Never
  <2> QED
    BY <2>1, <2>2, <2>3
<1> HIDE DEF row
<1>7. MarkSeen(n, i) \in [Nodes -> [Ids -> Nat \union {Never}]]
  BY <1>2, <1>4
<1>8. MarkSeen(n, i)[n] = row /\ \A m \in Nodes \ {n} : MarkSeen(n, i)[m] = seen[m]
  BY <1>2
<1> QED
  BY <1>5, <1>6, <1>7, <1>8

----------------------------------------------------------------------------
\* The steps, and the times.

LEMMA Loads ==
    ASSUME NEW birth, Shape(birth), NEW n \in Nodes, NEW i \in Ids
    PROVE  /\ IsFiniteSet(Pending(n, i)) /\ Cardinality(Pending(n, i)) \in Nat
           /\ Stored(n, i) \in Seq(Nat) /\ Len(Stored(n, i)) \in Nat /\ Load(n, i) \in Nat
           /\ Now \in Nat /\ birth[i] \div Second \in Nat
<1>1. Pending(n, i) \in SUBSET handlers /\ IsFiniteSet(handlers)
  BY DEF Pending, Shape
<1>2. IsFiniteSet(Pending(n, i))
  BY <1>1, FS_Subset
<1>3. Cardinality(Pending(n, i)) \in Nat
  BY <1>2, FS_CardinalityType
<1>4. Stored(n, i) \in Seq(Nat)
  BY DEF Stored, Shape, Logs
<1>5. Len(Stored(n, i)) \in Nat
  BY <1>4
<1>6. Now \in Nat /\ birth[i] \div Second \in Nat
  BY NowNat, Limits, SecondsNat DEF Shape
<1> QED
  BY <1>2, <1>3, <1>4, <1>5, <1>6 DEF Load

\* A step after which no node has more copies, nor has forgotten any.
LEMMA TimedFrame ==
    ASSUME NEW birth, Shape(birth), Shape(birth)', Timed(birth), Now <= Now',
           seen' \in [Nodes -> [Ids -> Nat \union {Never}]],
           \A n \in Nodes, i \in Ids :
              /\ Load(n, i)' <= Load(n, i)
              /\ \A k \in 1 .. Len(Stored(n, i)') :
                    Stored(n, i)'[k] >= Due(birth[i] \div Second, k)
              /\ \A x \in Nat : (x <= Now /\ Remembers(seen[n][i], Now, x))
                                   => Remembers(seen'[n][i], Now', x)
    PROVE  Timed(birth)'
<1> SUFFICES ASSUME NEW n \in Nodes, NEW i \in Ids
             PROVE  Paced(Stored(n, i)', Load(n, i)', seen'[n][i], Now', birth[i] \div Second)
  BY DEF Timed
<1> DEFINE b == birth[i] \div Second
<1>1. b \in Nat /\ Now \in Nat /\ Load(n, i) \in Nat
  BY Loads
<1>2. Now' \in Nat /\ Load(n, i)' \in Nat
  <2>1. clock' \in Nat
    BY DEF Shape
  <2>2. Now' \in Nat
    BY <2>1, Limits, SecondsNat DEF Now
  <2>3. log'[n].lines[i] \in Seq(Nat) /\ IsFiniteSet(handlers')
    BY DEF Shape, Logs
  <2>4. Len(log'[n].lines[i]) \in Nat
    BY <2>3
  <2>5. Pending(n, i)' \in SUBSET handlers'
    BY DEF Pending
  <2>6. Cardinality(Pending(n, i)') \in Nat
    BY <2>3, <2>5, FS_Subset, FS_CardinalityType
  <2>7. Load(n, i)' = Len(Stored(n, i)') + Cardinality(Pending(n, i)')
    BY DEF Load
  <2>8. Len(Stored(n, i)') \in Nat
    BY <2>4 DEF Stored
  <2>9. Load(n, i)' \in Nat
    BY <2>6, <2>7, <2>8
  <2> QED
    BY <2>2, <2>9
<1> DEFINE now == Now
           load == Load(n, i)
           lines == Stored(n, i)
           s == seen[n][i]
           now2 == Now'
           load2 == Load(n, i)'
           lines2 == Stored(n, i)'
           s2 == seen'[n][i]
<1>3. Paced(lines, load, s, now, b) /\ s \in Nat \union {Never} /\ now \in Nat /\ load \in Nat
  BY <1>1 DEF Timed
<1>4. /\ load2 <= load /\ now <= now2 /\ now2 \in Nat /\ load2 \in Nat
      /\ \A k \in 1 .. Len(lines2) : lines2[k] >= Due(b, k)
      /\ \A x \in Nat : (x <= now /\ Remembers(s, now, x)) => Remembers(s2, now2, x)
  BY <1>2
<1> HIDE DEF now, load, lines, s, now2, load2, lines2, s2, b
<1>5. b \in Nat
  BY <1>1 DEF b
<1>6. Paced(lines2, load2, s2, now2, b)
  BY <1>3, <1>4, <1>5, PacedLater
<1> QED
  BY <1>6 DEF now2, load2, lines2, s2, b

\* A handler that ends, or is lost, takes no copy with it.
LEMMA FewerPending ==
    ASSUME NEW birth, Shape(birth), NEW n \in Nodes, NEW i \in Ids, handlers' \subseteq handlers
    PROVE  /\ Cardinality(Pending(n, i)') \in Nat
           /\ Cardinality(Pending(n, i)') <= Cardinality(Pending(n, i))
           /\ \A q \in Pending(n, i) :
                 q \notin handlers' =>
                    Cardinality(Pending(n, i)') + 1 <= Cardinality(Pending(n, i))
<1> DEFINE P == Pending(n, i)
           R == Pending(n, i)'
<1>1. IsFiniteSet(P) /\ Cardinality(P) \in Nat
  BY Loads
<1>2. R \in SUBSET P
  BY DEF Pending
<1>3. ASSUME NEW q \in P, q \notin handlers' PROVE R \in SUBSET (P \ {q})
  BY <1>2, <1>3 DEF Pending
<1> HIDE DEF P, R
<1>4. IsFiniteSet(R) /\ Cardinality(R) \in Nat /\ Cardinality(R) <= Cardinality(P)
  BY <1>1, <1>2, FS_Subset, FS_CardinalityType
<1>5. ASSUME NEW q \in P, q \notin handlers' PROVE Cardinality(R) + 1 <= Cardinality(P)
  <2>1. IsFiniteSet(P \ {q}) /\ Cardinality(P \ {q}) = Cardinality(P) - 1
    BY <1>1, FS_RemoveElement
  <2>2. Cardinality(R) <= Cardinality(P \ {q})
    BY <1>3, <1>5, <2>1, FS_Subset
  <2> QED
    BY <1>1, <1>4, <2>1, <2>2
<1> QED
  BY <1>4, <1>5 DEF P, R

\* The files are as they were.
LEMMA TimedFrameFiles ==
    ASSUME NEW birth, Shape(birth), Shape(birth)', Timed(birth), Now <= Now', log' = log,
           handlers' \subseteq handlers,
           seen' \in [Nodes -> [Ids -> Nat \union {Never}]],
           \A n \in Nodes, i \in Ids, x \in Nat :
              (x <= Now /\ Remembers(seen[n][i], Now, x)) => Remembers(seen'[n][i], Now', x)
    PROVE  Timed(birth)'
<1>1. ASSUME NEW n \in Nodes, NEW i \in Ids
      PROVE  /\ Load(n, i)' <= Load(n, i)
             /\ \A k \in 1 .. Len(Stored(n, i)') :
                   Stored(n, i)'[k] >= Due(birth[i] \div Second, k)
  <2>1. Stored(n, i)' = Stored(n, i)
    BY DEF Stored
  <2>2. Load(n, i)' <= Load(n, i)
    <3>1. Load(n, i) = Len(Stored(n, i)) + Cardinality(Pending(n, i))
      BY DEF Load
    <3>2. Load(n, i)' = Len(Stored(n, i)') + Cardinality(Pending(n, i)')
      BY DEF Load
    <3> QED
      BY <2>1, <3>1, <3>2, Loads, FewerPending
  <2> QED
    BY <2>1, <2>2 DEF Timed, Paced
<1> QED
  BY <1>1, TimedFrame

\* Any line an append leaves was due: it is an old one, or the one of a copy at work.
LEMMA OutcomeDue ==
    ASSUME NEW birth, Shape(birth), Timed(birth), NEW n \in Nodes,
           NEW q \in handlers, q.to = n, NEW g, Outcome(log[n], g, q.env.id), NEW i \in Ids
    PROVE  /\ Len(g.lines[i]) \in Nat
           /\ Len(g.lines[i]) <= Len(Stored(n, i)) + (IF q \in Pending(n, i) THEN 1 ELSE 0)
           /\ \A k \in 1 .. Len(g.lines[i]) : g.lines[i][k] >= Due(birth[i] \div Second, k)
<1> DEFINE b == birth[i] \div Second
           s == Stored(n, i)
           t == g.lines[i]
           load == Load(n, i)
<1>1. /\ b \in Nat /\ s \in Seq(Nat) /\ Len(s) \in Nat /\ load \in Nat /\ Now \in Nat
      /\ load = Len(s) + Cardinality(Pending(n, i)) /\ Cardinality(Pending(n, i)) \in Nat
      /\ IsFiniteSet(Pending(n, i))
  BY Loads DEF Load
<1>2. Len(t) \in Nat
  BY DEF Outcome, Logs
<1>3. Shorter(s, t) \/ (i = q.env.id /\ OneMore(s, t))
  BY DEF Outcome, Stored
<1>4. /\ \A k \in 1 .. Len(s) : s[k] >= Due(b, k)
      /\ load >= 1 => Due(b, load) <= Now
  BY DEF Timed, Paced
<1>5. i = q.env.id => q \in Pending(n, i)
  BY DEF Pending
<1> HIDE DEF s, t, b, load
<1>6. CASE Shorter(s, t)
  BY <1>1, <1>2, <1>4, <1>6 DEF Shorter, s, t, b
<1>7. CASE i = q.env.id /\ OneMore(s, t)
  <2>1. Cardinality(Pending(n, i)) >= 1
    <3>1. Pending(n, i) # {}
      BY <1>5, <1>7
    <3>2. Cardinality(Pending(n, i)) # 0
      BY <1>1, <3>1, FS_EmptySet
    <3> QED
      BY <1>1, <3>2
  <2>2. Due(b, Len(s) + 1) <= Now
    <3>1. /\ Len(s) + 1 \in Nat \ {0} /\ Len(s) + 1 <= load /\ load >= 1
          /\ load \in Nat \ {0}
      BY <1>1, <2>1
    <3>2. Due(b, Len(s) + 1) <= Due(b, load)
      BY <1>1, <3>1, WindowsGrow
    <3>3. Due(b, Len(s) + 1) \in Nat /\ Due(b, load) \in Nat
      BY <1>1, <3>1, Windows
    <3> QED
      BY <1>1, <1>4, <3>1, <3>2, <3>3
  <2>3. /\ Len(t) = Len(s) + 1 /\ t[Len(t)] = Now
        /\ \A k \in 1 .. Len(s) : t[k] = s[k]
    BY <1>7 DEF OneMore
  <2>4. ASSUME NEW k \in 1 .. Len(t) PROVE t[k] >= Due(b, k)
    <3>1. CASE k = Len(t)
      BY <1>1, <2>2, <2>3, <3>1, Windows
    <3>2. CASE k # Len(t)
      <4>1. k \in 1 .. Len(s)
        BY <1>1, <2>3, <3>2
      <4> QED
        BY <1>4, <2>3, <4>1
    <3> QED
      BY <3>1, <3>2
  <2>5. q \in Pending(n, i)
    BY <1>5, <1>7
  <2> QED
    BY <1>1, <1>2, <2>3, <2>4, <2>5 DEF s, t, b
<1> QED
  BY <1>3, <1>6, <1>7

LEMMA StoreTimed ==
    ASSUME NEW birth, Shape(birth), Shape(birth)', Timed(birth), NEW q \in handlers,
           NEW g, Outcome(log[q.to], g, q.env.id), log' = [log EXCEPT ![q.to] = g],
           handlers' = handlers \ {q}, clock' = clock, seen' = seen
    PROVE  Timed(birth)'
<1>1. q.to \in Nodes /\ log \in [Nodes -> Logs] /\ Now' = Now /\ Now \in Nat
  BY NowNat DEF Shape, SoundRequest, Now
<1>2. ASSUME NEW n \in Nodes, NEW i \in Ids
      PROVE  /\ Load(n, i)' <= Load(n, i)
             /\ \A k \in 1 .. Len(Stored(n, i)') :
                   Stored(n, i)'[k] >= Due(birth[i] \div Second, k)
  <2>1. /\ Load(n, i) = Len(Stored(n, i)) + Cardinality(Pending(n, i))
        /\ Load(n, i)' = Len(Stored(n, i)') + Cardinality(Pending(n, i)')
    BY DEF Load
  <2>2. /\ Len(Stored(n, i)) \in Nat /\ Cardinality(Pending(n, i)) \in Nat
        /\ Cardinality(Pending(n, i)') \in Nat
        /\ Cardinality(Pending(n, i)') <= Cardinality(Pending(n, i))
        /\ q \in Pending(n, i) =>
              Cardinality(Pending(n, i)') + 1 <= Cardinality(Pending(n, i))
    BY Loads, FewerPending
  <2>3. CASE n # q.to
    <3>1. Stored(n, i)' = Stored(n, i)
      BY <1>1, <2>3 DEF Stored
    <3>2. Load(n, i)' <= Load(n, i)
      BY <2>1, <2>2, <3>1
    <3> QED
      BY <3>1, <3>2 DEF Timed, Paced
  <2>4. CASE n = q.to
    <3>1. Stored(n, i)' = g.lines[i]
      BY <1>1, <2>4 DEF Stored
    <3>2. /\ Len(g.lines[i]) \in Nat
          /\ Len(g.lines[i]) <= Len(Stored(n, i)) + (IF q \in Pending(n, i) THEN 1 ELSE 0)
          /\ \A k \in 1 .. Len(g.lines[i]) : g.lines[i][k] >= Due(birth[i] \div Second, k)
      BY <2>4, OutcomeDue
    <3>3. Load(n, i)' <= Load(n, i)
      BY <2>1, <2>2, <3>1, <3>2
    <3> QED
      BY <3>1, <3>2, <3>3
  <2> QED
    BY <2>3, <2>4
<1>3. seen' \in [Nodes -> [Ids -> Nat \union {Never}]]
  BY DEF Timed
<1>4. Now <= Now'
  BY <1>1
<1> QED
  BY <1>1, <1>2, <1>3, <1>4, TimedFrame

\* After a restart the cache has the last time the file has, and that was due; the
\* copies at work are gone.
LEMMA RestartTimed ==
    ASSUME NEW birth, Shape(birth), Shape(birth)', Timed(birth), NEW n \in Nodes, Restart(n)
    PROVE  Timed(birth)'
<1>1. /\ clock' = clock /\ handlers' = handlers \ AtWork(n) /\ Now' = Now
  BY DEF Restart, Now
<1>2. PICK g \in Logs :
         /\ log' = [log EXCEPT ![n] = g]
         /\ seen' = [seen EXCEPT ![n] = LoadSeen(g.lines)]
         /\ g = log[n] \/ \E q \in handlers : q.to = n /\ Outcome(log[n], g, q.env.id)
  BY RestartOutcome
<1>3. /\ log \in [Nodes -> Logs] /\ seen \in [Nodes -> [Ids -> Nat \union {Never}]]
      /\ Now \in Nat
  BY NowNat DEF Shape, Timed
<1>4. ASSUME NEW i \in Ids
      PROVE  /\ g.lines[i] \in Seq(Nat) /\ Len(g.lines[i]) \in Nat
             /\ Len(g.lines[i]) <= Load(n, i)
             /\ \A k \in 1 .. Len(g.lines[i]) : g.lines[i][k] >= Due(birth[i] \div Second, k)
  <2>1. /\ Load(n, i) = Len(Stored(n, i)) + Cardinality(Pending(n, i))
        /\ Len(Stored(n, i)) \in Nat /\ Cardinality(Pending(n, i)) \in Nat
        /\ IsFiniteSet(Pending(n, i))
    BY Loads DEF Load
  <2>2. g.lines[i] \in Seq(Nat)
    BY DEF Logs
  <2>3. Len(g.lines[i]) \in Nat
    BY <2>2
  <2>4. CASE g = log[n]
    <3>1. g.lines[i] = Stored(n, i)
      BY <2>4 DEF Stored
    <3> QED
      BY <2>1, <2>2, <2>3, <3>1 DEF Timed, Paced
  <2>5. ASSUME NEW q \in handlers, q.to = n, Outcome(log[n], g, q.env.id)
        PROVE  /\ Len(g.lines[i]) <= Load(n, i)
               /\ \A k \in 1 .. Len(g.lines[i]) : g.lines[i][k] >= Due(birth[i] \div Second, k)
    <3>1. /\ Len(g.lines[i]) <= Len(Stored(n, i)) + (IF q \in Pending(n, i) THEN 1 ELSE 0)
          /\ \A k \in 1 .. Len(g.lines[i]) : g.lines[i][k] >= Due(birth[i] \div Second, k)
      BY <2>5, OutcomeDue
    <3>2. q \in Pending(n, i) => Cardinality(Pending(n, i)) >= 1
      BY <2>1, FS_EmptySet
    <3> QED
      BY <2>1, <2>3, <3>1, <3>2
  <2> QED
    BY <1>2, <2>2, <2>3, <2>4, <2>5
<1>5. ASSUME NEW m \in Nodes, NEW i \in Ids
      PROVE  Paced(Stored(m, i)', Load(m, i)', seen'[m][i], Now', birth[i] \div Second)
  <2> DEFINE b == birth[i] \div Second
             s == g.lines[i]
             l == Len(s)
  <2>1. Load(m, i)' = Len(Stored(m, i)') + Cardinality(Pending(m, i)')
    BY DEF Load
  <2>2. CASE m # n
    <3>1. Stored(m, i)' = Stored(m, i) /\ seen'[m][i] = seen[m][i]
      BY <1>2, <1>3, <2>2 DEF Stored
    <3>2. Pending(m, i)' = Pending(m, i)
      BY <1>1, <2>2 DEF Pending, AtWork
    <3>3. Load(m, i)' = Load(m, i)
      BY <3>1, <3>2 DEF Load
    <3> QED
      BY <1>1, <3>1, <3>3 DEF Timed
  <2>3. CASE m = n
    <3>1. Stored(m, i)' = s /\ seen'[m][i] = LoadSeen(g.lines)[i]
      BY <1>2, <1>3, <2>3 DEF Stored
    <3>2. Pending(m, i)' = {}
      BY <1>1, <2>3 DEF Pending, AtWork
    <3>3. Load(m, i)' = l
      <4>1. Cardinality(Pending(m, i)') = 0
        BY <3>2, FS_EmptySet
      <4> QED
        BY <1>4, <2>1, <3>1, <4>1
    <3>4. /\ s \in Seq(Nat) /\ l \in Nat /\ l <= Load(n, i)
          /\ \A k \in 1 .. l : s[k] >= Due(b, k)
      BY <1>4
    <3>5. LoadSeen(g.lines)[i] = IF s # <<>> /\ Now - s[l] <= Window THEN s[l] ELSE Never
      BY DEF LoadSeen
    <3>6. b \in Nat /\ Load(n, i) \in Nat
      BY Loads
    <3>7. Load(n, i) >= 1 => /\ Due(b, Load(n, i)) <= Now
                             /\ Due(b, Load(n, i)) <= b + MaxAge + 1
      BY DEF Timed, Paced
    <3> HIDE DEF b, s, l
    <3>8. ASSUME l >= 1
          PROVE  /\ Due(b, l) <= Now
                 /\ Due(b, l) <= b + MaxAge + 1
                 /\ Remembers(LoadSeen(g.lines)[i], Now, Due(b, l))
      <4>1. l \in Nat \ {0} /\ Load(n, i) \in Nat \ {0} /\ Load(n, i) >= 1
        BY <3>4, <3>6, <3>8
      <4>2. /\ Due(b, l) \in Nat /\ Due(b, Load(n, i)) \in Nat
            /\ Due(b, l) <= Due(b, Load(n, i))
        BY <3>4, <3>6, <4>1, Windows, WindowsGrow
      <4>3. s # <<>> /\ s[l] \in Nat /\ s[l] >= Due(b, l)
        <5>1. l \in 1 .. Len(s) /\ l = Len(s)
          BY <3>4, <4>1 DEF l
        <5>2. s[l] \in Nat
          BY <3>4, <5>1, ElementOfSeq
        <5>3. s # <<>>
          BY <4>1, <5>1, EmptySeq
        <5> QED
          BY <3>4, <5>1, <5>2, <5>3
      <4>4. Remembers(LoadSeen(g.lines)[i], Now, Due(b, l))
        BY <1>3, <3>5, <4>2, <4>3, Limits DEF Remembers, Never
      <4> QED
        BY <1>3, <3>6, <3>7, <4>1, <4>2, <4>4, Limits
    <3> QED
      BY <1>1, <3>1, <3>3, <3>4, <3>8 DEF Paced, b, s, l
  <2> QED
    BY <2>2, <2>3
<1>6. seen' \in [Nodes -> [Ids -> Nat \union {Never}]]
  <2>1. ASSUME NEW i \in Ids PROVE LoadSeen(g.lines)[i] \in Nat \union {Never}
    <3> DEFINE s == g.lines[i]
    <3>1. LoadSeen(g.lines)[i] = IF s # <<>> /\ Now - s[Len(s)] <= Window THEN s[Len(s)] ELSE Never
      BY DEF LoadSeen
    <3>2. s \in Seq(Nat) /\ Len(s) \in Nat
      BY <1>4
    <3> HIDE DEF s
    <3>3. s # <<>> => s[Len(s)] \in Nat
      <4>1. s # <<>> => Len(s) \in Nat \ {0}
        BY <3>2, EmptySeq
      <4>2. s # <<>> => Len(s) \in 1 .. Len(s)
        BY <4>1
      <4> QED
        BY <3>2, <4>2, ElementOfSeq
    <3> QED
      BY <3>1, <3>3
  <2>2. LoadSeen(g.lines) \in [Ids -> Nat \union {Never}]
    BY <2>1 DEF LoadSeen
  <2> QED
    BY <1>2, <1>3, <2>2
<1> QED
  BY <1>5, <1>6 DEF Timed

\* A copy is accepted one window after the one before it, and while it is fresh.
LEMMA AcceptDue ==
    ASSUME NEW birth, Shape(birth), Timed(birth), NEW q \in wire, Accept(q)
    PROVE  LET b == birth[q.env.id] \div Second
               k == Load(q.to, q.env.id) + 1
           IN  Due(b, k) <= Now /\ Due(b, k) <= b + MaxAge + 1
<1> DEFINE n == q.to
           i == q.env.id
           b == birth[i] \div Second
           load == Load(n, i)
           s == seen[n][i]
<1>1. /\ n \in Nodes /\ i \in Ids /\ q.env.sentAt = birth[i]
      /\ birth[i] \in Nat /\ birth[i] <= clock /\ clock \in Nat
  BY DEF Shape, SoundRequest, Genuine, Envelopes
<1>2. Now \in Nat /\ b \in Nat /\ load \in Nat /\ s \in Nat \union {Never}
  BY <1>1, Loads DEF Timed
<1>3. b <= Now
  BY <1>1, Limits, SecondsGrow DEF Now
<1>4. Now <= b + MaxAge + 1
  <2>1. ~((clock - birth[i]) \div Second > MaxAge)
    BY <1>1 DEF Accept, Admissible, Stale
  <2>2. clock \in Int /\ birth[i] \in Int /\ clock - birth[i] \in Int
    BY <1>1
  <2>3. (clock - birth[i]) \div Second \in Int
    BY <2>2, Limits, Quotient, Zenon
  <2>4. Now <= b + (clock - birth[i]) \div Second + 1
    BY <2>2, Limits, SecondsApart DEF Now
  <2> QED
    BY <1>2, <2>1, <2>3, <2>4, Limits
<1>5. ~(s # Never /\ Now - s <= Window)
  <2>1. ~IsSeen(n, i)
    BY DEF Accept
  <2> QED
    BY <1>1, <2>1 DEF IsSeen, Recent
<1>6. load >= 1 => Remembers(s, Now, Due(b, load))
  BY <1>1 DEF Timed, Paced
<1> HIDE DEF n, i, b, load, s
<1>7. CASE load = 0
  <2>1. Due(b, 0 + 1) = b
    BY <1>2, Windows
  <2> QED
    BY <1>2, <1>3, <1>7, <2>1, Limits DEF n, i, b, load
<1>8. CASE load # 0
  <2>1. load \in Nat \ {0} /\ load >= 1
    BY <1>2, <1>8
  <2>2. Due(b, load) \in Nat /\ Due(b, load + 1) = Due(b, load) + Window + 1
    BY <1>2, <2>1, Windows
  <2>3. Now > Window + Due(b, load)
    BY <1>2, <1>5, <1>6, <2>1, <2>2, Limits DEF Remembers
  <2>4. Due(b, load + 1) <= Now
    BY <1>2, <2>2, <2>3, Limits
  <2>5. Due(b, load + 1) <= b + MaxAge + 1
    BY <1>2, <1>4, <2>2, <2>4, Limits
  <2> QED
    BY <2>4, <2>5 DEF n, i, b, load
<1> QED
  BY <1>7, <1>8

LEMMA AcceptTimed ==
    ASSUME NEW birth, Shape(birth), Shape(birth)', Timed(birth), Roomy,
           NEW q \in wire, Accept(q)
    PROVE  Timed(birth)'
<1> DEFINE n == q.to
           i == q.env.id
<1>1. n \in Nodes /\ i \in Ids /\ q \notin handlers
  BY DEF Accept, Arrives, Shape, SoundRequest, Genuine, Envelopes
<1>2. /\ seen \in [Nodes -> [Ids -> Nat \union {Never}]] /\ Now \in Nat /\ Window \in Nat
      /\ \A j \in Ids : birth[j] \div Second \in Nat
  BY <1>1, Loads, Limits DEF Timed
<1>3. /\ seen' = MarkSeen(n, i) /\ ~IsSeen(n, i) /\ handlers' = handlers \union {q}
      /\ clock' = clock /\ log' = log /\ Now' = Now
  BY DEF Accept, Now
<1>4. /\ seen' \in [Nodes -> [Ids -> Nat \union {Never}]]
      /\ \A m \in Nodes, j \in Ids, x \in Nat :
            (Remembers(seen[m][j], Now, x) /\ x <= Now) => Remembers(seen'[m][j], Now, x)
      /\ seen'[n][i] = Now
  BY <1>1, <1>2, <1>3, MarkRemembers
<1>5. ASSUME NEW m \in Nodes, NEW j \in Ids
      PROVE  Paced(Stored(m, j)', Load(m, j)', seen'[m][j], Now', birth[j] \div Second)
  <2> DEFINE b == birth[j] \div Second
             k == Load(m, j)
  <2>1. /\ Stored(m, j)' = Stored(m, j)
        /\ Load(m, j)' = Len(Stored(m, j)') + Cardinality(Pending(m, j)')
        /\ Load(m, j) = Len(Stored(m, j)) + Cardinality(Pending(m, j))
    BY <1>3 DEF Stored, Load
  <2>2. /\ Now \in Nat /\ b \in Nat /\ k \in Nat /\ Len(Stored(m, j)) \in Nat
        /\ IsFiniteSet(Pending(m, j)) /\ Cardinality(Pending(m, j)) \in Nat
    BY Loads
  <2>3. /\ \A x \in 1 .. Len(Stored(m, j)) : Stored(m, j)[x] >= Due(b, x)
        /\ k >= 1 => /\ Due(b, k) <= Now
                     /\ Due(b, k) <= b + MaxAge + 1
                     /\ Remembers(seen[m][j], Now, Due(b, k))
    BY DEF Timed, Paced
  <2>4. CASE m = n /\ j = i
    <3>1. Pending(m, j)' = Pending(m, j) \union {q} /\ q \notin Pending(m, j)
      BY <1>1, <1>3, <2>4 DEF Pending
    <3>2. Cardinality(Pending(m, j)') = Cardinality(Pending(m, j)) + 1
      BY <2>2, <3>1, FS_AddElement
    <3>3. Load(m, j)' = k + 1
      BY <2>1, <2>2, <3>2
    <3>4. Due(b, k + 1) <= Now /\ Due(b, k + 1) <= b + MaxAge + 1
      BY <2>4, AcceptDue
    <3>a. k + 1 \in Nat \ {0}
      BY <2>2
    <3>5. Due(b, k + 1) \in Nat
      BY <2>2, <3>a, Windows
    <3>6. Remembers(Now, Now, Due(b, k + 1))
      BY <2>2, <3>4, <3>5 DEF Remembers, Never
    <3> HIDE DEF b, k
    <3> QED
      BY <1>3, <1>4, <2>1, <2>3, <2>4, <3>3, <3>4, <3>6 DEF Paced, b
  <2>5. CASE ~(m = n /\ j = i)
    <3>1. Pending(m, j)' = Pending(m, j)
      BY <1>3, <2>5 DEF Pending
    <3>2. Load(m, j)' = k
      BY <2>1, <3>1
    <3>3. k >= 1 => Due(b, k) \in Nat
      BY <2>2, Windows
    <3>4. k >= 1 => Remembers(seen'[m][j], Now, Due(b, k))
      BY <1>4, <2>3, <3>3
    <3> HIDE DEF b, k
    <3> QED
      BY <1>3, <2>1, <2>3, <3>2, <3>4 DEF Paced, b
  <2> QED
    BY <2>4, <2>5
<1> QED
  BY <1>4, <1>5 DEF Timed

LEMMA DuplicateTimed ==
    ASSUME NEW birth, Shape(birth), Shape(birth)', Timed(birth), Roomy,
           NEW q \in wire, Duplicate(q)
    PROVE  Timed(birth)'
<1> DEFINE n == q.to
           i == q.env.id
<1>1. n \in Nodes /\ i \in Ids
  BY DEF Shape, SoundRequest, Genuine, Envelopes
<1>2. seen \in [Nodes -> [Ids -> Nat \union {Never}]] /\ Now \in Nat /\ Window \in Nat
  BY <1>1, Loads, Limits DEF Timed
<1>3. seen' = MarkSeen(n, i) /\ log' = log /\ handlers' = handlers /\ Now' = Now
  BY DEF Duplicate, Now
<1>4. /\ seen' \in [Nodes -> [Ids -> Nat \union {Never}]]
      /\ \A m \in Nodes, j \in Ids, x \in Nat :
            (Remembers(seen[m][j], Now, x) /\ x <= Now) => Remembers(seen'[m][j], Now, x)
  BY <1>1, <1>2, <1>3, MarkRemembers
<1>5. Now <= Now' /\ handlers' \subseteq handlers
  BY <1>2, <1>3
<1> QED
  BY <1>3, <1>4, <1>5, TimedFrameFiles

\* A new id is nowhere yet.
LEMMA RoundTimed ==
    ASSUME NEW birth, Shape(birth), Timed(birth), Roomy,
           NEW n \in Nodes, NEW i \in Ids \ ClientIds, GossipRound(n, i),
           NEW born, born = [birth EXCEPT ![i] = clock]
    PROVE  Timed(born)'
<1>1. /\ minted[i] = NoPeer /\ seen' = MarkSeen(n, i)
      /\ clock' = clock /\ log' = log /\ handlers' = handlers /\ Now' = Now
  BY DEF GossipRound, Now
<1>2. /\ seen \in [Nodes -> [Ids -> Nat \union {Never}]] /\ Now \in Nat /\ Window \in Nat
      /\ birth \in [Ids -> Nat] /\ clock \in Nat
  BY NowNat, Limits DEF Timed, Shape
<1>3. /\ seen' \in [Nodes -> [Ids -> Nat \union {Never}]]
      /\ \A m \in Nodes, j \in Ids, x \in Nat :
            (Remembers(seen[m][j], Now, x) /\ x <= Now) => Remembers(seen'[m][j], Now, x)
  BY <1>1, <1>2, MarkRemembers
<1>4. ASSUME NEW m \in Nodes, NEW j \in Ids
      PROVE  Paced(Stored(m, j)', Load(m, j)', seen'[m][j], Now', born[j] \div Second)
  <2> DEFINE b == birth[j] \div Second
             k == Load(m, j)
  <2>1. Stored(m, j)' = Stored(m, j) /\ Load(m, j)' = k
    BY <1>1 DEF Stored, Load, Pending
  <2>2. CASE j = i
    <3>1. Stored(m, j) = <<>>
      BY <1>1, <2>2 DEF Shape
    <3>2. Pending(m, j) = {}
      <4>1. \A q \in handlers : q.env.id \in ClientIds \/ minted[q.env.id] # NoPeer
        BY DEF Shape, SoundRequest, Genuine
      <4> QED
        BY <1>1, <2>2, <4>1 DEF Pending
    <3>3. Len(Stored(m, j)) = 0 /\ k = 0
      BY <3>1, <3>2, FS_EmptySet DEF Load
    <3> HIDE DEF k
    <3> QED
      BY <2>1, <3>3 DEF Paced
  <2>3. CASE j # i
    <3>1. born[j] = birth[j]
      BY <1>2, <2>3
    <3>2. b \in Nat /\ k \in Nat
      BY Loads
    <3>3. /\ \A x \in 1 .. Len(Stored(m, j)) : Stored(m, j)[x] >= Due(b, x)
          /\ k >= 1 => /\ Due(b, k) <= Now
                       /\ Due(b, k) <= b + MaxAge + 1
                       /\ Remembers(seen[m][j], Now, Due(b, k))
      BY DEF Timed, Paced
    <3>4. k >= 1 => Due(b, k) \in Nat
      BY <3>2, Windows
    <3>5. k >= 1 => Remembers(seen'[m][j], Now, Due(b, k))
      BY <1>3, <3>3, <3>4
    <3> HIDE DEF k
    <3> QED
      BY <1>1, <2>1, <3>1, <3>3, <3>5 DEF Paced
  <2> QED
    BY <2>2, <2>3
<1> QED
  BY <1>3, <1>4 DEF Timed

\* Time passes: what is remembered stays so.
LEMMA TickTimed ==
    ASSUME NEW birth, Shape(birth), Shape(birth)', Timed(birth), Tick
    PROVE  Timed(birth)'
<1>1. /\ clock \in Nat /\ clock' = clock + 1 /\ log' = log /\ seen' = seen
      /\ handlers' = handlers /\ seen \in [Nodes -> [Ids -> Nat \union {Never}]]
  BY DEF Tick, Shape, Timed
<1>2. Now \in Nat /\ Now' \in Nat /\ Now <= Now'
  <2>1. clock + 1 \in Nat /\ clock <= clock + 1 /\ clock \in Int /\ clock + 1 \in Int
    BY <1>1
  <2>2. clock \div Second <= (clock + 1) \div Second
    BY <2>1, Limits, SecondsGrow
  <2>3. clock \div Second \in Nat /\ (clock + 1) \div Second \in Nat
    BY <1>1, <2>1, Limits, SecondsNat
  <2>4. Now' = (clock + 1) \div Second
    BY <1>1 DEF Now
  <2> QED
    BY <2>2, <2>3, <2>4 DEF Now
<1>3. ASSUME NEW s, NEW x \in Nat, Remembers(s, Now, x) PROVE Remembers(s, Now', x)
  BY <1>2, <1>3, Limits DEF Remembers
<1> QED
  BY <1>1, <1>2, <1>3, TimedFrameFiles

LEMMA ReplayStep ==
    ASSUME ReplayInv, Roomy, [Next]_vars
    PROVE  ReplayInv'
<1>1. PICK birth \in [Ids -> Nat] : Shape(birth) /\ Timed(birth)
  BY DEF ReplayInv
<1>a. ASSUME Shape(birth)', Timed(birth)' PROVE ReplayInv'
  BY <1>1, <1>a DEF ReplayInv
<1>b. ASSUME Shape(birth)', UNCHANGED <<clock, log, seen>>, handlers' \subseteq handlers
      PROVE  ReplayInv'
  <2>1. Now' = Now /\ Now \in Nat
    BY <1>1, <1>b, NowNat DEF Now, Shape
  <2>2. Now <= Now' /\ seen' \in [Nodes -> [Ids -> Nat \union {Never}]]
    BY <1>1, <1>b, <2>1 DEF Timed
  <2>3. Timed(birth)'
    BY <1>1, <1>b, <2>1, <2>2, TimedFrameFiles
  <2> QED
    BY <1>a, <1>b, <2>3
<1>2. ASSUME NEW n \in Nodes, NEW i \in Ids \ ClientIds, GossipRound(n, i)
      PROVE  ReplayInv'
  <2>1. PICK born \in [Ids -> Nat] : born = [birth EXCEPT ![i] = clock]
    BY <1>1 DEF Shape
  <2>2. Shape(born)' /\ Timed(born)'
    BY <1>1, <1>2, <2>1, RoundKeeps, RoundTimed
  <2> QED
    BY <2>1, <2>2 DEF ReplayInv
<1>3. ASSUME NEW t \in tasks, NEW p \in t.todo, Skip(t, p) \/ Post(t, p) PROVE ReplayInv'
  BY <1>1, <1>3, <1>b, SendKeeps DEF Skip, Post
<1>4. ASSUME NEW t \in tasks, Timeout(t) PROVE ReplayInv'
  BY <1>1, <1>4, <1>b, TimeoutKeeps DEF Timeout
<1>5. ASSUME NEW q \in wire, Drop(q) PROVE ReplayInv'
  BY <1>1, <1>5, <1>b, AnswerKeeps DEF Drop
<1>6. ASSUME NEW q \in wire, Duplicate(q) PROVE ReplayInv'
  BY <1>1, <1>6, <1>a, AnswerKeeps, DuplicateTimed
<1>7. ASSUME NEW q \in wire, Accept(q) PROVE ReplayInv'
  BY <1>1, <1>7, <1>a, AnswerKeeps, AcceptTimed
<1>8. ASSUME NEW q \in handlers, Store(q) PROVE ReplayInv'
  <2>1. /\ log' = [log EXCEPT ![q.to] = Logged(log[q.to], q.env.id)]
        /\ handlers' = handlers \ {q} /\ clock' = clock /\ seen' = seen
    BY <1>8 DEF Store
  <2>2. Outcome(log[q.to], Logged(log[q.to], q.env.id), q.env.id)
    BY <1>1, HandlerOutcome
  <2>3. Shape(birth)'
    BY <1>1, <1>8, StoreKeeps
  <2> QED
    BY <1>1, <1>a, <2>1, <2>2, <2>3, StoreTimed
<1>9. ASSUME NEW q \in handlers, StoreFails(q) PROVE ReplayInv'
  <2>1. PICK left \in Halves(q) : log' = [log EXCEPT ![q.to] = left.file]
    BY <1>9 DEF StoreFails
  <2>2. handlers' = handlers \ {q} /\ clock' = clock /\ seen' = seen
    BY <1>9 DEF StoreFails
  <2>3. Outcome(log[q.to], left.file, q.env.id)
    BY <1>1, HalvesOutcome
  <2>4. Shape(birth)'
    BY <1>1, <1>9, StoreFailsKeeps
  <2> QED
    BY <1>1, <1>a, <2>1, <2>2, <2>3, <2>4, StoreTimed
<1>10. ASSUME NEW c \in Clients, NEW n \in Nodes, NEW i \in ClientIds,
              NEW ttl \in {0, MaxHops}, NEW key \in ClientKeys, ClientPost(c, n, i, ttl, key)
       PROVE  ReplayInv'
  BY <1>1, <1>10, <1>b, ClientKeeps DEF ClientPost
<1>11. ASSUME NEW n \in Nodes, Restart(n) PROVE ReplayInv'
  BY <1>1, <1>11, <1>a, RestartKeeps, RestartTimed
<1>12. ASSUME NEW r \in Introductions, RegisterPeer(r[1], r[2]) PROVE ReplayInv'
  BY <1>1, <1>12, <1>b, RestKeeps DEF RegisterPeer
<1>13. CASE Tick
  BY <1>1, <1>13, <1>a, TickKeeps, TickTimed
<1>14. CASE UNCHANGED vars
  <2>1. UNCHANGED <<clock, log, seen>> /\ handlers' \subseteq handlers
    BY <1>14 DEF vars
  <2> QED
    BY <1>1, <1>14, <1>b, <2>1, RestKeeps
<1> QED
  BY <1>2, <1>3, <1>4, <1>5, <1>6, <1>7, <1>8, <1>9, <1>10, <1>11, <1>12, <1>13, <1>14
  DEF Next

LEMMA ReplayStart ==
    ASSUME Init
    PROVE  ReplayInv
<1> DEFINE birth == [i \in Ids |-> IF i \in ClientIds THEN Composed ELSE 0]
<1>1. birth \in [Ids -> Nat] /\ \A i \in ClientIds : birth[i] = Composed
  BY Limits
<1>2. /\ log = [n \in Nodes |-> NoLog] /\ handlers = {} /\ clock = 0 /\ tasks = {} /\ wire = {}
      /\ minted = [i \in Ids |-> NoPeer] /\ seen = [n \in Nodes |-> [i \in Ids |-> Never]]
  BY DEF Init
<1>3. NoLog \in Logs /\ \A i \in Ids : NoLog.lines[i] = <<>>
  BY DEF NoLog, Logs
<1>4. IsFiniteSet({}) /\ Cardinality({}) = 0
  BY FS_EmptySet
<1> HIDE DEF birth
<1>5. Shape(birth)
  BY <1>1, <1>2, <1>3, <1>4 DEF Shape, Stored
<1>6. ASSUME NEW n \in Nodes, NEW i \in Ids
      PROVE  Paced(Stored(n, i), Load(n, i), seen[n][i], Now, birth[i] \div Second)
  <2>1. Stored(n, i) = <<>> /\ Pending(n, i) = {}
    BY <1>2, <1>3 DEF Stored, Pending
  <2>2. Len(Stored(n, i)) = 0 /\ Load(n, i) = 0
    BY <1>4, <2>1 DEF Load
  <2> QED
    BY <2>2 DEF Paced
<1>7. seen \in [Nodes -> [Ids -> Nat \union {Never}]]
  BY <1>2
<1> QED
  BY <1>1, <1>5, <1>6, <1>7 DEF ReplayInv, Timed

\* With a cache that is never cut: whatever names and addresses the registries have, and
\* whatever is retried, relayed, late, repeated by a client, cut short by a failing write
\* or restarted, a node's record has no more copies of an envelope than dedup windows fit
\* in the time it is fresh.
THEOREM MeshReplays == Spec /\ []Roomy => []ReplaysBounded
<1>1. Init => ReplayInv
  BY ReplayStart
<1>2. ReplayInv /\ Roomy /\ [Next]_vars => ReplayInv'
  BY ReplayStep
<1>3. ReplayInv => ReplaysBounded
  <2> SUFFICES ASSUME NEW birth, Shape(birth), Timed(birth), NEW n \in Nodes, NEW i \in Ids
               PROVE  (Len(Stored(n, i)) - 1) * (Window + 1) <= MaxAge + 1
    BY DEF ReplayInv, ReplaysBounded
  <2> DEFINE b == birth[i] \div Second
             load == Load(n, i)
             k == Len(Stored(n, i))
             d == Window + 1
  <2>1. /\ b \in Nat /\ load \in Nat /\ k \in Nat /\ k <= load /\ d \in Nat
        /\ load >= 1 => Due(b, load) <= b + MaxAge + 1
    <3>1. /\ load = k + Cardinality(Pending(n, i)) /\ Cardinality(Pending(n, i)) \in Nat
          /\ b \in Nat /\ load \in Nat /\ k \in Nat
      BY Loads DEF Load
    <3>2. d \in Nat
      BY Limits
    <3> QED
      BY <3>1, <3>2 DEF Timed, Paced
  <2> HIDE DEF b, load, k
  <2>2. CASE k = 0
    <3>1. (0 - 1) * d = 0 - d
      BY <2>1
    <3> QED
      BY <2>1, <2>2, <3>1, Limits DEF k
  <2>3. CASE k # 0
    <3>1. k \in Nat \ {0} /\ load \in Nat \ {0} /\ load >= 1
      BY <2>1, <2>3
    <3>2. /\ Due(b, k) <= Due(b, load) /\ Due(b, k) \in Nat /\ Due(b, load) \in Nat
      BY <2>1, <3>1, Windows, WindowsGrow
    <3>3. Due(b, k) <= b + MaxAge + 1
      BY <2>1, <3>1, <3>2, Limits
    <3>4. Due(b, k) = b + (k - 1) * d
      BY DEF Due
    <3>5. (k - 1) * d \in Int
      BY <2>1
    <3> QED
      BY <2>1, <3>3, <3>4, <3>5, Limits DEF k
  <2> QED
    BY <2>2, <2>3
<1> QED
  BY <1>1, <1>2, <1>3, PTL DEF Spec

----------------------------------------------------------------------------
(* The archive *)

\* The inductive invariant.  A line of a file is closed if nothing will continue it.  Of
\* the closed lines, those that parse and hold a record of the set P stand for good, and
\* those that do not parse are spoilt: each of them was torn by one report and may have
\* swallowed another.
Closed(f) == {k \in DOMAIN f.lines : ~(f.open /\ k = Len(f.lines))}
Standing(f, P) ==
    {k \in Closed(f) : f.lines[k].parses /\ \E r \in f.lines[k].records : r \in P}
Spoilt(f) == {k \in Closed(f) : ~f.lines[k].parses}
Voting(f, P) ==
    {k \in DOMAIN f.lines : f.lines[k].parses /\ \E r \in f.lines[k].records : r \in P}
Torn(f) == IF f.open THEN 1 ELSE 0

Rows(R) == [records : SUBSET R, parses : BOOLEAN]
File(R) == [lines : Seq(Rows(R)), open : BOOLEAN]
SoundFile(f, R) == f \in File(R) /\ (f.open => Len(f.lines) > 0)

\* The heartbeat b after n of its writes.
Steps == [file : {"fossil", "live", "threats", "mutations"},
          rec : Nat \union Signals \union Mutations]
Rest(b, n, s) ==
    /\ s \in Seq(Steps)
    /\ Len(s) = Len(Writes(b)) - n
    /\ \A k \in 1 .. Len(s) : s[k] = Writes(b)[n + k]
Progress(j) == Len(Writes(j.beat)) - Len(j.todo)
JobSound(j) ==
    j # NoJob =>
      /\ j = [todo |-> j.todo, beat |-> j.beat]
      /\ j.beat \in Beats
      /\ Progress(j) \in Nat
      /\ Rest(j.beat, Progress(j), j.todo)

ArchiveType ==
    /\ JobSound(job)
    /\ fossil \in [Organisms -> File(Nat)]
    /\ \A o \in Organisms : SoundFile(fossil[o], Nat)
    /\ organisms \in [Organisms -> Int] \union {Unreadable}
    /\ SoundFile(threats, Signals)
    /\ received \in Seq(Beats) /\ acked \in Seq(Beats)
    /\ harm \in Nat

\* The signals of heartbeat b that are in P, and those that n writes have not reached.
Matching(b, P) == {k \in DOMAIN b.signals : b.signals[k] \in P}
Unwritten(b, n, P) == {k \in Matching(b, P) : k + 2 > n}
Pledged(j, P) == IF j = NoJob THEN 0 ELSE Cardinality(Matching(j.beat, P))
Ahead(j, P) == IF j = NoJob THEN 0 ELSE Cardinality(Unwritten(j.beat, Progress(j), P))

\* The signals of the heartbeats s that are in P, each with its place.
Places(s, P) == UNION {{i} \X Matching(s[i], P) : i \in DOMAIN s}

\* What was answered, and what the heartbeat at hand has written, stands or was swallowed;
\* a vote was reported; what does not stand for P is weighed against the reports that are
\* not answered for P; and a spoilt line took a fault.
Balance(f, j, answered, reported, P) ==
    /\ IsFiniteSet(Places(answered, P)) /\ IsFiniteSet(Places(reported, P))
    /\ IsFiniteSet(Places(reported, Signals))
    /\ Cardinality(Standing(f, P)) + Cardinality(Spoilt(f)) + Ahead(j, P)
         >= Reports(answered, P) + Pledged(j, P)
    /\ Cardinality(Voting(f, P)) + Ahead(j, P) <= Reports(reported, P)
    /\ Cardinality(Standing(f, Signals \ P)) + Torn(f) + Cardinality(Spoilt(f))
         + Reports(answered, P) + Pledged(j, P) + Ahead(j, Signals \ P)
         <= Reports(reported, Signals)
Balanced == \A P \in SUBSET Signals : Balance(threats, job, acked, received, P)
Excused == Torn(threats) + Cardinality(Spoilt(threats)) <= harm

\* What the live registry lists is in the organism's fossil record.
Holds(f, x) == \E k \in DOMAIN f.lines : x \in f.lines[k].records
Reached(n) == job # NoJob /\ Progress(job) >= n
Backed ==
    /\ \A o \in Organisms : Listed[o] # Unseen => Holds(fossil[o], Listed[o])
    /\ Reached(1) => Holds(fossil[job.beat.org], job.beat.time)

\* As long as nothing failed, the last heartbeat of each organism is listed, the one at
\* hand included as soon as the live registry is written.
LastOf(s, i) == \A k \in (i + 1) .. Len(s) : s[k].org # s[i].org
Latest ==
    harm = 0 =>
      /\ Reached(2) => Listed[job.beat.org] = job.beat.time
      /\ \A i \in DOMAIN acked :
           (LastOf(acked, i) /\ (Reached(2) => job.beat.org # acked[i].org))
             => Listed[acked[i].org] = acked[i].time

ArchiveInv ==
    /\ ArchiveType
    /\ Balanced
    /\ Excused
    /\ Backed
    /\ Latest

----------------------------------------------------------------------------
\* What an append does to a file.

\* The lines of a file are finitely many.
LEMMA LinesFinite ==
    ASSUME NEW R, NEW f, SoundFile(f, R), NEW P
    PROVE  /\ IsFiniteSet(Standing(f, P)) /\ Cardinality(Standing(f, P)) \in Nat
           /\ IsFiniteSet(Spoilt(f)) /\ Cardinality(Spoilt(f)) \in Nat
           /\ IsFiniteSet(Voting(f, P)) /\ Cardinality(Voting(f, P)) \in Nat
  <1>1. Len(f.lines) \in Nat /\ DOMAIN f.lines = 1 .. Len(f.lines)
    BY DEF SoundFile, File
  <1>2. IsFiniteSet(DOMAIN f.lines)
    <2>1. IsFiniteSet(1 .. Len(f.lines))
      BY <1>1, FS_Interval
    <2> QED  BY <1>1, <2>1
  <1>3. /\ Standing(f, P) \in SUBSET DOMAIN f.lines
        /\ Spoilt(f) \in SUBSET DOMAIN f.lines
        /\ Voting(f, P) \in SUBSET DOMAIN f.lines
    BY DEF Standing, Spoilt, Voting, Closed
  <1> QED  BY <1>2, <1>3, FS_Subset, FS_CardinalityType

\* A file is sound if its lines are and it has a line to be left open.
LEMMA FileMade ==
    ASSUME NEW R, NEW ls \in Seq(Rows(R)), NEW o \in BOOLEAN,
           o => Len(ls) > 0
    PROVE  SoundFile([lines |-> ls, open |-> o], R)
  <1> DEFINE g == [lines |-> ls, open |-> o]
  <1>1. g \in [lines : Seq(Rows(R)), open : BOOLEAN] /\ g.open = o /\ g.lines = ls
    OBVIOUS
  <1> HIDE DEF g
  <1>2. SoundFile(g, R)
    BY <1>1, Zenon DEF SoundFile, File
  <1> QED  BY <1>2 DEF g

\* The lines ls are those of f with a new one for the records rs; or with the last one
\* continued by them.
Longer(ls, f, rs, R) ==
    /\ ls \in Seq(Rows(R))
    /\ Len(ls) = Len(f.lines) + 1
    /\ \A k \in 1 .. Len(f.lines) : ls[k] = f.lines[k]
    /\ ls[Len(f.lines) + 1].records = rs
    /\ ls[Len(f.lines) + 1].parses = (rs # {})
Fuller(ls, f, rs, R) ==
    /\ ls \in Seq(Rows(R))
    /\ Len(ls) = Len(f.lines)
    /\ \A k \in 1 .. Len(f.lines) : k # Len(f.lines) => ls[k] = f.lines[k]
    /\ ls[Len(f.lines)].records = f.lines[Len(f.lines)].records \union rs
    /\ ls[Len(f.lines)].parses = FALSE

\* An append to a closed file begins a line.
LEMMA ContinuedClosed ==
    ASSUME NEW R, NEW f, SoundFile(f, R), ~f.open, NEW rs \in SUBSET R
    PROVE  Longer(Continued(f, rs), f, rs, R)
  <1> DEFINE row == Row(rs, rs # {})
  <1>1. row \in Rows(R)
    BY DEF Row, Rows
  <1>2. Continued(f, rs) = Append(f.lines, row)
    BY DEF Continued
  <1>3. f.lines \in Seq(Rows(R))
    BY DEF SoundFile, File
  <1>4. row.records = rs /\ row.parses = (rs # {})
    BY DEF Row
  <1> HIDE DEF row
  <1> QED  BY <1>1, <1>2, <1>3, <1>4 DEF Longer

\* An append to a file whose last line is open continues it.
LEMMA ContinuedOpen ==
    ASSUME NEW R, NEW f, SoundFile(f, R), f.open, NEW rs \in SUBSET R
    PROVE  Fuller(Continued(f, rs), f, rs, R)
  <1> DEFINE n == Len(f.lines)
             row == Row(f.lines[n].records \union rs, FALSE)
  <1>1. f.lines \in Seq(Rows(R)) /\ n \in Nat /\ n > 0
    BY DEF SoundFile, File
  <1>2. f.lines[n] \in Rows(R)
    <2>1. n = Len(f.lines) /\ n \in 1 .. Len(f.lines)
      BY <1>1
    <2> QED  BY <1>1, <2>1, ElementOfSeq
  <1>3. row \in Rows(R)
    BY <1>2 DEF Row, Rows
  <1>4. Continued(f, rs) = [f.lines EXCEPT ![n] = row]
    BY DEF Continued
  <1>5. row.records = f.lines[n].records \union rs /\ row.parses = FALSE
    BY DEF Row
  <1> HIDE DEF row
  <1> QED  BY <1>1, <1>3, <1>4, <1>5 DEF Fuller

\* A record that is written whole stands if the file was closed; otherwise it is lost
\* with the line it continues.
LEMMA AppendCounts ==
    ASSUME NEW f, SoundFile(f, Signals), NEW r \in Signals, NEW P
    PROVE  LET g == Appended(f, r)
               d == IF r \in P THEN 1 ELSE 0
           IN  /\ SoundFile(g, Signals)
               /\ Torn(g) = 0
               /\ f.open => /\ Cardinality(Standing(g, P)) = Cardinality(Standing(f, P))
                            /\ Cardinality(Spoilt(g)) = Cardinality(Spoilt(f)) + 1
                            /\ Cardinality(Voting(g, P)) <= Cardinality(Voting(f, P))
               /\ ~f.open => /\ Cardinality(Standing(g, P)) = Cardinality(Standing(f, P)) + d
                             /\ Cardinality(Spoilt(g)) = Cardinality(Spoilt(f))
                             /\ Cardinality(Voting(g, P)) = Cardinality(Voting(f, P)) + d
  <1> DEFINE g == Appended(f, r)
             n == Len(f.lines)
  <1>0. /\ n \in Nat /\ DOMAIN f.lines = 1 .. n /\ f.open \in BOOLEAN
        /\ n = Len(f.lines)
    BY DEF SoundFile, File
  <1> HIDE DEF n
  <1>1. g.open = FALSE /\ g.lines = Continued(f, {r}) /\ g = [lines |-> g.lines, open |-> FALSE]
    BY DEF Appended
  <1>r. {r} \in SUBSET Signals
    OBVIOUS
  <1>2. CASE f.open
    <2>1. n > 0 /\ n \in 1 .. n
      BY <1>0, <1>2 DEF SoundFile
    <2>c. Fuller(g.lines, f, {r}, Signals)
      BY <1>2, <1>r, <1>1, ContinuedOpen, Zenon
    <2>2. /\ g.lines \in Seq(Rows(Signals))
          /\ Len(g.lines) = n
          /\ \A k \in 1 .. n : k # n => g.lines[k] = f.lines[k]
          /\ g.lines[n].parses = FALSE
      BY <1>0, <1>1, <2>c DEF Fuller
    <2> HIDE DEF g
    <2>3. SoundFile(g, Signals)
      BY <1>1, <2>2, FileMade, Zenon
    <2>4. DOMAIN g.lines = 1 .. n
      BY <2>2
    <2>5. Standing(g, P) = Standing(f, P)
      BY <1>0, <1>1, <1>2, <2>2, <2>4 DEF Standing, Closed
    <2>6. Spoilt(g) = Spoilt(f) \union {n} /\ n \notin Spoilt(f)
      BY <1>0, <1>1, <1>2, <2>1, <2>2, <2>4 DEF Spoilt, Closed
    <2>7. Voting(g, P) \in SUBSET Voting(f, P)
      BY <1>0, <2>2, <2>4 DEF Voting
    <2>8. Cardinality(Spoilt(g)) = Cardinality(Spoilt(f)) + 1
      BY <2>6, LinesFinite, FS_AddElement
    <2>9. Cardinality(Voting(g, P)) <= Cardinality(Voting(f, P))
      BY <2>7, LinesFinite, FS_Subset
    <2> QED  BY <1>1, <1>2, <2>3, <2>5, <2>8, <2>9 DEF Torn, g
  <1>3. CASE ~f.open
    <2>c. Longer(g.lines, f, {r}, Signals)
      BY <1>3, <1>r, <1>1, ContinuedClosed, Zenon
    <2>2. /\ g.lines \in Seq(Rows(Signals))
          /\ Len(g.lines) = n + 1
          /\ \A k \in 1 .. n : g.lines[k] = f.lines[k]
          /\ g.lines[n + 1].records = {r}
          /\ g.lines[n + 1].parses = ({r} # {})
      BY <1>0, <1>1, <2>c DEF Longer
    <2> HIDE DEF g
    <2>3. SoundFile(g, Signals)
      BY <1>1, <2>2, FileMade, Zenon
    <2>4. DOMAIN g.lines = 1 .. (n + 1) /\ 1 .. (n + 1) = (1 .. n) \union {n + 1}
      BY <1>0, <2>2
    <2>5. Spoilt(g) = Spoilt(f)
      BY <1>0, <1>1, <1>3, <2>2, <2>4 DEF Spoilt, Closed
    <2>6. n + 1 \notin Standing(f, P) /\ n + 1 \notin Voting(f, P)
      BY <1>0 DEF Standing, Closed, Voting
    <2>7. CASE r \in P
      <3>1. Standing(g, P) = Standing(f, P) \union {n + 1}
        BY <1>0, <1>1, <1>3, <2>2, <2>4, <2>7 DEF Standing, Closed
      <3>2. Voting(g, P) = Voting(f, P) \union {n + 1}
        BY <1>0, <2>2, <2>4, <2>7 DEF Voting
      <3>3. Cardinality(Standing(g, P)) = Cardinality(Standing(f, P)) + 1
        BY <2>6, <3>1, LinesFinite, FS_AddElement
      <3>4. Cardinality(Voting(g, P)) = Cardinality(Voting(f, P)) + 1
        BY <2>6, <3>2, LinesFinite, FS_AddElement
      <3> QED  BY <1>1, <1>3, <2>3, <2>5, <2>7, <3>3, <3>4 DEF Torn, g
    <2>8. CASE r \notin P
      <3>1. Standing(g, P) = Standing(f, P)
        BY <1>0, <1>1, <1>3, <2>2, <2>4, <2>8 DEF Standing, Closed
      <3>2. Voting(g, P) = Voting(f, P)
        BY <1>0, <2>2, <2>4, <2>8 DEF Voting
      <3>3. Cardinality(Standing(f, P)) \in Nat /\ Cardinality(Voting(f, P)) \in Nat
        BY LinesFinite
      <3> QED  BY <1>1, <1>3, <2>3, <2>5, <2>8, <3>1, <3>2, <3>3 DEF Torn, g
    <2> QED  BY <2>7, <2>8
  <1> QED  BY <1>0, <1>2, <1>3

\* An append that is cut short leaves what stood and what was spoilt, and adds at most the
\* vote of its own record.
LEMMA CutCounts ==
    ASSUME NEW f, SoundFile(f, Signals), NEW r \in Signals, NEW g \in CutShort(f, r), NEW P
    PROVE  /\ SoundFile(g, Signals)
           /\ Cardinality(Standing(g, P)) = Cardinality(Standing(f, P))
           /\ Cardinality(Spoilt(g)) = Cardinality(Spoilt(f))
           /\ Cardinality(Voting(g, P)) <=
                Cardinality(Voting(f, P)) + (IF r \in P THEN 1 ELSE 0)
           /\ g # f => Torn(g) = 1
  <1> DEFINE n == Len(f.lines)
  <1>0. /\ n \in Nat /\ DOMAIN f.lines = 1 .. n /\ f.open \in BOOLEAN
        /\ n = Len(f.lines)
    BY DEF SoundFile, File
  <1> HIDE DEF n
  <1>n. /\ Cardinality(Voting(f, P)) \in Nat
        /\ IsFiniteSet(Voting(f, P))
    BY LinesFinite
  <1>1. CASE g = f
    BY <1>1, <1>n
  <1>2. ASSUME NEW rs \in {{}, {r}}, g = [lines |-> Continued(f, rs), open |-> TRUE]
        PROVE  /\ SoundFile(g, Signals)
               /\ Standing(g, P) = Standing(f, P)
               /\ Spoilt(g) = Spoilt(f)
               /\ Cardinality(Voting(g, P)) <=
                    Cardinality(Voting(f, P)) + (IF r \in P THEN 1 ELSE 0)
               /\ Torn(g) = 1
    <2>0. g.open = TRUE /\ g.lines = Continued(f, rs) /\ rs \in SUBSET Signals
      BY <1>2
    <2>1. CASE f.open
      <3>1. n > 0 /\ n \in 1 .. n
        BY <1>0, <2>1 DEF SoundFile
      <3>c. Fuller(g.lines, f, rs, Signals)
        BY <2>0, <2>1, <2>0, ContinuedOpen, Zenon
      <3>2. /\ g.lines \in Seq(Rows(Signals))
            /\ Len(g.lines) = n
            /\ \A k \in 1 .. n : k # n => g.lines[k] = f.lines[k]
            /\ g.lines[n].parses = FALSE
        BY <1>0, <2>0, <3>c DEF Fuller
      <3>3. SoundFile(g, Signals)
        BY <1>2, <2>0, <3>1, <3>2, FileMade, Zenon
      <3>4. DOMAIN g.lines = 1 .. n
        BY <3>2
      <3>5. Standing(g, P) = Standing(f, P) /\ Spoilt(g) = Spoilt(f)
        BY <1>0, <2>0, <2>1, <3>2, <3>4 DEF Standing, Spoilt, Closed
      <3>6. Voting(g, P) \in SUBSET Voting(f, P)
        BY <1>0, <3>2, <3>4 DEF Voting
      <3>7. Cardinality(Voting(g, P)) <= Cardinality(Voting(f, P))
        BY <3>6, <1>n, FS_Subset
      <3>8. Cardinality(Voting(g, P)) \in Nat
        BY <3>3, LinesFinite
      <3> QED  BY <2>0, <3>3, <3>5, <3>7, <3>8, <1>n DEF Torn
    <2>2. CASE ~f.open
      <3>c. Longer(g.lines, f, rs, Signals)
        BY <2>0, <2>2, <2>0, ContinuedClosed, Zenon
      <3>2. /\ g.lines \in Seq(Rows(Signals))
            /\ Len(g.lines) = n + 1
            /\ \A k \in 1 .. n : g.lines[k] = f.lines[k]
            /\ g.lines[n + 1].records = rs
            /\ g.lines[n + 1].parses = (rs # {})
        BY <1>0, <2>0, <3>c DEF Longer
      <3>3. SoundFile(g, Signals)
        <4>1. Len(g.lines) > 0
          BY <1>0, <3>2
        <4> QED  BY <4>1, <1>2, <2>0, <3>2, FileMade, Zenon
      <3>4. DOMAIN g.lines = 1 .. (n + 1) /\ 1 .. (n + 1) = (1 .. n) \union {n + 1}
        BY <1>0, <3>2
      <3>5. Standing(g, P) = Standing(f, P) /\ Spoilt(g) = Spoilt(f)
        BY <1>0, <2>0, <2>2, <3>2, <3>4 DEF Standing, Spoilt, Closed
      <3>6. Voting(g, P) \in SUBSET (Voting(f, P) \union (IF r \in P THEN {n + 1} ELSE {}))
        BY <1>0, <1>2, <3>2, <3>4 DEF Voting
      <3>7. Cardinality(Voting(g, P)) <=
              Cardinality(Voting(f, P)) + (IF r \in P THEN 1 ELSE 0)
        <4>1. CASE r \in P
          <5>1. Voting(g, P) \in SUBSET (Voting(f, P) \union {n + 1})
            BY <3>6, <4>1
          <5>2. n + 1 \notin Voting(f, P)
            BY <1>0 DEF Voting
          <5>3. /\ IsFiniteSet(Voting(f, P) \union {n + 1})
                /\ Cardinality(Voting(f, P) \union {n + 1}) = Cardinality(Voting(f, P)) + 1
            BY <1>n, <5>2, FS_AddElement
          <5> QED  BY <4>1, <5>1, <5>3, FS_Subset
        <4>2. CASE r \notin P
          <5>1. Voting(g, P) \in SUBSET Voting(f, P)
            BY <3>6, <4>2
          <5>2. Cardinality(Voting(g, P)) <= Cardinality(Voting(f, P))
            BY <5>1, <1>n, FS_Subset
          <5>3. Cardinality(Voting(g, P)) \in Nat
            BY <3>3, LinesFinite
          <5> QED  BY <4>2, <5>2, <5>3, <1>n
        <4> QED  BY <4>1, <4>2
      <3> QED  BY <2>0, <3>3, <3>5, <3>7 DEF Torn
    <2> QED  BY <1>0, <2>1, <2>2
  <1>3. g = f \/ \E rs \in {{}, {r}} : g = [lines |-> Continued(f, rs), open |-> TRUE]
    BY DEF CutShort
  <1> QED  BY <1>1, <1>2, <1>3

----------------------------------------------------------------------------
\* What heartbeats hold.

\* The fields of a heartbeat.
LEMMA BeatFields ==
    ASSUME NEW b \in Beats
    PROVE  /\ b.org \in Organisms /\ b.time \in Nat
           /\ b.signals \in Seq(Signals) /\ b.mutations \in Seq(Mutations)
           /\ b # [none |-> 0]
  <1>1. b \in [org : Organisms, time : Nat, signals : Seq(Signals), mutations : Seq(Mutations)]
    BY RegistryAssumption
  <1>2. DOMAIN b = {"org", "time", "signals", "mutations"} /\ DOMAIN [none |-> 0] = {"none"}
    BY <1>1
  <1> QED  BY <1>1, <1>2

\* The writes of a heartbeat: the two files of its organism, its signals, its mutations.
LEMMA WritesAre ==
    ASSUME NEW b \in Beats
    PROVE  /\ Writes(b) \in Seq(Steps)
           /\ Len(Writes(b)) \in Nat
           /\ Len(Writes(b)) >= Len(b.signals) + 2
           /\ Writes(b)[1] = [file |-> "fossil", rec |-> b.time]
           /\ Writes(b)[2] = [file |-> "live", rec |-> b.time]
           /\ \A k \in 1 .. Len(b.signals) :
                Writes(b)[k + 2] = [file |-> "threats", rec |-> b.signals[k]]
           /\ \A k \in 1 .. Len(Writes(b)) :
                k > Len(b.signals) + 2 => Writes(b)[k].file = "mutations"
  <1> DEFINE h == <<[file |-> "fossil", rec |-> b.time], [file |-> "live", rec |-> b.time]>>
             s == [k \in DOMAIN b.signals |-> [file |-> "threats", rec |-> b.signals[k]]]
             m == [k \in DOMAIN b.mutations |->
                     [file |-> "mutations", rec |-> b.mutations[k]]]
             p == Len(b.signals)
             q == Len(b.mutations)
  <1>1. b.time \in Nat /\ b.signals \in Seq(Signals) /\ b.mutations \in Seq(Mutations)
    BY BeatFields
  <1>2. /\ p \in Nat /\ DOMAIN b.signals = 1 .. p
        /\ q \in Nat /\ DOMAIN b.mutations = 1 .. q
    BY <1>1
  <1>3. /\ h \in Seq(Steps) /\ Len(h) = 2
        /\ h[1] = [file |-> "fossil", rec |-> b.time]
        /\ h[2] = [file |-> "live", rec |-> b.time]
    BY <1>1 DEF Steps
  <1>4. /\ \A k \in 1 .. p : b.signals[k] \in Signals
        /\ \A k \in 1 .. q : b.mutations[k] \in Mutations
    BY <1>1, <1>2
  <1>5. s \in Seq(Steps) /\ Len(s) = p
    <2>1. \A k \in 1 .. p : [file |-> "threats", rec |-> b.signals[k]] \in Steps
      BY <1>4 DEF Steps
    <2>2. s \in [1 .. p -> Steps]
      BY <1>2, <2>1
    <2> QED  BY <1>2, <2>2
  <1>6. m \in Seq(Steps) /\ Len(m) = q
    <2>1. \A k \in 1 .. q : [file |-> "mutations", rec |-> b.mutations[k]] \in Steps
      BY <1>4 DEF Steps
    <2>2. m \in [1 .. q -> Steps]
      BY <1>2, <2>1
    <2> QED  BY <1>2, <2>2
  <1>7. \A k \in 1 .. p : s[k] = [file |-> "threats", rec |-> b.signals[k]]
    BY <1>2
  <1>8. \A k \in 1 .. q : m[k].file = "mutations"
    BY <1>2
  <1>9. Writes(b) = h \o s \o m
    BY DEF Writes
  <1> HIDE DEF h, s, m, p, q
  <1> DEFINE u == h \o s
             w == u \o m
  <1>10. /\ u \in Seq(Steps) /\ Len(u) = Len(h) + Len(s)
         /\ \A i \in 1 .. (Len(h) + Len(s)) :
              u[i] = IF i <= Len(h) THEN h[i] ELSE s[i - Len(h)]
    BY <1>3, <1>5, ConcatProperties, Zenon
  <1> HIDE DEF u
  <1>11. /\ w \in Seq(Steps) /\ Len(w) = Len(u) + Len(m)
         /\ \A i \in 1 .. (Len(u) + Len(m)) :
              w[i] = IF i <= Len(u) THEN u[i] ELSE m[i - Len(u)]
    <2>1. u \in Seq(Steps) /\ m \in Seq(Steps)
      BY <1>6, <1>10
    <2> QED  BY <2>1, ConcatProperties, Zenon
  <1>w. Writes(b) = w
    BY <1>9, Zenon DEF u, w
  <1> HIDE DEF w
  <1>12. Len(w) = 2 + p + q /\ Len(u) = 2 + p
    BY <1>2, <1>3, <1>5, <1>6, <1>10, <1>11
  <1>13. w[1] = h[1] /\ w[2] = h[2]
    BY <1>2, <1>3, <1>5, <1>6, <1>10, <1>11
  <1>14. \A k \in 1 .. p : w[k + 2] = s[k]
    <2> TAKE k \in 1 .. p
    <2>1. k + 2 \in 1 .. (Len(u) + Len(m)) /\ k + 2 <= Len(u) /\ ~(k + 2 <= 2)
          /\ k + 2 \in 1 .. (Len(h) + Len(s)) /\ k + 2 - 2 = k
      BY <1>2, <1>3, <1>5, <1>6, <1>12
    <2>2. w[k + 2] = u[k + 2]
      BY <1>11, <2>1
    <2>3. u[k + 2] = s[k + 2 - 2]
      BY <1>3, <1>10, <2>1
    <2> QED  BY <2>1, <2>2, <2>3
  <1>16. \A k \in 1 .. Len(w) : k > p + 2 => w[k].file = "mutations"
    <2> SUFFICES ASSUME NEW k \in 1 .. Len(w), k > p + 2 PROVE w[k].file = "mutations"
      OBVIOUS
    <2>1. k \in 1 .. (Len(u) + Len(m)) /\ ~(k <= Len(u)) /\ k - Len(u) \in 1 .. q
      BY <1>2, <1>6, <1>12
    <2>2. w[k] = m[k - Len(u)]
      BY <1>11, <2>1
    <2> QED  BY <1>8, <2>1, <2>2
  <1>17. Len(Writes(b)) \in Nat /\ Len(Writes(b)) >= p + 2
    BY <1>2, <1>12, <1>w
  <1> QED  BY <1>3, <1>7, <1>11, <1>13, <1>14, <1>16, <1>17, <1>w DEF p

\* The signals of a heartbeat are finitely many.
LEMMA MatchingFinite ==
    ASSUME NEW b \in Beats, NEW P, NEW n
    PROVE  /\ IsFiniteSet(Matching(b, P)) /\ Cardinality(Matching(b, P)) \in Nat
           /\ IsFiniteSet(Unwritten(b, n, P)) /\ Cardinality(Unwritten(b, n, P)) \in Nat
  <1>1. Len(b.signals) \in Nat /\ DOMAIN b.signals = 1 .. Len(b.signals)
    BY BeatFields
  <1>2. IsFiniteSet(DOMAIN b.signals)
    <2>1. IsFiniteSet(1 .. Len(b.signals))
      BY <1>1, FS_Interval
    <2> QED  BY <1>1, <2>1
  <1>3. Matching(b, P) \in SUBSET DOMAIN b.signals
    BY DEF Matching
  <1>4. Unwritten(b, n, P) \in SUBSET DOMAIN b.signals
    BY DEF Unwritten, Matching
  <1> QED  BY <1>2, <1>3, <1>4, FS_Subset, FS_CardinalityType

\* A report is counted at its place.
LEMMA ReportsArePlaces ==
    ASSUME NEW s, NEW P
    PROVE  Reports(s, P) = Cardinality(Places(s, P))
  BY DEF Reports, Places, Matching

\* One more heartbeat adds its signals.
LEMMA ReportsGrow ==
    ASSUME NEW s \in Seq(Beats), NEW b \in Beats, NEW P, IsFiniteSet(Places(s, P))
    PROVE  /\ IsFiniteSet(Places(Append(s, b), P))
           /\ Reports(s, P) \in Nat
           /\ Reports(Append(s, b), P) = Reports(s, P) + Cardinality(Matching(b, P))
  <1> DEFINE n == Len(s) + 1
             new == {n} \X Matching(b, P)
             t == Append(s, b)
  <1>1. /\ Len(s) \in Nat /\ DOMAIN s = 1 .. Len(s)
        /\ DOMAIN t = (1 .. Len(s)) \union {n}
        /\ \A i \in 1 .. Len(s) : t[i] = s[i] /\ i # n
        /\ t[n] = b
    OBVIOUS
  <1> HIDE DEF t, n
  <1>2. Places(t, P) = Places(s, P) \union new
    <2>1. ASSUME NEW x \in Places(t, P) PROVE x \in Places(s, P) \union new
      <3>1. PICK i \in DOMAIN t : x \in {i} \X Matching(t[i], P)
        BY DEF Places
      <3>2. CASE i = n
        BY <1>1, <3>1, <3>2
      <3>3. CASE i \in 1 .. Len(s)
        <4>1. x \in {i} \X Matching(s[i], P) /\ i \in DOMAIN s
          BY <1>1, <3>1, <3>3
        <4> QED  BY <4>1, Zenon DEF Places
      <3> QED  BY <1>1, <3>1, <3>2, <3>3
    <2>2. ASSUME NEW x \in Places(s, P) PROVE x \in Places(t, P)
      <3>1. PICK i \in DOMAIN s : x \in {i} \X Matching(s[i], P)
        BY DEF Places
      <3>2. x \in {i} \X Matching(t[i], P) /\ i \in DOMAIN t
        BY <1>1, <3>1
      <3> QED  BY <3>2, Zenon DEF Places
    <2>3. ASSUME NEW x \in new PROVE x \in Places(t, P)
      <3>1. x \in {n} \X Matching(t[n], P) /\ n \in DOMAIN t
        BY <1>1, <2>3
      <3> QED  BY <3>1, Zenon DEF Places
    <2> HIDE DEF new
    <2> QED  BY <2>1, <2>2, <2>3
  <1>3. Places(s, P) \intersect new = {}
    <2> SUFFICES ASSUME NEW x \in Places(s, P), x \in new PROVE FALSE
      OBVIOUS
    <2>1. PICK i \in DOMAIN s : x \in {i} \X Matching(s[i], P)
      BY DEF Places
    <2>2. x[1] = i /\ x[1] = n
      BY <2>1
    <2> QED  BY <1>1, <2>2
  <1>4. IsFiniteSet(new) /\ Cardinality(new) = Cardinality(Matching(b, P))
    <2>1. IsFiniteSet(Matching(b, P)) /\ Cardinality(Matching(b, P)) \in Nat
      BY MatchingFinite
    <2>2. IsFiniteSet({n}) /\ Cardinality({n}) = 1
      BY FS_Singleton
    <2>3. IsFiniteSet(new) /\ Cardinality(new) = Cardinality({n}) * Cardinality(Matching(b, P))
      BY <2>1, <2>2, FS_Product, Zenon
    <2> QED  BY <2>1, <2>2, <2>3
  <1> HIDE DEF new
  <1>5. Cardinality(Places(s, P) \intersect new) = 0
    BY <1>3, FS_EmptySet, Zenon
  <1>6. /\ IsFiniteSet(Places(t, P))
        /\ Cardinality(Places(t, P)) = Cardinality(Places(s, P)) + Cardinality(new)
             - Cardinality(Places(s, P) \intersect new)
    BY <1>2, <1>4, FS_Union, Zenon
  <1>7. Cardinality(Places(s, P)) \in Nat /\ Cardinality(new) \in Nat
    BY <1>4, FS_CardinalityType, Zenon
  <1>8. Reports(s, P) = Cardinality(Places(s, P)) /\ Reports(t, P) = Cardinality(Places(t, P))
    BY ReportsArePlaces, Zenon
  <1>9. Reports(t, P) = Reports(s, P) + Cardinality(Matching(b, P))
    BY <1>4, <1>5, <1>6, <1>7, <1>8
  <1> QED  BY <1>6, <1>7, <1>8, <1>9 DEF t

\* One write of a heartbeat reaches one signal or none.
LEMMA UnwrittenNext ==
    ASSUME NEW b \in Beats, NEW n \in Nat, NEW P
    PROVE  /\ n - 1 \in DOMAIN b.signals =>
                Cardinality(Unwritten(b, n, P)) = Cardinality(Unwritten(b, n + 1, P))
                  + (IF b.signals[n - 1] \in P THEN 1 ELSE 0)
           /\ n - 1 \notin DOMAIN b.signals =>
                Cardinality(Unwritten(b, n, P)) = Cardinality(Unwritten(b, n + 1, P))
  <1>1. Len(b.signals) \in Nat /\ DOMAIN b.signals = 1 .. Len(b.signals)
    BY BeatFields
  <1>2. \A k \in DOMAIN b.signals : k + 2 > n <=> (k = n - 1 \/ k + 2 > n + 1)
    BY <1>1
  <1>3. /\ IsFiniteSet(Unwritten(b, n + 1, P))
        /\ Cardinality(Unwritten(b, n + 1, P)) \in Nat
    BY MatchingFinite
  <1>4. CASE n - 1 \in Matching(b, P)
    <2>1. Unwritten(b, n, P) = Unwritten(b, n + 1, P) \union {n - 1}
      BY <1>2, <1>4 DEF Unwritten, Matching
    <2>2. n - 1 \notin Unwritten(b, n + 1, P)
      BY DEF Unwritten
    <2>3. Cardinality(Unwritten(b, n, P)) = Cardinality(Unwritten(b, n + 1, P)) + 1
      BY <1>3, <2>1, <2>2, FS_AddElement
    <2>4. n - 1 \in DOMAIN b.signals /\ b.signals[n - 1] \in P
      BY <1>4 DEF Matching
    <2> QED  BY <2>3, <2>4
  <1>5. CASE n - 1 \notin Matching(b, P)
    <2>1. Unwritten(b, n, P) = Unwritten(b, n + 1, P)
      BY <1>2, <1>5 DEF Unwritten, Matching
    <2>2. ~(n - 1 \in DOMAIN b.signals /\ b.signals[n - 1] \in P)
      BY <1>5 DEF Matching
    <2> QED  BY <1>3, <2>1, <2>2
  <1> QED  BY <1>4, <1>5

\* No signal is written at first, every one in the end.
LEMMA UnwrittenEnds ==
    ASSUME NEW b \in Beats, NEW P
    PROVE  /\ Unwritten(b, 0, P) = Matching(b, P)
           /\ \A n \in Nat : n >= Len(b.signals) + 2 => Cardinality(Unwritten(b, n, P)) = 0
  <1>1. Len(b.signals) \in Nat /\ DOMAIN b.signals = 1 .. Len(b.signals)
    BY BeatFields
  <1>2. Unwritten(b, 0, P) = Matching(b, P)
    BY <1>1 DEF Unwritten, Matching
  <1>3. ASSUME NEW n \in Nat, n >= Len(b.signals) + 2 PROVE Cardinality(Unwritten(b, n, P)) = 0
    <2>1. Unwritten(b, n, P) = {}
      BY <1>1, <1>3 DEF Unwritten, Matching
    <2> QED  BY <2>1, FS_EmptySet
  <1> QED  BY <1>2, <1>3

\* The signals of a heartbeat that are in P and those that are not make all of them.
LEMMA MatchingSplit ==
    ASSUME NEW b \in Beats, NEW P \in SUBSET Signals
    PROVE  Cardinality(Matching(b, Signals))
             = Cardinality(Matching(b, P)) + Cardinality(Matching(b, Signals \ P))
  <1> DEFINE A == Matching(b, P)
             B == Matching(b, Signals \ P)
  <1>1. \A k \in DOMAIN b.signals : b.signals[k] \in Signals
    BY BeatFields
  <1>2. Matching(b, Signals) = A \union B /\ A \intersect B = {}
    BY <1>1 DEF Matching
  <1>3. /\ IsFiniteSet(A) /\ Cardinality(A) \in Nat
        /\ IsFiniteSet(B) /\ Cardinality(B) \in Nat
    BY MatchingFinite
  <1> HIDE DEF A, B
  <1>4. Cardinality(A \union B) = Cardinality(A) + Cardinality(B) - Cardinality(A \intersect B)
    BY <1>3, FS_Union, Zenon
  <1>5. Cardinality(A \intersect B) = 0
    BY <1>2, FS_EmptySet
  <1>6. Cardinality(Matching(b, Signals)) = Cardinality(A) + Cardinality(B)
    BY <1>2, <1>3, <1>4, <1>5
  <1> QED  BY <1>6 DEF A, B

\* What a heartbeat has not written is part of what it reports.
LEMMA UnwrittenWithin ==
    ASSUME NEW b \in Beats, NEW n, NEW P
    PROVE  Cardinality(Unwritten(b, n, P)) <= Cardinality(Matching(b, P))
  <1>1. Unwritten(b, n, P) \in SUBSET Matching(b, P)
    BY DEF Unwritten
  <1>2. IsFiniteSet(Matching(b, P))
    BY MatchingFinite
  <1> QED  BY <1>1, <1>2, FS_Subset

\* The write that comes next in a job.
InTurn(w, b, n) ==
    \/ n = 0 /\ w = [file |-> "fossil", rec |-> b.time]
    \/ n = 1 /\ w = [file |-> "live", rec |-> b.time]
    \/ n - 1 \in DOMAIN b.signals /\ w = [file |-> "threats", rec |-> b.signals[n - 1]]
    \/ n >= Len(b.signals) + 2 /\ w.file = "mutations"

\* The head of the writes left is the next write of the heartbeat.
LEMMA HeadIsDue ==
    ASSUME NEW j, JobSound(j), j.todo # <<>>
    PROVE  /\ j # NoJob
           /\ j.beat \in Beats
           /\ Progress(j) \in Nat
           /\ InTurn(Head(j.todo), j.beat, Progress(j))
           /\ Rest(j.beat, Progress(j) + 1, Tail(j.todo))
  <1>1. j # NoJob
    BY DEF NoJob
  <1>2. j.beat \in Beats /\ Progress(j) \in Nat /\ Rest(j.beat, Progress(j), j.todo)
    BY <1>1 DEF JobSound
  <1> DEFINE b == j.beat
             n == Progress(j)
             s == j.todo
             ws == Writes(b)
             p == Len(b.signals)
  <1>3. /\ s \in Seq(Steps) /\ Len(s) = Len(ws) - n
        /\ \A k \in 1 .. Len(s) : s[k] = ws[n + k]
    BY <1>2 DEF Rest
  <1>4. p \in Nat /\ DOMAIN b.signals = 1 .. p
    BY <1>2, BeatFields
  <1>5. /\ Len(ws) \in Nat
        /\ ws[1] = [file |-> "fossil", rec |-> b.time]
        /\ ws[2] = [file |-> "live", rec |-> b.time]
        /\ \A k \in 1 .. p : ws[k + 2] = [file |-> "threats", rec |-> b.signals[k]]
        /\ \A k \in 1 .. Len(ws) : k > p + 2 => ws[k].file = "mutations"
    BY <1>2, WritesAre
  <1>6. s # <<>> /\ n \in Nat /\ b \in Beats
    BY <1>2
  <1> HIDE DEF b, n, s, ws, p
  <1>7. Len(s) \in Nat /\ Len(s) > 0 /\ Head(s) = s[1] /\ n + 1 \in 1 .. Len(ws)
    BY <1>3, <1>5, <1>6
  <1>8. Head(s) = ws[n + 1]
    BY <1>3, <1>7
  <1>9. InTurn(Head(s), b, n)
    <2>1. CASE n = 0
      BY <1>5, <1>8, <2>1 DEF InTurn
    <2>2. CASE n = 1
      BY <1>5, <1>8, <2>2 DEF InTurn
    <2>3. CASE n - 1 \in 1 .. p
      <3>1. ws[(n - 1) + 2] = [file |-> "threats", rec |-> b.signals[n - 1]]
        BY <1>5, <2>3
      <3>2. (n - 1) + 2 = n + 1
        BY <1>6
      <3> QED  BY <1>4, <1>8, <2>3, <3>1, <3>2 DEF InTurn
    <2>4. CASE n >= p + 2
      BY <1>5, <1>6, <1>4, <1>7, <1>8, <2>4 DEF InTurn, p
    <2> QED  BY <1>4, <1>6, <2>1, <2>2, <2>3, <2>4
  <1>10. Rest(b, n + 1, Tail(s))
    <2>1. /\ Tail(s) \in Seq(Steps) /\ Len(Tail(s)) = Len(s) - 1
          /\ \A k \in 1 .. Len(Tail(s)) : Tail(s)[k] = s[k + 1]
      BY <1>3, <1>6
    <2>2. \A k \in 1 .. Len(Tail(s)) : k + 1 \in 1 .. Len(s) /\ n + (k + 1) = n + 1 + k
      BY <1>6, <1>7, <2>1
    <2>3. \A k \in 1 .. Len(Tail(s)) : Tail(s)[k] = ws[n + 1 + k]
      BY <1>3, <2>1, <2>2
    <2> QED  BY <1>3, <1>5, <1>6, <2>1, <2>3 DEF Rest, ws
  <1> QED  BY <1>1, <1>2, <1>9, <1>10 DEF b, n, s

----------------------------------------------------------------------------
\* The balance is kept.

\* The numbers of the balance are natural numbers.
LEMMA BalanceNumbers ==
    ASSUME NEW f, SoundFile(f, Signals), NEW j, JobSound(j), NEW a \in Seq(Beats),
           NEW q \in Seq(Beats), NEW P, Balance(f, j, a, q, P)
    PROVE  /\ Cardinality(Standing(f, P)) \in Nat /\ Cardinality(Spoilt(f)) \in Nat
           /\ Cardinality(Voting(f, P)) \in Nat
           /\ Cardinality(Standing(f, Signals \ P)) \in Nat
           /\ Torn(f) \in {0, 1}
           /\ Pledged(j, P) \in Nat /\ Ahead(j, P) \in Nat /\ Ahead(j, Signals \ P) \in Nat
           /\ Reports(a, P) \in Nat /\ Reports(q, P) \in Nat /\ Reports(q, Signals) \in Nat
  <1>1. /\ Cardinality(Standing(f, P)) \in Nat /\ Cardinality(Spoilt(f)) \in Nat
        /\ Cardinality(Voting(f, P)) \in Nat
        /\ Cardinality(Standing(f, Signals \ P)) \in Nat
    BY LinesFinite
  <1>2. Torn(f) \in {0, 1}
    BY DEF Torn
  <1>3. Pledged(j, P) \in Nat /\ Ahead(j, P) \in Nat /\ Ahead(j, Signals \ P) \in Nat
    <2>1. CASE j = NoJob
      BY <2>1 DEF Pledged, Ahead
    <2>2. CASE j # NoJob
      <3>1. j.beat \in Beats
        BY <2>2 DEF JobSound
      <3> QED  BY <2>2, <3>1, MatchingFinite DEF Pledged, Ahead
    <2> QED  BY <2>1, <2>2
  <1>4. /\ IsFiniteSet(Places(a, P)) /\ IsFiniteSet(Places(q, P))
        /\ IsFiniteSet(Places(q, Signals))
    BY DEF Balance
  <1>5. Reports(a, P) \in Nat /\ Reports(q, P) \in Nat /\ Reports(q, Signals) \in Nat
    BY <1>4, ReportsArePlaces, FS_CardinalityType
  <1> QED  BY <1>1, <1>2, <1>3, <1>5

\* A heartbeat begins: what it reports is ahead of it.
LEMMA BalanceReceived ==
    ASSUME NEW f, SoundFile(f, Signals), NEW a \in Seq(Beats), NEW q \in Seq(Beats),
           NEW P \in SUBSET Signals, Balance(f, NoJob, a, q, P), NEW b \in Beats, NEW j,
           j # NoJob, j.beat = b, Progress(j) = 0
    PROVE  Balance(f, j, a, Append(q, b), P)
  <1>0. JobSound(NoJob)
    BY DEF JobSound
  <1>1. /\ Cardinality(Standing(f, P)) \in Nat /\ Cardinality(Spoilt(f)) \in Nat
        /\ Cardinality(Voting(f, P)) \in Nat
        /\ Cardinality(Standing(f, Signals \ P)) \in Nat /\ Torn(f) \in {0, 1}
        /\ Reports(a, P) \in Nat /\ Reports(q, P) \in Nat /\ Reports(q, Signals) \in Nat
    BY <1>0, BalanceNumbers
  <1>2. /\ IsFiniteSet(Places(a, P)) /\ IsFiniteSet(Places(q, P))
        /\ IsFiniteSet(Places(q, Signals))
        /\ Cardinality(Standing(f, P)) + Cardinality(Spoilt(f)) >= Reports(a, P)
        /\ Cardinality(Voting(f, P)) <= Reports(q, P)
        /\ Cardinality(Standing(f, Signals \ P)) + Torn(f) + Cardinality(Spoilt(f))
             + Reports(a, P) <= Reports(q, Signals)
    BY <1>1 DEF Balance, Pledged, Ahead
  <1>3. /\ IsFiniteSet(Places(Append(q, b), P))
        /\ Reports(Append(q, b), P) = Reports(q, P) + Cardinality(Matching(b, P))
    BY <1>2, ReportsGrow
  <1>4. /\ IsFiniteSet(Places(Append(q, b), Signals))
        /\ Reports(Append(q, b), Signals) =
             Reports(q, Signals) + Cardinality(Matching(b, Signals))
    BY <1>2, ReportsGrow
  <1>5. /\ Pledged(j, P) = Cardinality(Matching(b, P))
        /\ Ahead(j, P) = Cardinality(Matching(b, P))
        /\ Ahead(j, Signals \ P) = Cardinality(Matching(b, Signals \ P))
    BY UnwrittenEnds DEF Pledged, Ahead
  <1>6. Cardinality(Matching(b, P)) \in Nat /\ Cardinality(Matching(b, Signals \ P)) \in Nat
    BY MatchingFinite
  <1>7. Cardinality(Matching(b, Signals))
          = Cardinality(Matching(b, P)) + Cardinality(Matching(b, Signals \ P))
    BY MatchingSplit
  <1> DEFINE st == Cardinality(Standing(f, P))
             sp == Cardinality(Spoilt(f))
             vo == Cardinality(Voting(f, P))
             so == Cardinality(Standing(f, Signals \ P))
             to == Torn(f)
             ra == Reports(a, P)
             m  == Cardinality(Matching(b, P))
             o  == Cardinality(Matching(b, Signals \ P))
             rq == Reports(q, P)
             rs == Reports(q, Signals)
  <1>8. /\ st \in Nat /\ sp \in Nat /\ vo \in Nat /\ so \in Nat /\ to \in Nat /\ ra \in Nat
        /\ m \in Nat /\ o \in Nat /\ rq \in Nat /\ rs \in Nat
        /\ st + sp >= ra /\ vo <= rq /\ so + to + sp + ra <= rs
    BY <1>1, <1>2, <1>6
  <1>9. /\ Pledged(j, P) = m /\ Ahead(j, P) = m /\ Ahead(j, Signals \ P) = o
        /\ Reports(Append(q, b), P) = rq + m
        /\ Reports(Append(q, b), Signals) = rs + (m + o)
    BY <1>3, <1>4, <1>5, <1>7
  <1>10. /\ IsFiniteSet(Places(a, P)) /\ IsFiniteSet(Places(Append(q, b), P))
         /\ IsFiniteSet(Places(Append(q, b), Signals))
    BY <1>2, <1>3, <1>4
  <1> HIDE DEF st, sp, vo, so, to, ra, m, o, rq, rs
  <1>11. /\ st + sp + Ahead(j, P) >= ra + Pledged(j, P)
         /\ vo + Ahead(j, P) <= Reports(Append(q, b), P)
         /\ so + to + sp + ra + Pledged(j, P) + Ahead(j, Signals \ P)
              <= Reports(Append(q, b), Signals)
    BY <1>8, <1>9
  <1> QED  BY <1>10, <1>11, Zenon DEF Balance, st, sp, vo, so, to, ra

\* A signal is written: it stands, or is swallowed by the line it continues.
LEMMA BalanceWritten ==
    ASSUME NEW f, SoundFile(f, Signals), NEW a \in Seq(Beats), NEW q \in Seq(Beats),
           NEW P \in SUBSET Signals, NEW j, JobSound(j), j # NoJob, Balance(f, j, a, q, P),
           NEW jj, jj # NoJob, jj.beat = j.beat, Progress(jj) = Progress(j) + 1,
           Progress(j) - 1 \in DOMAIN j.beat.signals
    PROVE  Balance(Appended(f, j.beat.signals[Progress(j) - 1]), jj, a, q, P)
  <1> DEFINE r == j.beat.signals[Progress(j) - 1]
             g == Appended(f, r)
             Q == Signals \ P
             n == Progress(j)
  <1>0. j.beat \in Beats /\ n \in Nat
    BY DEF JobSound
  <1>1. /\ Cardinality(Standing(f, P)) \in Nat /\ Cardinality(Spoilt(f)) \in Nat
        /\ Cardinality(Voting(f, P)) \in Nat
        /\ Cardinality(Standing(f, Q)) \in Nat /\ Torn(f) \in {0, 1}
        /\ Pledged(j, P) \in Nat /\ Ahead(j, P) \in Nat /\ Ahead(j, Q) \in Nat
        /\ Reports(a, P) \in Nat /\ Reports(q, P) \in Nat /\ Reports(q, Signals) \in Nat
    BY BalanceNumbers
  <1>2. r \in Signals
    BY <1>0, BeatFields
  <1>3. Pledged(jj, P) = Pledged(j, P)
    BY DEF Pledged
  <1>4. /\ Ahead(j, P) = Ahead(jj, P) + (IF r \in P THEN 1 ELSE 0)
        /\ Ahead(j, Q) = Ahead(jj, Q) + (IF r \in Q THEN 1 ELSE 0)
    <2>1. /\ Ahead(j, P) = Cardinality(Unwritten(j.beat, n, P))
          /\ Ahead(j, Q) = Cardinality(Unwritten(j.beat, n, Q))
          /\ Ahead(jj, P) = Cardinality(Unwritten(j.beat, n + 1, P))
          /\ Ahead(jj, Q) = Cardinality(Unwritten(j.beat, n + 1, Q))
      BY DEF Ahead
    <2> QED  BY <1>0, <2>1, UnwrittenNext
  <1>5. Ahead(jj, P) \in Nat /\ Ahead(jj, Q) \in Nat
    BY <1>0, MatchingFinite DEF Ahead
  <1> HIDE DEF r, g, Q, n
  <1>6. /\ SoundFile(Appended(f, r), Signals) /\ Torn(g) = 0
        /\ f.open => /\ Cardinality(Standing(g, P)) = Cardinality(Standing(f, P))
                     /\ Cardinality(Spoilt(g)) = Cardinality(Spoilt(f)) + 1
                     /\ Cardinality(Voting(g, P)) <= Cardinality(Voting(f, P))
        /\ ~f.open => /\ Cardinality(Standing(g, P)) = Cardinality(Standing(f, P))
                           + (IF r \in P THEN 1 ELSE 0)
                      /\ Cardinality(Spoilt(g)) = Cardinality(Spoilt(f))
                      /\ Cardinality(Voting(g, P)) = Cardinality(Voting(f, P))
                           + (IF r \in P THEN 1 ELSE 0)
    BY <1>2, AppendCounts DEF g
  <1>7. /\ f.open => Cardinality(Standing(g, Q)) = Cardinality(Standing(f, Q))
        /\ ~f.open => Cardinality(Standing(g, Q)) = Cardinality(Standing(f, Q))
                        + (IF r \in Q THEN 1 ELSE 0)
    BY <1>2, AppendCounts DEF g
  <1>8. Torn(f) = (IF f.open THEN 1 ELSE 0) /\ (r \in Q <=> r \notin P)
    BY <1>2 DEF Torn, Q
  <1>9. /\ Cardinality(Standing(f, P)) + Cardinality(Spoilt(f)) + Ahead(j, P)
             >= Reports(a, P) + Pledged(j, P)
        /\ Cardinality(Voting(f, P)) + Ahead(j, P) <= Reports(q, P)
        /\ Cardinality(Standing(f, Q)) + Torn(f) + Cardinality(Spoilt(f))
             + Reports(a, P) + Pledged(j, P) + Ahead(j, Q) <= Reports(q, Signals)
        /\ IsFiniteSet(Places(a, P)) /\ IsFiniteSet(Places(q, P))
        /\ IsFiniteSet(Places(q, Signals))
    BY DEF Balance, Q
  <1>10. Cardinality(Voting(g, P)) \in Nat
    BY <1>6, LinesFinite DEF g
  <1> DEFINE d   == IF r \in P THEN 1 ELSE 0
             e   == IF r \in Q THEN 1 ELSE 0
             st  == Cardinality(Standing(f, P))
             sp  == Cardinality(Spoilt(f))
             vo  == Cardinality(Voting(f, P))
             so  == Cardinality(Standing(f, Q))
             to  == Torn(f)
             st2 == Cardinality(Standing(g, P))
             sp2 == Cardinality(Spoilt(g))
             vo2 == Cardinality(Voting(g, P))
             so2 == Cardinality(Standing(g, Q))
             pl  == Pledged(j, P)
             ah  == Ahead(j, P)
             ao  == Ahead(j, Q)
             ah2 == Ahead(jj, P)
             ao2 == Ahead(jj, Q)
             ra  == Reports(a, P)
             rq  == Reports(q, P)
             rs  == Reports(q, Signals)
  <1>n. /\ st \in Nat /\ sp \in Nat /\ vo \in Nat /\ so \in Nat /\ vo2 \in Nat
        /\ pl \in Nat /\ ah \in Nat /\ ao \in Nat /\ ra \in Nat /\ rq \in Nat /\ rs \in Nat
        /\ ah2 \in Nat /\ ao2 \in Nat
    BY <1>1, <1>5, <1>10
  <1>d. d \in {0, 1} /\ e = 1 - d
    BY <1>8
  <1>a. ah = ah2 + d /\ ao = ao2 + e
    BY <1>4
  <1>b. st + sp + ah >= ra + pl /\ vo + ah <= rq /\ so + to + sp + ra + pl + ao <= rs
    BY <1>9
  <1>o. /\ f.open => st2 = st /\ sp2 = sp + 1 /\ vo2 <= vo /\ so2 = so /\ to = 1
        /\ ~f.open => st2 = st + d /\ sp2 = sp /\ vo2 = vo + d /\ so2 = so + e /\ to = 0
    BY <1>6, <1>7, <1>8
  <1> HIDE DEF d, e, st, sp, vo, so, to, st2, sp2, vo2, so2, pl, ah, ao, ah2, ao2, ra, rq, rs
  <1>11. /\ st2 + sp2 + ah2 >= ra + pl
         /\ vo2 + ah2 <= rq
         /\ so2 + 0 + sp2 + ra + pl + ao2 <= rs
    <2>1. CASE f.open
      BY <1>n, <1>d, <1>a, <1>b, <1>o, <2>1
    <2>2. CASE ~f.open
      <3>1. st2 = st + d /\ sp2 = sp /\ vo2 = vo + d /\ so2 = so + (1 - d) /\ to = 0
        BY <1>d, <1>o, <2>2
      <3>2. ah = ah2 + d /\ ao = ao2 + (1 - d)
        BY <1>d, <1>a
      <3>3. CASE d = 0
        BY <1>n, <1>b, <3>1, <3>2, <3>3
      <3>4. CASE d = 1
        BY <1>n, <1>b, <3>1, <3>2, <3>4
      <3> QED  BY <1>d, <3>3, <3>4
    <2> QED  BY <2>1, <2>2
  <1>12. Balance(g, jj, a, q, P)
    BY <1>3, <1>6, <1>9, <1>11
       DEF Balance, Q, st2, sp2, vo2, so2, pl, ah2, ao2, ra, rq, rs
  <1> QED  BY <1>12 DEF g, r, n

\* Another write leaves the balance as it is.
LEMMA BalanceOther ==
    ASSUME NEW f, NEW a, NEW q, NEW P, NEW j, JobSound(j), j # NoJob, Balance(f, j, a, q, P),
           NEW jj, jj # NoJob, jj.beat = j.beat, Progress(jj) = Progress(j) + 1,
           Progress(j) - 1 \notin DOMAIN j.beat.signals
    PROVE  Balance(f, jj, a, q, P)
  <1>1. j.beat \in Beats /\ Progress(j) \in Nat
    BY DEF JobSound
  <1>2. Pledged(jj, P) = Pledged(j, P)
    BY DEF Pledged
  <1>3. Ahead(jj, P) = Ahead(j, P) /\ Ahead(jj, Signals \ P) = Ahead(j, Signals \ P)
    BY <1>1, UnwrittenNext DEF Ahead
  <1> QED  BY <1>2, <1>3 DEF Balance

\* The heartbeat is answered: what it reports is written.
LEMMA BalanceAnswered ==
    ASSUME NEW f, SoundFile(f, Signals), NEW a \in Seq(Beats), NEW q \in Seq(Beats),
           NEW P \in SUBSET Signals, NEW j, JobSound(j), j # NoJob, j.todo = <<>>,
           Balance(f, j, a, q, P)
    PROVE  Balance(f, NoJob, Append(a, j.beat), q, P)
  <1> DEFINE b == j.beat
  <1>0. b \in Beats /\ Progress(j) \in Nat
    BY DEF JobSound
  <1>1. /\ Cardinality(Standing(f, P)) \in Nat /\ Cardinality(Spoilt(f)) \in Nat
        /\ Cardinality(Voting(f, P)) \in Nat
        /\ Cardinality(Standing(f, Signals \ P)) \in Nat /\ Torn(f) \in {0, 1}
        /\ Reports(a, P) \in Nat /\ Reports(q, P) \in Nat /\ Reports(q, Signals) \in Nat
    BY BalanceNumbers
  <1>2. Progress(j) >= Len(b.signals) + 2
    <2>1. Len(Writes(b)) \in Nat /\ Len(Writes(b)) >= Len(b.signals) + 2
      BY <1>0, WritesAre
    <2>2. Progress(j) = Len(Writes(b)) - 0
      BY DEF Progress
    <2> QED  BY <2>1, <2>2
  <1>3. Ahead(j, P) = 0 /\ Ahead(j, Signals \ P) = 0
    BY <1>0, <1>2, UnwrittenEnds DEF Ahead
  <1>4. Pledged(j, P) = Cardinality(Matching(b, P)) /\ Pledged(j, P) \in Nat
    BY <1>0, MatchingFinite DEF Pledged
  <1>5. IsFiniteSet(Places(a, P))
    BY DEF Balance
  <1> HIDE DEF b
  <1>6. /\ IsFiniteSet(Places(Append(a, b), P))
        /\ Reports(Append(a, b), P) = Reports(a, P) + Cardinality(Matching(b, P))
    BY <1>0, <1>5, ReportsGrow
  <1>7. /\ Pledged(NoJob, P) = 0 /\ Ahead(NoJob, P) = 0 /\ Ahead(NoJob, Signals \ P) = 0
    BY DEF Pledged, Ahead
  <1>8. Balance(f, NoJob, Append(a, b), q, P)
    BY <1>1, <1>3, <1>4, <1>6, <1>7 DEF Balance
  <1> QED  BY <1>8 DEF b

\* A write that is not finished ends the heartbeat: what it had written may stand without
\* an answer, and the report that tore the line is one that is not answered.
LEMMA BalanceFault ==
    ASSUME NEW f, SoundFile(f, Signals), NEW a \in Seq(Beats), NEW q \in Seq(Beats),
           NEW P \in SUBSET Signals, NEW j, JobSound(j), Balance(f, j, a, q, P), NEW g,
           \/ g = f
           \/ /\ j # NoJob
              /\ Progress(j) - 1 \in DOMAIN j.beat.signals
              /\ g \in CutShort(f, j.beat.signals[Progress(j) - 1])
    PROVE  Balance(g, NoJob, a, q, P)
  <1> DEFINE Q == Signals \ P
             n == Progress(j)
             r == j.beat.signals[n - 1]
  <1>1. /\ Cardinality(Standing(f, P)) \in Nat /\ Cardinality(Spoilt(f)) \in Nat
        /\ Cardinality(Voting(f, P)) \in Nat
        /\ Cardinality(Standing(f, Q)) \in Nat /\ Torn(f) \in {0, 1}
        /\ Pledged(j, P) \in Nat /\ Ahead(j, P) \in Nat /\ Ahead(j, Q) \in Nat
        /\ Reports(a, P) \in Nat /\ Reports(q, P) \in Nat /\ Reports(q, Signals) \in Nat
    BY BalanceNumbers
  <1>2. /\ Cardinality(Standing(f, P)) + Cardinality(Spoilt(f)) + Ahead(j, P)
             >= Reports(a, P) + Pledged(j, P)
        /\ Cardinality(Voting(f, P)) + Ahead(j, P) <= Reports(q, P)
        /\ Cardinality(Standing(f, Q)) + Torn(f) + Cardinality(Spoilt(f))
             + Reports(a, P) + Pledged(j, P) + Ahead(j, Q) <= Reports(q, Signals)
        /\ IsFiniteSet(Places(a, P)) /\ IsFiniteSet(Places(q, P))
        /\ IsFiniteSet(Places(q, Signals))
    BY DEF Balance
  <1>3. Ahead(j, P) <= Pledged(j, P)
    <2>1. CASE j = NoJob
      BY <2>1 DEF Pledged, Ahead
    <2>2. CASE j # NoJob
      <3>1. j.beat \in Beats
        BY <2>2 DEF JobSound
      <3> QED  BY <2>2, <3>1, UnwrittenWithin DEF Pledged, Ahead
    <2> QED  BY <2>1, <2>2
  <1>4. Pledged(NoJob, P) = 0 /\ Ahead(NoJob, P) = 0 /\ Ahead(NoJob, Q) = 0
    BY DEF Pledged, Ahead
  <1> DEFINE st == Cardinality(Standing(f, P))
             sp == Cardinality(Spoilt(f))
             vo == Cardinality(Voting(f, P))
             so == Cardinality(Standing(f, Q))
             to == Torn(f)
             pl == Pledged(j, P)
             ah == Ahead(j, P)
             ao == Ahead(j, Q)
             ra == Reports(a, P)
             rq == Reports(q, P)
             rs == Reports(q, Signals)
  <1>n. /\ st \in Nat /\ sp \in Nat /\ vo \in Nat /\ so \in Nat /\ to \in {0, 1}
        /\ pl \in Nat /\ ah \in Nat /\ ao \in Nat /\ ra \in Nat /\ rq \in Nat /\ rs \in Nat
        /\ ah <= pl
        /\ st + sp + ah >= ra + pl /\ vo + ah <= rq /\ so + to + sp + ra + pl + ao <= rs
    BY <1>1, <1>2, <1>3
  <1> HIDE DEF st, sp, vo, so, to, pl, ah, ao, ra, rq, rs
  <1>z. SUFFICES /\ Cardinality(Standing(g, P)) + Cardinality(Spoilt(g)) + 0 >= ra + 0
                 /\ Cardinality(Voting(g, P)) + 0 <= rq
                 /\ Cardinality(Standing(g, Q)) + Torn(g) + Cardinality(Spoilt(g))
                      + ra + 0 + 0 <= rs
    BY <1>2, <1>4 DEF Balance, ra, rq, rs
  <1>5. CASE g = f
    <2>1. st + sp + 0 >= ra + 0 /\ vo + 0 <= rq /\ so + to + sp + ra + 0 + 0 <= rs
      BY <1>n
    <2> QED  BY <1>5, <2>1 DEF st, sp, vo, so, to
  <1>6. CASE j # NoJob /\ n - 1 \in DOMAIN j.beat.signals /\ g \in CutShort(f, r)
    <2>0. j.beat \in Beats /\ n \in Nat
      BY <1>6 DEF JobSound
    <2>1. r \in Signals
      BY <1>6, <2>0, BeatFields
    <2>2. /\ Ahead(j, P) = Cardinality(Unwritten(j.beat, n, P))
          /\ Ahead(j, Q) = Cardinality(Unwritten(j.beat, n, Q))
      BY <1>6 DEF Ahead
    <2>3. /\ Cardinality(Unwritten(j.beat, n + 1, P)) \in Nat
          /\ Cardinality(Unwritten(j.beat, n + 1, Q)) \in Nat
      BY <2>0, MatchingFinite
    <2>4. /\ Ahead(j, P) >= (IF r \in P THEN 1 ELSE 0)
          /\ Ahead(j, Q) >= (IF r \in Q THEN 1 ELSE 0)
      BY <1>6, <2>0, <2>2, <2>3, UnwrittenNext
    <2> HIDE DEF r, n
    <2>5. /\ SoundFile(g, Signals)
          /\ Cardinality(Standing(g, P)) = Cardinality(Standing(f, P))
          /\ Cardinality(Spoilt(g)) = Cardinality(Spoilt(f))
          /\ Cardinality(Voting(g, P)) <=
               Cardinality(Voting(f, P)) + (IF r \in P THEN 1 ELSE 0)
      BY <1>6, <2>1, CutCounts
    <2>6. Cardinality(Standing(g, Q)) = Cardinality(Standing(f, Q))
      BY <1>6, <2>1, CutCounts
    <2>7. Torn(g) \in {0, 1} /\ Cardinality(Voting(g, P)) \in Nat
      BY <2>5, LinesFinite DEF Torn
    <2>8. r \in Q <=> r \notin P
      BY <2>1
    <2> HIDE DEF Q
    <2> DEFINE d == IF r \in P THEN 1 ELSE 0
               vo2 == Cardinality(Voting(g, P))
               to2 == Torn(g)
    <2>9. /\ d \in {0, 1} /\ ah >= d /\ ao >= 1 - d
          /\ vo2 <= vo + d /\ vo2 \in Nat /\ to2 \in {0, 1}
      BY <2>4, <2>5, <2>7, <2>8 DEF ah, ao, vo
    <2> HIDE DEF d, vo2, to2
    <2>10. st + sp + 0 >= ra + 0 /\ vo2 + 0 <= rq /\ so + to2 + sp + ra + 0 + 0 <= rs
      BY <1>n, <2>9
    <2> QED  BY <2>5, <2>6, <2>10 DEF st, sp, so, vo2, to2
  <1> QED  BY <1>5, <1>6

----------------------------------------------------------------------------
\* Nothing leaves a file.

\* A line begun or continued holds its record, and the others stay.
LEMMA GrownHolds ==
    ASSUME NEW R, NEW f, SoundFile(f, R), NEW rs \in SUBSET R
    PROVE  /\ Continued(f, rs) \in Seq(Rows(R)) /\ Len(Continued(f, rs)) > 0
           /\ \A x : (Holds(f, x) \/ x \in rs) =>
                \E k \in DOMAIN Continued(f, rs) : x \in Continued(f, rs)[k].records
  <1> DEFINE ls == Continued(f, rs)
             n == Len(f.lines)
  <1>1. n \in Nat /\ DOMAIN f.lines = 1 .. n /\ f.open \in BOOLEAN /\ n = Len(f.lines)
    BY DEF SoundFile, File
  <1>2. CASE f.open
    <2>1. Fuller(ls, f, rs, R)
      BY <1>2, ContinuedOpen, Zenon
    <2>2. n > 0
      BY <1>2 DEF SoundFile
    <2> HIDE DEF ls, n
    <2>3. /\ ls \in Seq(Rows(R)) /\ Len(ls) = n /\ DOMAIN ls = 1 .. n
          /\ \A k \in 1 .. n : k # n => ls[k] = f.lines[k]
          /\ ls[n].records = f.lines[n].records \union rs
      BY <1>1, <2>1 DEF Fuller
    <2>4. ASSUME NEW x, Holds(f, x) \/ x \in rs PROVE \E k \in DOMAIN ls : x \in ls[k].records
      <3>1. CASE x \in rs
        BY <1>1, <2>2, <2>3, <3>1
      <3>2. CASE Holds(f, x)
        BY <1>1, <2>2, <2>3, <3>2 DEF Holds
      <3> QED  BY <2>4, <3>1, <3>2
    <2> QED  BY <1>1, <2>2, <2>3, <2>4 DEF ls
  <1>3. CASE ~f.open
    <2>1. Longer(ls, f, rs, R)
      BY <1>3, ContinuedClosed, Zenon
    <2> HIDE DEF ls, n
    <2>3. /\ ls \in Seq(Rows(R)) /\ Len(ls) = n + 1 /\ DOMAIN ls = 1 .. (n + 1)
          /\ \A k \in 1 .. n : ls[k] = f.lines[k]
          /\ ls[n + 1].records = rs
      BY <1>1, <2>1 DEF Longer
    <2>4. ASSUME NEW x, Holds(f, x) \/ x \in rs PROVE \E k \in DOMAIN ls : x \in ls[k].records
      <3>1. CASE x \in rs
        BY <1>1, <2>3, <3>1
      <3>2. CASE Holds(f, x)
        BY <1>1, <2>3, <3>2 DEF Holds
      <3> QED  BY <2>4, <3>1, <3>2
    <2> QED  BY <1>1, <2>3, <2>4 DEF ls
  <1> QED  BY <1>1, <1>2, <1>3

\* An append keeps what the file holds and adds its record.
LEMMA AppendHolds ==
    ASSUME NEW R, NEW f, SoundFile(f, R), NEW r \in R
    PROVE  /\ SoundFile(Appended(f, r), R)
           /\ Holds(Appended(f, r), r)
           /\ \A x : Holds(f, x) => Holds(Appended(f, r), x)
  <1> DEFINE ls == Continued(f, {r})
             g == Appended(f, r)
  <1>1. {r} \in SUBSET R /\ r \in {r}
    OBVIOUS
  <1>2. /\ ls \in Seq(Rows(R)) /\ Len(ls) > 0
        /\ \A x : (Holds(f, x) \/ x \in {r}) => \E k \in DOMAIN ls : x \in ls[k].records
    BY <1>1, GrownHolds, Zenon
  <1>3. g = [lines |-> ls, open |-> FALSE] /\ g.lines = ls
    BY DEF Appended
  <1> HIDE DEF ls, g
  <1>4. SoundFile(g, R)
    BY <1>2, <1>3, FileMade
  <1>5. \A x : (Holds(f, x) \/ x = r) => Holds(g, x)
    BY <1>2, <1>3 DEF Holds
  <1> QED  BY <1>4, <1>5 DEF g

\* An append that is cut short keeps what the file holds.
LEMMA CutHolds ==
    ASSUME NEW R, NEW f, SoundFile(f, R), NEW r \in R, NEW g \in CutShort(f, r)
    PROVE  /\ SoundFile(g, R)
           /\ \A x : Holds(f, x) => Holds(g, x)
  <1>1. ASSUME NEW rs \in SUBSET R, g = [lines |-> Continued(f, rs), open |-> TRUE]
        PROVE  SoundFile(g, R) /\ \A x : Holds(f, x) => Holds(g, x)
    <2> DEFINE ls == Continued(f, rs)
    <2>1. /\ ls \in Seq(Rows(R)) /\ Len(ls) > 0
          /\ \A x : (Holds(f, x) \/ x \in rs) => \E k \in DOMAIN ls : x \in ls[k].records
      BY GrownHolds, Zenon
    <2>2. g = [lines |-> ls, open |-> TRUE] /\ g.lines = ls
      BY <1>1
    <2> HIDE DEF ls
    <2>3. SoundFile(g, R)
      BY <2>1, <2>2, FileMade
    <2> QED  BY <2>1, <2>2, <2>3 DEF Holds
  <1>2. g = f \/ g = [lines |-> Continued(f, {}), open |-> TRUE]
              \/ g = [lines |-> Continued(f, {r}), open |-> TRUE]
    BY DEF CutShort
  <1>3. {} \in SUBSET R /\ {r} \in SUBSET R
    OBVIOUS
  <1>4. CASE g = f
    BY <1>4
  <1> QED  BY <1>1, <1>2, <1>3, <1>4

----------------------------------------------------------------------------
\* The steps of the archive.

\* The live registry as it is read.
LEMMA ListedType ==
    ASSUME organisms \in [Organisms -> Int] \union {Unreadable}
    PROVE  Listed \in [Organisms -> Int]
  BY DEF Listed, NoOrganism, Unseen

\* The empty archive satisfies the invariant.
LEMMA ArchiveStart == RegistryInit => ArchiveInv
  <1> SUFFICES ASSUME RegistryInit PROVE ArchiveInv
    OBVIOUS
  <1>1. job = NoJob /\ received = <<>> /\ acked = <<>> /\ harm = 0 /\ organisms = NoOrganism
        /\ threats = Blank /\ fossil = [o \in Organisms |-> Blank]
    BY DEF RegistryInit
  <1>2. \A R : SoundFile(Blank, R) /\ Blank \in File(R)
    <2> TAKE R
    <2>1. <<>> \in Seq(Rows(R))
      OBVIOUS
    <2>2. SoundFile([lines |-> <<>>, open |-> FALSE], R)
      BY <2>1, FileMade, Zenon
    <2> QED  BY <2>2 DEF Blank, SoundFile
  <1>3. NoOrganism \in [Organisms -> Int] /\ Listed = NoOrganism
    BY <1>1 DEF NoOrganism, Unseen, Listed
  <1>4. ArchiveType
    <2>1. JobSound(job)
      BY <1>1 DEF JobSound
    <2>2. fossil \in [Organisms -> File(Nat)] /\ \A o \in Organisms : SoundFile(fossil[o], Nat)
      BY <1>1, <1>2
    <2>3. SoundFile(threats, Signals) /\ received \in Seq(Beats) /\ acked \in Seq(Beats)
      BY <1>1, <1>2
    <2> QED  BY <1>1, <1>3, <2>1, <2>2, <2>3 DEF ArchiveType
  <1>5. /\ \A P : Standing(Blank, P) = {} /\ Voting(Blank, P) = {}
        /\ Spoilt(Blank) = {} /\ Torn(Blank) = 0
    BY DEF Standing, Voting, Spoilt, Torn, Closed, Blank
  <1>6. \A P : Places(<<>>, P) = {}
    BY DEF Places
  <1>7. Cardinality({}) = 0 /\ IsFiniteSet({})
    BY FS_EmptySet
  <1>8. Balanced
    <2> SUFFICES ASSUME NEW P \in SUBSET Signals PROVE Balance(Blank, NoJob, <<>>, <<>>, P)
      BY <1>1 DEF Balanced
    <2>1. \A S : Reports(<<>>, S) = 0
      BY <1>6, <1>7, ReportsArePlaces
    <2>2. \A S : Pledged(NoJob, S) = 0 /\ Ahead(NoJob, S) = 0
      BY DEF Pledged, Ahead
    <2>3. /\ Cardinality(Standing(Blank, P)) = 0 /\ Cardinality(Spoilt(Blank)) = 0
          /\ Cardinality(Voting(Blank, P)) = 0 /\ Cardinality(Standing(Blank, Signals \ P)) = 0
          /\ Torn(Blank) = 0 /\ IsFiniteSet(Places(<<>>, P))
          /\ IsFiniteSet(Places(<<>>, Signals))
      BY <1>5, <1>6, <1>7
    <2>4. 0 + 0 + 0 >= 0 + 0 /\ 0 + 0 <= 0 /\ 0 + 0 + 0 + 0 + 0 + 0 <= 0
      OBVIOUS
    <2> QED  BY <2>1, <2>2, <2>3, <2>4, Zenon DEF Balance
  <1>9. Excused
    BY <1>1, <1>5, <1>7 DEF Excused
  <1>10. Backed
    BY <1>1, <1>3 DEF Backed, Reached, NoOrganism
  <1>11. Latest
    BY <1>1 DEF Latest, Reached
  <1> QED  BY <1>4, <1>8, <1>9, <1>10, <1>11 DEF ArchiveInv

\* A heartbeat is received.
LEMMA ArchiveReceive ==
    ASSUME ArchiveInv, NEW b \in Beats, Receive(b)
    PROVE  ArchiveInv'
  <1>1. /\ job = NoJob /\ received' = Append(received, b)
        /\ job' = [todo |-> Writes(b), beat |-> b]
        /\ fossil' = fossil /\ organisms' = organisms /\ threats' = threats /\ acked' = acked
        /\ harm' = harm
    BY DEF Receive
  <1>2. /\ job'.beat = b /\ job'.todo = Writes(b)
        /\ job' = [todo |-> job'.todo, beat |-> job'.beat]
    BY <1>1
  <1>3. job' # NoJob
    <2>1. b # [none |-> 0]
      BY BeatFields
    <2>2. NoJob.beat = [none |-> 0]
      BY DEF NoJob
    <2> QED  BY <1>2, <2>1, <2>2
  <1>4. Writes(b) \in Seq(Steps) /\ Len(Writes(b)) \in Nat
    BY WritesAre
  <1>5. Progress(job') = 0
    BY <1>2, <1>4 DEF Progress
  <1>6. Rest(b, 0, Writes(b))
    BY <1>4 DEF Rest
  <1>7. ArchiveType'
    <2>1. JobSound(job')
      BY <1>2, <1>5, <1>6 DEF JobSound
    <2>2. received' \in Seq(Beats)
      BY <1>1 DEF ArchiveInv, ArchiveType
    <2> QED  BY <1>1, <2>1, <2>2 DEF ArchiveInv, ArchiveType
  <1>8. Balanced'
    <2> SUFFICES ASSUME NEW P \in SUBSET Signals
                 PROVE  Balance(threats, job', acked, Append(received, b), P)
      BY <1>1 DEF Balanced
    <2>1. /\ SoundFile(threats, Signals) /\ acked \in Seq(Beats) /\ received \in Seq(Beats)
          /\ Balance(threats, NoJob, acked, received, P)
      BY <1>1 DEF ArchiveInv, ArchiveType, Balanced
    <2> QED  BY <1>2, <1>3, <1>5, <2>1, BalanceReceived, Zenon
  <1>9. Excused'
    BY <1>1 DEF ArchiveInv, Excused
  <1>10. ~Reached(1)' /\ ~Reached(2)' /\ ~Reached(2) /\ Listed' = Listed
    BY <1>1, <1>5 DEF Reached, Listed
  <1>11. Backed'
    BY <1>1, <1>10 DEF ArchiveInv, Backed
  <1>12. Latest'
    BY <1>1, <1>10 DEF ArchiveInv, Latest
  <1> QED  BY <1>7, <1>8, <1>9, <1>11, <1>12 DEF ArchiveInv

\* It is answered: what the live registry lists is now the last one of its organism.
LEMMA ArchiveAnswer ==
    ASSUME ArchiveInv, Answer
    PROVE  ArchiveInv'
  <1> DEFINE b == job.beat
             n == Len(acked)
  <1>1. /\ job # NoJob /\ job.todo = <<>> /\ acked' = Append(acked, b) /\ job' = NoJob
        /\ fossil' = fossil /\ organisms' = organisms /\ threats' = threats
        /\ received' = received /\ harm' = harm
    BY DEF Answer
  <1>2. b \in Beats /\ JobSound(job) /\ Progress(job) \in Nat
    BY <1>1 DEF ArchiveInv, ArchiveType, JobSound
  <1>3. ArchiveType'
    <2>1. JobSound(job')
      BY <1>1 DEF JobSound
    <2>2. acked' \in Seq(Beats)
      BY <1>1, <1>2 DEF ArchiveInv, ArchiveType
    <2> QED  BY <1>1, <2>1, <2>2 DEF ArchiveInv, ArchiveType
  <1>4. Balanced'
    <2> SUFFICES ASSUME NEW P \in SUBSET Signals
                 PROVE  Balance(threats, NoJob, Append(acked, job.beat), received, P)
      BY <1>1 DEF Balanced
    <2>1. /\ SoundFile(threats, Signals) /\ acked \in Seq(Beats) /\ received \in Seq(Beats)
          /\ Balance(threats, job, acked, received, P)
      BY <1>1 DEF ArchiveInv, ArchiveType, Balanced
    <2> QED  BY <1>1, <1>2, <2>1, BalanceAnswered, Zenon
  <1>5. Excused'
    BY <1>1 DEF ArchiveInv, Excused
  <1>6. ~Reached(1)' /\ ~Reached(2)' /\ Listed' = Listed
    BY <1>1 DEF Reached, Listed
  <1>7. Backed'
    BY <1>1, <1>6 DEF ArchiveInv, Backed
  <1>8. Reached(2)
    <2>1. Len(Writes(b)) \in Nat /\ Len(Writes(b)) >= Len(b.signals) + 2
      BY <1>2, WritesAre
    <2>2. Len(b.signals) \in Nat
      BY <1>2, BeatFields
    <2>3. Progress(job) = Len(Writes(b)) - 0
      BY <1>1 DEF Progress
    <2> QED  BY <1>1, <2>1, <2>2, <2>3 DEF Reached
  <1>9. Latest'
    <2> SUFFICES ASSUME harm = 0, NEW i \in DOMAIN acked', LastOf(acked', i)
                 PROVE  Listed[acked'[i].org] = acked'[i].time
      BY <1>1, <1>6 DEF Latest
    <2>1. /\ n \in Nat /\ DOMAIN acked = 1 .. n /\ DOMAIN acked' = 1 .. (n + 1)
          /\ acked'[n + 1] = b /\ \A k \in 1 .. n : acked'[k] = acked[k]
          /\ Len(acked') = n + 1 /\ Len(acked) = n
      BY <1>1, <1>2 DEF ArchiveInv, ArchiveType
    <2>2. /\ Listed[b.org] = b.time
          /\ \A k \in DOMAIN acked :
               (LastOf(acked, k) /\ b.org # acked[k].org)
                 => Listed[acked[k].org] = acked[k].time
      BY <1>8 DEF ArchiveInv, Latest
    <2> HIDE DEF b, n
    <2>3. CASE i = n + 1
      BY <2>1, <2>2, <2>3
    <2>4. CASE i \in 1 .. n
      <3>1. n + 1 \in (i + 1) .. (n + 1) /\ \A k \in (i + 1) .. n : k \in (i + 1) .. (n + 1)
        BY <2>1, <2>4
      <3>2. b.org # acked[i].org
        BY <2>1, <2>4, <3>1 DEF LastOf
      <3>3. LastOf(acked, i)
        <4> SUFFICES ASSUME NEW k \in (i + 1) .. n PROVE acked[k].org # acked[i].org
          BY <2>1 DEF LastOf
        <4>1. k \in 1 .. n /\ k \in (i + 1) .. (n + 1)
          BY <2>1, <2>4, <3>1
        <4> QED  BY <2>1, <2>4, <4>1 DEF LastOf
      <3> QED  BY <2>1, <2>2, <2>4, <3>2, <3>3
    <2> QED  BY <2>1, <2>3, <2>4
  <1> QED  BY <1>3, <1>4, <1>5, <1>7, <1>9 DEF ArchiveInv

\* It writes its next record.
LEMMA ArchiveWrite ==
    ASSUME ArchiveInv, WriteNext
    PROVE  ArchiveInv'
  <1> DEFINE b == job.beat
             n == Progress(job)
             w == Head(job.todo)
  <1>1. /\ job.todo # <<>> /\ Done(w, b) /\ job' = [job EXCEPT !.todo = Tail(@)]
        /\ received' = received /\ acked' = acked /\ harm' = harm
    BY DEF WriteNext
  <1>2. /\ ArchiveType /\ JobSound(job) /\ SoundFile(threats, Signals)
        /\ acked \in Seq(Beats) /\ received \in Seq(Beats)
        /\ fossil \in [Organisms -> File(Nat)]
        /\ \A o \in Organisms : SoundFile(fossil[o], Nat)
        /\ organisms \in [Organisms -> Int] \union {Unreadable}
    BY DEF ArchiveInv, ArchiveType
  <1>3. /\ job # NoJob /\ b \in Beats /\ n \in Nat /\ InTurn(w, b, n)
        /\ Rest(b, n + 1, Tail(job.todo))
    BY <1>1, <1>2, HeadIsDue
  <1>4. b.org \in Organisms /\ b.time \in Nat /\ b.signals \in Seq(Signals) /\ b # [none |-> 0]
    BY <1>3, BeatFields
  <1>5. /\ job' = [todo |-> job'.todo, beat |-> job'.beat]
        /\ job'.beat = b /\ job'.todo = Tail(job.todo)
    <2>1. job = [todo |-> job.todo, beat |-> job.beat]
      BY <1>2, <1>3 DEF JobSound
    <2> QED  BY <1>1, <2>1
  <1>6. job' # NoJob
    BY <1>4, <1>5 DEF NoJob
  <1>7. Progress(job') = n + 1
    <2>1. Len(Tail(job.todo)) = Len(Writes(b)) - (n + 1) /\ Len(Writes(b)) \in Nat
      BY <1>3, WritesAre DEF Rest
    <2>2. Progress(job') = Len(Writes(b)) - Len(Tail(job.todo))
      BY <1>5 DEF Progress
    <2>3. n \in Nat
      BY <1>3
    <2> DEFINE l == Len(Writes(b))
               x == Len(Tail(job.todo))
    <2>4. x = l - (n + 1) /\ l \in Nat /\ Progress(job') = l - x
      BY <2>1, <2>2
    <2> HIDE DEF n, l, x
    <2> QED  BY <2>3, <2>4
  <1>8. JobSound(job')
    BY <1>3, <1>5, <1>7 DEF JobSound
  <1>9. Len(b.signals) \in Nat /\ DOMAIN b.signals = 1 .. Len(b.signals)
    BY <1>4
  <1>10. Listed \in [Organisms -> Int]
    BY <1>2, ListedType
  <1>11. /\ Reached(1)' /\ (Reached(1) <=> n >= 1)
         /\ (Reached(2)' <=> n >= 1) /\ (Reached(2) <=> n >= 2)
    BY <1>3, <1>6, <1>7 DEF Reached
  <1>12. Excused /\ Balanced /\ Backed /\ Latest
    BY DEF ArchiveInv
  <1> HIDE DEF b, n, w
  <1>13. CASE n - 1 \in DOMAIN b.signals
    <2>1. w = [file |-> "threats", rec |-> b.signals[n - 1]] /\ n >= 2
      BY <1>3, <1>9, <1>13 DEF InTurn
    <2>2. /\ fossil' = fossil /\ organisms' = organisms
          /\ threats' = Appended(threats, b.signals[n - 1])
      BY <1>1, <2>1 DEF Done
    <2>3. b.signals[n - 1] \in Signals
      BY <1>4, <1>13
    <2>4. /\ SoundFile(threats', Signals) /\ Torn(threats') = 0
          /\ threats.open => Cardinality(Spoilt(threats')) = Cardinality(Spoilt(threats)) + 1
          /\ ~threats.open => Cardinality(Spoilt(threats')) = Cardinality(Spoilt(threats))
      BY <1>2, <2>2, <2>3, AppendCounts
    <2>5. ArchiveType'
      BY <1>1, <1>2, <1>8, <2>2, <2>4 DEF ArchiveType
    <2>6. Balanced'
      <3> SUFFICES ASSUME NEW P \in SUBSET Signals
                   PROVE  Balance(threats', job', acked, received, P)
        BY <1>1 DEF Balanced
      <3>1. Balance(threats, job, acked, received, P)
        BY <1>12 DEF Balanced
      <3>2. job'.beat = job.beat /\ Progress(job') = Progress(job) + 1
            /\ Progress(job) - 1 \in DOMAIN job.beat.signals
        BY <1>5, <1>7, <1>13 DEF b, n
      <3>3. Balance(Appended(threats, job.beat.signals[Progress(job) - 1]), job', acked,
                    received, P)
        BY <1>2, <1>3, <1>6, <3>1, <3>2, BalanceWritten, Zenon
      <3> QED  BY <2>2, <3>3 DEF b, n
    <2>7. Excused'
      <3>1. Cardinality(Spoilt(threats)) \in Nat /\ harm \in Nat
        BY <1>2, LinesFinite DEF ArchiveType
      <3> QED  BY <1>1, <1>12, <2>4, <3>1 DEF Excused, Torn
    <2>8. Listed' = Listed
      BY <2>2 DEF Listed
    <2>n. n >= 1
      BY <1>3, <2>1
    <2>9. Backed'
      BY <1>5, <1>11, <1>12, <2>2, <2>8, <2>n DEF Backed, b
    <2>10. Latest'
      BY <1>1, <1>5, <1>11, <1>12, <2>1, <2>8, <2>n DEF Latest, b
    <2> QED  BY <2>5, <2>6, <2>7, <2>9, <2>10 DEF ArchiveInv
  <1>14. CASE n - 1 \notin DOMAIN b.signals
    <2>1. \/ n = 0 /\ w = [file |-> "fossil", rec |-> b.time]
          \/ n = 1 /\ w = [file |-> "live", rec |-> b.time]
          \/ n >= 2 /\ w.file = "mutations"
      BY <1>3, <1>9, <1>14 DEF InTurn
    <2>2. threats' = threats
      BY <1>1, <2>1 DEF Done
    <2>3. Balanced'
      <3> SUFFICES ASSUME NEW P \in SUBSET Signals
                   PROVE  Balance(threats, job', acked, received, P)
        BY <1>1, <2>2 DEF Balanced
      <3>1. Balance(threats, job, acked, received, P)
        BY <1>12 DEF Balanced
      <3>2. job'.beat = job.beat /\ Progress(job') = Progress(job) + 1
            /\ Progress(job) - 1 \notin DOMAIN job.beat.signals
        BY <1>5, <1>7, <1>14 DEF b, n
      <3> QED  BY <1>2, <1>3, <1>6, <3>1, <3>2, BalanceOther, Zenon
    <2>4. Excused'
      BY <1>1, <1>12, <2>2 DEF Excused
    <2>5. CASE n = 0
      <3>1. /\ fossil' = [fossil EXCEPT ![b.org] = Appended(@, b.time)]
            /\ organisms' = organisms
        <4>1. w.file = "fossil" /\ w.rec = b.time
          BY <2>1, <2>5
        <4> QED  BY <1>1, <4>1 DEF Done
      <3>2. /\ SoundFile(Appended(fossil[b.org], b.time), Nat)
            /\ Holds(Appended(fossil[b.org], b.time), b.time)
            /\ \A x : Holds(fossil[b.org], x) => Holds(Appended(fossil[b.org], b.time), x)
        BY <1>2, <1>4, AppendHolds
      <3>3. Appended(fossil[b.org], b.time) \in File(Nat)
        BY <3>2 DEF SoundFile
      <3>4. /\ fossil'[b.org] = Appended(fossil[b.org], b.time)
            /\ \A o \in Organisms : o # b.org => fossil'[o] = fossil[o]
            /\ fossil' \in [Organisms -> File(Nat)]
        BY <1>2, <1>4, <3>1, <3>3
      <3>5. \A o \in Organisms : SoundFile(fossil'[o], Nat)
        BY <1>2, <3>2, <3>4
      <3>6. \A o \in Organisms : \A x : Holds(fossil[o], x) => Holds(fossil'[o], x)
        BY <3>2, <3>4
      <3>7. ArchiveType'
        BY <1>1, <1>2, <1>8, <2>2, <3>1, <3>4, <3>5 DEF ArchiveType
      <3>8. Listed' = Listed
        BY <3>1 DEF Listed
      <3>9. Backed'
        BY <1>5, <1>12, <3>2, <3>4, <3>6, <3>8 DEF Backed
      <3>10. Latest'
        BY <1>1, <1>3, <1>11, <1>12, <2>5, <3>8 DEF Latest
      <3> QED  BY <2>3, <2>4, <3>7, <3>9, <3>10 DEF ArchiveInv
    <2>6. CASE n = 1
      <3>1. fossil' = fossil /\ organisms' = [Listed EXCEPT ![b.org] = b.time]
        <4>1. w.file = "live" /\ w.rec = b.time
          BY <2>1, <2>6
        <4> QED  BY <1>1, <4>1 DEF Done, Updated
      <3>2. /\ organisms' \in [Organisms -> Int]
            /\ organisms'[b.org] = b.time
            /\ \A o \in Organisms : o # b.org => organisms'[o] = Listed[o]
        BY <1>4, <1>10, <3>1
      <3>3. ArchiveType'
        BY <1>1, <1>2, <1>8, <2>2, <3>1, <3>2 DEF ArchiveType
      <3>4. Listed' = organisms'
        <4>1. DOMAIN organisms' = Organisms /\ DOMAIN Unreadable = {}
          BY <3>2 DEF Unreadable
        <4>2. organisms' # Unreadable
          BY <1>4, <4>1
        <4> QED  BY <4>2 DEF Listed
      <3>5. Holds(fossil[b.org], b.time)
        BY <1>11, <1>12, <2>6 DEF Backed, b
      <3>6. Backed'
        BY <1>5, <1>12, <3>1, <3>2, <3>4, <3>5 DEF Backed
      <3>7. Latest'
        <4> SUFFICES ASSUME harm = 0
                     PROVE  /\ organisms'[b.org] = b.time
                            /\ \A i \in DOMAIN acked :
                                 (LastOf(acked, i) /\ b.org # acked[i].org)
                                   => organisms'[acked[i].org] = acked[i].time
          BY <1>1, <1>5, <1>11, <2>6, <3>4 DEF Latest
        <4>1. ~Reached(2)
          BY <1>11, <2>6
        <4>2. \A i \in DOMAIN acked : LastOf(acked, i) => Listed[acked[i].org] = acked[i].time
          BY <1>12, <4>1 DEF Latest
        <4>3. \A i \in DOMAIN acked : acked[i].org \in Organisms
          <5> TAKE i \in DOMAIN acked
          <5>1. acked[i] \in Beats
            BY <1>2
          <5> QED  BY <5>1, BeatFields
        <4> QED  BY <3>2, <4>2, <4>3
      <3> QED  BY <2>3, <2>4, <3>3, <3>6, <3>7 DEF ArchiveInv
    <2>7. CASE n >= 2
      <3>1. fossil' = fossil /\ organisms' = organisms
        BY <1>1, <1>3, <2>1, <2>7 DEF Done
      <3>2. ArchiveType'
        BY <1>1, <1>2, <1>8, <2>2, <3>1 DEF ArchiveType
      <3>3. Listed' = Listed
        BY <3>1 DEF Listed
      <3>4. n >= 1
        BY <1>3, <2>7
      <3>5. Backed'
        BY <1>5, <1>11, <1>12, <3>1, <3>3, <3>4 DEF Backed, b
      <3>6. Latest'
        BY <1>1, <1>5, <1>11, <1>12, <2>7, <3>3, <3>4 DEF Latest, b
      <3> QED  BY <2>3, <2>4, <3>2, <3>5, <3>6 DEF ArchiveInv
    <2> QED  BY <1>3, <2>5, <2>6, <2>7
  <1> QED  BY <1>13, <1>14

\* A failing write, or a crash.
Harmed ==
    /\ job' = NoJob /\ harm' = harm + 1 /\ received' = received /\ acked' = acked
    /\ \/ fossil' = fossil /\ organisms' = organisms /\ threats' = threats
       \/ job.todo # <<>> /\ Undone(Head(job.todo), job.beat)

\* A fault loses the job and leaves the file it was writing as it may be cut short.
LEMMA ArchiveHarmed ==
    ASSUME ArchiveInv, Harmed
    PROVE  ArchiveInv'
  <1> DEFINE b == job.beat
             n == Progress(job)
             w == Head(job.todo)
  <1>1. /\ job' = NoJob /\ harm' = harm + 1 /\ received' = received /\ acked' = acked
    BY DEF Harmed
  <1>2. /\ ArchiveType /\ JobSound(job) /\ SoundFile(threats, Signals)
        /\ acked \in Seq(Beats) /\ received \in Seq(Beats)
        /\ fossil \in [Organisms -> File(Nat)]
        /\ \A o \in Organisms : SoundFile(fossil[o], Nat)
        /\ organisms \in [Organisms -> Int] \union {Unreadable}
        /\ harm \in Nat
    BY DEF ArchiveInv, ArchiveType
  <1>3. Excused /\ Balanced /\ Backed
    BY DEF ArchiveInv
  \* What is left of the files.
  <1>4. /\ fossil' \in [Organisms -> File(Nat)]
        /\ \A o \in Organisms : /\ SoundFile(fossil'[o], Nat)
                                /\ \A x : Holds(fossil[o], x) => Holds(fossil'[o], x)
        /\ organisms' \in {organisms, Unreadable}
        /\ \/ threats' = threats
           \/ /\ job # NoJob
              /\ n - 1 \in DOMAIN b.signals
              /\ threats' \in CutShort(threats, b.signals[n - 1])
    <2>1. CASE fossil' = fossil /\ organisms' = organisms /\ threats' = threats
      BY <1>2, <2>1
    <2>2. CASE job.todo # <<>> /\ Undone(w, b)
      <3>1. job # NoJob /\ b \in Beats /\ n \in Nat /\ InTurn(w, b, n)
        BY <1>2, <2>2, HeadIsDue
      <3>2. b.org \in Organisms /\ b.time \in Nat
        BY <3>1, BeatFields
      <3> HIDE DEF b, n, w
      <3>3. CASE w = [file |-> "fossil", rec |-> b.time]
        <4>1. /\ organisms' = organisms /\ threats' = threats
              /\ \E f \in CutShort(fossil[b.org], b.time) :
                   fossil' = [fossil EXCEPT ![b.org] = f]
          BY <2>2, <3>3 DEF Undone
        <4>2. PICK f \in CutShort(fossil[b.org], b.time) :
                fossil' = [fossil EXCEPT ![b.org] = f]
          BY <4>1
        <4>3. SoundFile(fossil[b.org], Nat)
          BY <1>2, <3>2
        <4>4. SoundFile(f, Nat) /\ \A x : Holds(fossil[b.org], x) => Holds(f, x)
          BY <3>2, <4>3, CutHolds
        <4>5. f \in File(Nat)
          BY <4>4 DEF SoundFile
        <4>6. /\ fossil' \in [Organisms -> File(Nat)] /\ fossil'[b.org] = f
              /\ \A o \in Organisms : o # b.org => fossil'[o] = fossil[o]
          BY <1>2, <3>2, <4>2, <4>5
        <4>7. \A o \in Organisms : /\ SoundFile(fossil'[o], Nat)
                                   /\ \A x : Holds(fossil[o], x) => Holds(fossil'[o], x)
          BY <1>2, <4>4, <4>6
        <4> QED  BY <4>1, <4>6, <4>7
      <3>4. CASE w = [file |-> "live", rec |-> b.time]
        <4>1. fossil' = fossil /\ organisms' \in {organisms, Unreadable} /\ threats' = threats
          BY <2>2, <3>4 DEF Undone
        <4> QED  BY <1>2, <4>1
      <3>5. CASE n - 1 \in DOMAIN b.signals
                   /\ w = [file |-> "threats", rec |-> b.signals[n - 1]]
        <4>1. /\ fossil' = fossil /\ organisms' = organisms
              /\ threats' \in CutShort(threats, b.signals[n - 1])
          BY <2>2, <3>5 DEF Undone
        <4> QED  BY <1>2, <3>1, <3>5, <4>1
      <3>6. CASE w.file = "mutations"
        <4>1. fossil' = fossil /\ organisms' = organisms /\ threats' = threats
          BY <2>2, <3>6 DEF Undone
        <4> QED  BY <1>2, <4>1
      <3> QED  BY <3>1, <3>3, <3>4, <3>5, <3>6 DEF InTurn
    <2> QED  BY <2>1, <2>2 DEF Harmed
  <1>5. /\ SoundFile(threats', Signals) /\ Torn(threats') \in {0, 1}
        /\ Cardinality(Spoilt(threats')) = Cardinality(Spoilt(threats))
    <2>1. CASE threats' = threats
      BY <1>2, <2>1 DEF Torn
    <2>2. CASE /\ job # NoJob
               /\ n - 1 \in DOMAIN b.signals
               /\ threats' \in CutShort(threats, b.signals[n - 1])
      <3>1. b.signals[n - 1] \in Signals
        <4>1. b \in Beats
          BY <1>2, <2>2 DEF JobSound
        <4> QED  BY <2>2, <4>1, BeatFields
      <3> QED  BY <1>2, <2>2, <3>1, CutCounts DEF Torn
    <2> QED  BY <1>4, <2>1, <2>2
  <1>6. ArchiveType'
    <2>1. JobSound(job')
      BY <1>1 DEF JobSound
    <2> QED  BY <1>1, <1>2, <1>4, <1>5, <2>1 DEF ArchiveType
  <1>7. Balanced'
    <2> SUFFICES ASSUME NEW P \in SUBSET Signals
                 PROVE  Balance(threats', NoJob, acked, received, P)
      BY <1>1 DEF Balanced
    <2>1. Balance(threats, job, acked, received, P)
      BY <1>3 DEF Balanced
    <2> QED  BY <1>2, <1>4, <2>1, BalanceFault
  <1>8. Excused'
    <2>1. Cardinality(Spoilt(threats)) \in Nat /\ Torn(threats) \in {0, 1}
      BY <1>2, LinesFinite DEF Torn
    <2> QED  BY <1>1, <1>2, <1>3, <1>5, <2>1 DEF Excused
  <1>9. Listed' = Listed \/ Listed' = NoOrganism
    BY <1>4 DEF Listed
  <1>10. Backed'
    <2>1. ~Reached(1)'
      BY <1>1 DEF Reached
    <2>2. ASSUME NEW o \in Organisms, Listed'[o] # Unseen PROVE Holds(fossil'[o], Listed'[o])
      <3>1. Listed' = Listed
        BY <1>9, <2>2 DEF NoOrganism
      <3> QED  BY <1>3, <1>4, <2>2, <3>1 DEF Backed
    <2> QED  BY <2>1, <2>2 DEF Backed
  <1>11. Latest'
    BY <1>1, <1>2 DEF Latest
  <1> QED  BY <1>6, <1>7, <1>8, <1>10, <1>11 DEF ArchiveInv

\* Every step keeps the invariant.
LEMMA ArchiveStep == ArchiveInv /\ [RegistryNext]_registryVars => ArchiveInv'
  <1> SUFFICES ASSUME ArchiveInv, [RegistryNext]_registryVars PROVE ArchiveInv'
    OBVIOUS
  <1>1. ASSUME NEW b \in Beats, Receive(b) PROVE ArchiveInv'
    BY <1>1, ArchiveReceive
  <1>2. CASE WriteNext
    BY <1>2, ArchiveWrite
  <1>3. CASE WriteFails
    <2>1. Harmed
      BY <1>3 DEF WriteFails, Harmed
    <2> QED  BY <2>1, ArchiveHarmed
  <1>4. CASE Answer
    BY <1>4, ArchiveAnswer
  <1>5. CASE Crash
    <2>1. Harmed
      BY <1>5 DEF Crash, Harmed
    <2> QED  BY <2>1, ArchiveHarmed
  \* The files stay as they are, and so does the job.
  <1>6. ASSUME fossil' = fossil, organisms' = organisms, threats' = threats, job' = job,
               received' = received, acked' = acked, harm' \in {harm, harm + 1}
        PROVE  ArchiveInv'
    <2>1. harm \in Nat
      BY DEF ArchiveInv, ArchiveType
    <2>2. ArchiveType'
      BY <1>6, <2>1 DEF ArchiveInv, ArchiveType
    <2>3. Balanced'
      BY <1>6 DEF ArchiveInv, Balanced
    <2>4. Excused'
      <3>1. Torn(threats) \in Nat /\ Cardinality(Spoilt(threats)) \in Nat
        BY LinesFinite DEF ArchiveInv, ArchiveType, Torn
      <3> QED  BY <1>6, <2>1, <3>1 DEF ArchiveInv, Excused
    <2>5. Listed' = Listed /\ (Reached(1)' <=> Reached(1)) /\ (Reached(2)' <=> Reached(2))
      BY <1>6 DEF Listed, Reached
    <2>6. Backed'
      BY <1>6, <2>5 DEF ArchiveInv, Backed
    <2>7. harm' = 0 => harm = 0
      BY <1>6, <2>1
    <2>8. Latest'
      BY <1>6, <2>5, <2>7 DEF ArchiveInv, Latest
    <2> QED  BY <2>2, <2>3, <2>4, <2>6, <2>8 DEF ArchiveInv
  <1>7. CASE Start \/ StartCutShort \/ UNCHANGED registryVars
    BY <1>6, <1>7 DEF Start, StartCutShort, registryVars
  <1> QED  BY <1>1, <1>2, <1>3, <1>4, <1>5, <1>7 DEF RegistryNext

\* The votes of the registry are the lines that the invariant counts.
LEMMA VotesAreCounted ==
    ASSUME SoundFile(threats, Signals), NEW t \in Threats
    PROVE  /\ Observers(t) = Cardinality(Voting(threats, About(t)))
           /\ \A s \in Severities :
                Votes(t, s) = Cardinality(Voting(threats, {[threat |-> t, severity |-> s]}))
  <1>1. \A k \in DOMAIN threats.lines : threats.lines[k].records \in SUBSET Signals
    <2>1. threats.lines \in Seq(Rows(Signals))
      BY DEF SoundFile, File
    <2> TAKE k \in DOMAIN threats.lines
    <2>2. threats.lines[k] \in Rows(Signals)
      BY <2>1
    <2> QED  BY <2>2 DEF Rows
  <1>2. \A r \in Signals : r \in About(t) <=> r.threat = t
    BY DEF Signals, About
  <1>3. \A r \in Signals : \A s \in Severities :
          r \in {[threat |-> t, severity |-> s]} <=> (r.threat = t /\ r.severity = s)
    BY DEF Signals
  <1>4. {k \in DOMAIN threats.lines : /\ threats.lines[k].parses
                                      /\ \E r \in threats.lines[k].records : r.threat = t}
          = Voting(threats, About(t))
    BY <1>1, <1>2 DEF Voting
  <1>5. ASSUME NEW s \in Severities
        PROVE  {k \in DOMAIN threats.lines :
                  /\ threats.lines[k].parses
                  /\ \E r \in threats.lines[k].records : r.threat = t /\ r.severity = s}
                 = Voting(threats, {[threat |-> t, severity |-> s]})
    BY <1>1, <1>3 DEF Voting
  <1> QED  BY <1>4, <1>5 DEF Observers, Votes

\* A line that stands votes.
LEMMA StandingVotes ==
    ASSUME NEW f, SoundFile(f, Signals), NEW P
    PROVE  Cardinality(Standing(f, P)) <= Cardinality(Voting(f, P))
  <1>1. Standing(f, P) \in SUBSET Voting(f, P)
    BY DEF Standing, Voting, Closed
  <1> QED  BY <1>1, LinesFinite, FS_Subset

\* A vote is a line that stands, or the open one.
LEMMA VotesStand ==
    ASSUME NEW f, SoundFile(f, Signals), NEW P, NEW Q, P \subseteq Q
    PROVE  Cardinality(Voting(f, P)) <= Cardinality(Standing(f, Q)) + Torn(f)
  <1>1. /\ IsFiniteSet(Standing(f, Q)) /\ Cardinality(Standing(f, Q)) \in Nat
        /\ Cardinality(Voting(f, P)) \in Nat
    BY LinesFinite
  <1>2. CASE f.open
    <2>1. Voting(f, P) \in SUBSET (Standing(f, Q) \union {Len(f.lines)})
      BY <1>2 DEF Standing, Voting, Closed
    <2>2. /\ IsFiniteSet(Standing(f, Q) \union {Len(f.lines)})
          /\ Cardinality(Standing(f, Q) \union {Len(f.lines)})
               <= Cardinality(Standing(f, Q)) + 1
      <3>1. /\ IsFiniteSet(Standing(f, Q) \union {Len(f.lines)})
            /\ Cardinality(Standing(f, Q) \union {Len(f.lines)})
                 = IF Len(f.lines) \in Standing(f, Q) THEN Cardinality(Standing(f, Q))
                   ELSE Cardinality(Standing(f, Q)) + 1
        BY <1>1, FS_AddElement, Zenon
      <3> QED  BY <1>1, <3>1
    <2>3. Cardinality(Voting(f, P)) <= Cardinality(Standing(f, Q) \union {Len(f.lines)})
      BY <2>1, <2>2, FS_Subset, Zenon
    <2>4. Cardinality(Standing(f, Q) \union {Len(f.lines)}) \in Nat
      BY <2>2, FS_CardinalityType
    <2> QED  BY <1>1, <1>2, <2>2, <2>3, <2>4 DEF Torn
  <1>3. CASE ~f.open
    <2>1. Voting(f, P) \in SUBSET Standing(f, Q)
      BY <1>3 DEF Standing, Voting, Closed
    <2>2. Cardinality(Voting(f, P)) <= Cardinality(Standing(f, Q))
      BY <1>1, <2>1, FS_Subset
    <2> QED  BY <1>1, <1>3, <2>2 DEF Torn
  <1> QED  BY <1>2, <1>3

\* Across failing writes, crashes and restarts, for any heartbeats and any number of faults
\* (store_heartbeat, update_live_registry, process_threats, get_threat_registry): a fault
\* costs the registry of threats at most one report that was answered "ok", it counts
\* nothing twice, the live registry lists only what the fossil record holds, and a threat
\* whose critical reports outweigh all others is on the status page.
THEOREM ArchiveKept == RegistrySpec => []ArchiveSound
  <1>1. ASSUME ArchiveInv PROVE ThreatsAccounted
    <2>0. SoundFile(threats, Signals) /\ acked \in Seq(Beats) /\ received \in Seq(Beats)
          /\ JobSound(job) /\ harm \in Nat
      BY <1>1 DEF ArchiveInv, ArchiveType
    <2> SUFFICES ASSUME NEW t \in Threats
                 PROVE  /\ Observers(t) + harm >= Reports(acked, About(t))
                        /\ Observers(t) <= Reports(received, About(t))
      BY DEF ThreatsAccounted
    <2> DEFINE P == About(t)
               vo == Cardinality(Voting(threats, P))
               st == Cardinality(Standing(threats, P))
               sp == Cardinality(Spoilt(threats))
               to == Torn(threats)
               pl == Pledged(job, P)
               ah == Ahead(job, P)
               ra == Reports(acked, P)
               rq == Reports(received, P)
    <2>1. P \in SUBSET Signals
      BY DEF About, Signals
    <2>2. Observers(t) = vo
      BY <2>0, VotesAreCounted
    <2>3. Balance(threats, job, acked, received, P)
      BY <1>1, <2>1 DEF ArchiveInv, Balanced
    <2> HIDE DEF P
    <2>4. /\ vo \in Nat /\ st \in Nat /\ sp \in Nat /\ to \in {0, 1} /\ pl \in Nat /\ ah \in Nat
          /\ ra \in Nat /\ rq \in Nat
      BY <2>0, <2>3, BalanceNumbers
    <2>5. st + sp + ah >= ra + pl /\ vo + ah <= rq
      BY <2>3 DEF Balance
    <2>6. st <= vo
      BY <2>0, StandingVotes
    <2>7. to + sp <= harm
      BY <1>1 DEF ArchiveInv, Excused
    <2>8. ah <= pl
      <3>1. CASE job = NoJob
        BY <3>1 DEF Pledged, Ahead
      <3>2. CASE job # NoJob
        <4>1. job.beat \in Beats
          BY <2>0, <3>2 DEF JobSound
        <4> QED  BY <3>2, <4>1, UnwrittenWithin DEF Pledged, Ahead
      <3> QED  BY <3>1, <3>2
    <2> HIDE DEF vo, st, sp, to, pl, ah, ra, rq
    <2>9. vo + harm >= ra /\ vo <= rq
      BY <2>0, <2>4, <2>5, <2>6, <2>7, <2>8
    <2> QED  BY <2>2, <2>9 DEF ra, rq, P
  <1>2. ASSUME ArchiveInv PROVE LiveBacked
    <2>1. Backed /\ Latest
      BY <1>2 DEF ArchiveInv
    <2>2. \A o \in AliveOrganisms : \E k \in DOMAIN fossil[o].lines :
            Listed[o] \in fossil[o].lines[k].records
      BY <2>1 DEF Backed, Holds, AliveOrganisms
    <2>3. ASSUME harm = 0, job = NoJob, NEW i \in DOMAIN acked,
                 \A j \in (i + 1) .. Len(acked) : acked[j].org # acked[i].org
          PROVE  Listed[acked[i].org] = acked[i].time
      <3>1. LastOf(acked, i) /\ ~Reached(2)
        BY <2>3 DEF LastOf, Reached
      <3> QED  BY <2>1, <2>3, <3>1 DEF Latest
    <2> QED  BY <2>2, <2>3 DEF LiveBacked
  <1>3. ASSUME ArchiveInv PROVE CriticalSeen
    <2>0. SoundFile(threats, Signals) /\ acked \in Seq(Beats) /\ received \in Seq(Beats)
          /\ JobSound(job)
      BY <1>3 DEF ArchiveInv, ArchiveType
    <2> DEFINE alarm(t) == {[threat |-> t, severity |-> "critical"]}
    <2> SUFFICES ASSUME NEW t \in Threats,
                        Reports(acked, alarm(t))
                          > Reports(received, Signals) - Reports(acked, alarm(t))
                 PROVE  CriticalFor(t)
      BY DEF CriticalSeen
    <2> DEFINE P == alarm(t)
               vo == Cardinality(Voting(threats, P))
               st == Cardinality(Standing(threats, P))
               so == Cardinality(Standing(threats, Signals \ P))
               sp == Cardinality(Spoilt(threats))
               to == Torn(threats)
               pl == Pledged(job, P)
               ah == Ahead(job, P)
               ao == Ahead(job, Signals \ P)
               ra == Reports(acked, P)
               rs == Reports(received, Signals)
    <2>1. P \in SUBSET Signals
      BY DEF Signals, Severities
    <2>2. ra > rs - ra
      OBVIOUS
    <2>3. Balance(threats, job, acked, received, P)
      BY <1>3, <2>1 DEF ArchiveInv, Balanced
    <2>4. Votes(t, "critical") = vo
      BY <2>0, VotesAreCounted DEF Severities
    <2>5. ASSUME NEW s \in Severities, s # "critical"
          PROVE  Votes(t, s) < vo /\ Votes(t, s) \in Nat
      <3> DEFINE Q == {[threat |-> t, severity |-> s]}
                 vq == Cardinality(Voting(threats, Q))
      <3>1. Votes(t, s) = vq
        BY <2>0, VotesAreCounted
      <3>2. Q \subseteq Signals \ P
        BY <2>5 DEF Signals
      <3> HIDE DEF Q, P
      <3>3. vq <= so + to
        BY <2>0, <3>2, VotesStand
      <3>4. /\ vo \in Nat /\ st \in Nat /\ so \in Nat /\ sp \in Nat /\ to \in {0, 1}
            /\ pl \in Nat /\ ah \in Nat /\ ao \in Nat /\ ra \in Nat /\ rs \in Nat
        BY <2>0, <2>3, BalanceNumbers
      <3>5. vq \in Nat
        BY <2>0, LinesFinite
      <3>6. st + sp + ah >= ra + pl /\ so + to + sp + ra + pl + ao <= rs
        BY <2>3 DEF Balance
      <3>7. st <= vo
        BY <2>0, StandingVotes
      <3>8. ah <= pl
        <4>1. CASE job = NoJob
          BY <4>1 DEF Pledged, Ahead
        <4>2. CASE job # NoJob
          <5>1. job.beat \in Beats
            BY <2>0, <4>2 DEF JobSound
          <5> QED  BY <4>2, <5>1, UnwrittenWithin DEF Pledged, Ahead
        <4> QED  BY <4>1, <4>2
      <3> HIDE DEF vq, vo, st, so, sp, to, pl, ah, ao, ra, rs
      <3>9. vq < vo
        BY <2>2, <3>3, <3>4, <3>5, <3>6, <3>7, <3>8
      <3> QED  BY <3>1, <3>5, <3>9
    <2>6. vo \in Nat
      BY <2>0, LinesFinite
    <2> HIDE DEF vo, P
    <2>7. "low" \in Severities /\ "critical" \in Severities
      BY DEF Severities
    <2>8. vo > 0
      BY <2>5, <2>6, <2>7
    <2>9. \A q \in Severities : Votes(t, q) <= Votes(t, "critical")
      BY <2>4, <2>5, <2>6
    <2>10. "critical" \in Resolved(t)
      BY <2>4, <2>7, <2>8, <2>9 DEF Resolved
    <2>11. ASSUME NEW s \in Resolved(t) PROVE s = "critical"
      <3>1. s \in Severities /\ Votes(t, "critical") <= Votes(t, s)
        BY <2>7 DEF Resolved
      <3> QED  BY <2>4, <2>5, <2>6, <3>1
    <2> QED  BY <2>10, <2>11 DEF CriticalFor
  <1>4. ArchiveInv => ArchiveSound
    BY <1>1, <1>2, <1>3 DEF ArchiveSound
  <1> QED  BY <1>4, ArchiveStart, ArchiveStep, PTL DEF RegistrySpec
=============================================================================
