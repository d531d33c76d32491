----------------------------- MODULE ColonyMesh -----------------------------
(***************************************************************************)
(* The gossip mesh of the colony servers (colony-server/src/main.rs and    *)
(* storage.rs).  Every node mints envelopes in its gossip loop, posts them *)
(* to the peers it knows and relays those it accepts; a receiver drops     *)
(* what is stale, badly signed, out of hops or already seen, and appends   *)
(* the rest to its gossip file.                                            *)
(*                                                                         *)
(* A peer is known by its peer_id and reached at its address, two strings  *)
(* that say nothing of each other: a node may be listed under its node_id, *)
(* under whatever name a bootstrap list or an introduction gives it, or    *)
(* under both, and the address of an entry is replaced by the COLONY_BIND  *)
(* of whoever gossips under its name.  Who answers at an address depends   *)
(* on who calls it (0.0.0.0 and 127.0.0.1 are the caller's own host).      *)
(*                                                                         *)
(* A post is a request on the wire and an answer.  The sender's timeout    *)
(* may race the handler: the request may be lost or be handled late.  The  *)
(* handler takes two locks one after the other, so it is two steps, and a  *)
(* crash may fall between them or in the middle of the second: the         *)
(* registry is truncated before it is written, and a line of the gossip    *)
(* file may be left without its end, to be continued by the next append.   *)
(* A relay reads the registry in the step that starts it.  The nodes'      *)
(* clocks agree, and names are ASCII: the reload of the gossip file ends   *)
(* at a line cut within a character.  Counters for display are left out.   *)
(***************************************************************************)
EXTENDS Integers, Sequences, FiniteSets

CONSTANTS
    Nodes,          \* the colony servers
    Clients,        \* other programs that post gossip
    Names,          \* the peer_ids in use
    Addresses,      \* the addresses in use
    NodeId,         \* node_id of each node: COLONY_NODE_ID or a random UUID
    Bind,           \* COLONY_BIND of each node, which its envelopes give as its address
    Host,           \* who answers at an address, for each node that posts to it
    NoPeer,         \* nobody
    Ids,            \* the gossip ids explored
    ClientIds,      \* those that clients use; a node's envelopes take new ones of the others
    ClientFrom,     \* the registration in the envelopes of each client
    Composed,       \* when the clients composed their envelopes
    Bootstrap,      \* COLONY_BOOTSTRAP_PEERS of each node
    Introductions,  \* the <<node, registration>> pairs of POST /mesh/peer
    MaxHops,        \* COLONY_GOSSIP_MAX_HOPS (3)
    Window,         \* COLONY_GOSSIP_DEDUP_WINDOW_S (300)
    MaxAge,         \* max_age_s of the replay protection (300)
    IdleLimit,      \* timeout_s of the peer registry (3600)
    CacheCap,       \* size at which the dedup cache is cut (10 000)
    Attempts,       \* max_attempts of a post (3)
    Trip,           \* failed posts that open a peer's circuit breaker (5)
    Signing,        \* COLONY_GOSSIP_HMAC_KEY of each node, NoKey if unset
    Verifying,      \* the keys each node accepts
    ClientKeys,     \* the keys clients sign with
    NoKey,
    Second,         \* clock ticks in a second
    Horizon,        \* bound on the clock
    MaxCopies,      \* a client stops once its id was stored this often
    MaxTimeouts,    \* bound on the timeouts of posts to nodes
    MaxStoreFaults, \* bound on failing writes
    MaxCrashes      \* bound on restarts

\* PeerRegistration; the role plays no part.
Registrations == [name : Names, addr : Addresses]

ASSUME MeshAssumption ==
    /\ NoPeer \notin Nodes \union Registrations /\ Nodes \intersect Clients = {}
    /\ NodeId \in [Nodes -> Names] /\ Bind \in [Nodes -> Addresses]
    /\ Host \in [Nodes -> [Addresses -> Nodes \union {NoPeer}]]
    /\ Bootstrap \in [Nodes -> SUBSET Registrations]
    /\ \A n \in Nodes : \A r, s \in Bootstrap[n] : r.name = s.name => r = s
    /\ ClientFrom \in [Clients -> Registrations]
    /\ Introductions \subseteq Nodes \X Registrations
    /\ ClientIds \subseteq Ids
    /\ \A n \in {MaxHops, Window, Trip, Attempts, CacheCap, Second} : n \in Nat \ {0}
    /\ \A n \in {MaxAge, IdleLimit, Composed, Horizon, MaxCopies, MaxTimeouts, MaxStoreFaults,
                 MaxCrashes} : n \in Nat
    /\ \A n \in Nodes : Signing[n] # NoKey => Signing[n] \in Verifying[n]

VARIABLES
    clock,      \* the time, in ticks
    minted,     \* which node minted each id
    peers,      \* peers.json: address and time of the last word of each name, per node
    log,        \* gossip.ndjson of each node
    seen,       \* seen_gossip: the dedup cache, in memory
    failures,   \* peer_failures: the circuit breakers, in memory
    tasks,      \* the running send_gossip_to_peers calls
    wire,       \* requests on the way
    handlers,   \* requests accepted by mark_gossip_seen and not stored yet
    faults      \* how many timeouts, failing writes and crashes there were

vars == <<clock, minted, peers, log, seen, failures, tasks, wire, handlers, faults>>

Never == -1

\* An envelope is [id, ttl, from, sentAt], from a registration; a request [by, peer, to,
\* env, key, try], with the entry it is posted to, who answers there and the key it is
\* signed with; a task, one send call, [node, env, round, todo, peer, try], with the
\* entry it is waiting for or NoPeer.

Now == clock \div Second

----------------------------------------------------------------------------
\* The peer registry of a node.  get_mesh_registry evicts whoever was not heard of for an
\* hour each time it is read, so the file's other entries never count.
Unknown == [at |-> Never, addr |-> NoPeer]
NoPeers == [p \in Names |-> Unknown]

KnownPeers(n) ==
    {[name |-> p, addr |-> peers[n][p].addr] :
        p \in {p \in Names : /\ peers[n][p].at # Never
                             /\ (clock - peers[n][p].at) \div Second <= IdleLimit}}

\* register_peer: an entry of that name takes the new address.
Heard(n, r) == [peers[n] EXCEPT ![r.name] = [at |-> clock, addr |-> r.addr]]

\* register_bootstrap_peers over the registry that is found.
Introduced(n, registry) ==
    [p \in Names |->
       IF \E r \in Bootstrap[n] : r.name = p /\ p # NodeId[n]
       THEN [at |-> clock, addr |-> (CHOOSE r \in Bootstrap[n] : r.name = p).addr]
       ELSE registry[p]]

----------------------------------------------------------------------------
\* The gossip file: for each id the received_at of the lines that parse; whether the last
\* line lacks its end, and the id it holds if it still parses.
NoLog == [lines |-> [i \in Ids |-> <<>>], open |-> FALSE, last |-> {}]

\* The file's other lines once the last one is continued.
Unspoilt(f) ==
    [i \in Ids |-> IF i \in f.last THEN SubSeq(f.lines[i], 1, Len(f.lines[i]) - 1)
                   ELSE f.lines[i]]

Line(f, i) == IF f.open THEN Unspoilt(f) ELSE [f.lines EXCEPT ![i] = Append(@, Now)]

\* writeln! of a line for id i.
Logged(f, i) == [lines |-> Line(f, i), open |-> FALSE, last |-> {}]

\* What it leaves when it does not finish: nothing, a part, or all but the end of line.
LogCut(f, i) ==
    {f, [lines |-> Unspoilt(f), open |-> TRUE, last |-> {}],
        [lines |-> Line(f, i), open |-> TRUE, last |-> IF f.open THEN {} ELSE {i}]}

Stored(n, i) == log[n].lines[i]

----------------------------------------------------------------------------
\* The dedup cache.

\* The entries of n's cache that are at most w seconds old.
Recent(n, w) ==
    [i \in Ids |-> IF seen[n][i] # Never /\ Now - seen[n][i] <= w THEN seen[n][i] ELSE Never]

Size(cache) == Cardinality({i \in Ids : cache[i] # Never})

IsSeen(n, i) == Recent(n, Window)[i] # Never

\* What is kept to make room for one more entry.
Room(n) ==
    LET half == Recent(n, Window \div 2)
    IN  IF Size(Recent(n, Window)) < CacheCap THEN Recent(n, Window)
        ELSE IF Size(half) < CacheCap THEN half
        ELSE [i \in Ids |-> Never]

\* mark_gossip_seen: old entries are dropped in every case.
MarkSeen(n, i) ==
    [seen EXCEPT ![n] = IF IsSeen(n, i) THEN Recent(n, Window)
                        ELSE [Room(n) EXCEPT ![i] = Now]]

\* Mutant: the cache is not reloaded on a restart.
LoadSeenNothing(lines) == [i \in Ids |-> Never]

\* load_seen_gossip: on a restart the cache is what can be read of the file.
LoadSeen(lines) ==
    [i \in Ids |->
       IF lines[i] # <<>> /\ Now - lines[i][Len(lines[i])] <= Window
       THEN lines[i][Len(lines[i])] ELSE Never]

----------------------------------------------------------------------------
\* The sender: send_gossip_to_peers.

\* The call posts to all the known peers but those listed under the node's own name or
\* under the name the envelope is from.
NewTask(n, env, round, known) ==
    [node |-> n, env |-> env, round |-> round, peer |-> NoPeer, try |-> 0,
     todo |-> {p \in known : p.name \notin {NodeId[n], env.from.name}}]

\* Every hop signs the envelope anew with its own key.
Request(t) ==
    [by |-> t.node, peer |-> t.peer, to |-> Host[t.node][t.peer.addr], env |-> t.env,
     key |-> Signing[t.node], try |-> t.try]

\* A request to an address where nobody listens is lost.
Sent(t) == IF Request(t).to \in Nodes THEN {Request(t)} ELSE {}

\* A call that has no peer left returns.
Live(ts) == {t \in ts : t.peer # NoPeer \/ t.todo # {}}
Swap(t, u) == Live((tasks \ {t}) \union {u})

Idle(t) == [t EXCEPT !.peer = NoPeer, !.try = 0]
Retry(t) == [t EXCEPT !.try = t.try + 1]

\* The peers whose breaker is open are skipped, the others get a post.
Skip(t, p) ==
    /\ t.peer = NoPeer
    /\ failures[t.node][p.name] >= Trip
    /\ tasks' = Swap(t, [t EXCEPT !.todo = t.todo \ {p}])
    /\ UNCHANGED <<clock, minted, peers, log, seen, failures, wire, handlers, faults>>

Post(t, p) ==
    LET u == [t EXCEPT !.todo = t.todo \ {p}, !.peer = p, !.try = 1]
    IN  /\ t.peer = NoPeer
        /\ failures[t.node][p.name] < Trip
        /\ tasks' = Swap(t, u)
        /\ wire' = wire \union Sent(u)
        /\ UNCHANGED <<clock, minted, peers, log, seen, failures, handlers, faults>>

\* Mutant: the attempts are not counted.
FailedTaskForever(t) == Retry([t EXCEPT !.try = 0])

\* One attempt failed: try again, or count a failure and go on with the next peer.
FailedTask(t) == IF t.try < Attempts THEN Retry(t) ELSE Idle(t)
FailedCount(t) ==
    IF t.try < Attempts THEN failures
    ELSE [failures EXCEPT ![t.node][t.peer.name] = @ + 1]
FailedPosts(t) == IF t.try < Attempts THEN Sent(Retry(t)) ELSE {}

\* No answer can come: nobody listens there, or the receiver crashed at work.
Lost(t) == Request(t) \notin wire \union handlers

\* The five seconds are over: the request is lost, or is still on its way, or its
\* handler is still at work.
Timeout(t) ==
    /\ t.peer # NoPeer
    /\ Lost(t) \/ faults.timeouts < MaxTimeouts
    /\ faults' = [faults EXCEPT !.timeouts = @ + (IF Lost(t) THEN 0 ELSE 1)]
    /\ tasks' = Swap(t, FailedTask(t))
    /\ failures' = FailedCount(t)
    /\ \/ wire' = wire \union FailedPosts(t)
       \/ wire' = (wire \ {Request(t)}) \union FailedPosts(t)
    /\ UNCHANGED <<clock, minted, peers, log, seen, handlers>>

\* The answer to request q reaches the call that waits for it, if it still does:
\* any 2xx is a success and closes the breaker, a 500 is a failed attempt.
Waiting(q) == {t \in tasks : t.peer # NoPeer /\ Request(t) = q}

Success(q, ts) ==
    /\ tasks' = Live({IF t \in Waiting(q) THEN Idle(t) ELSE t : t \in ts})
    /\ failures' = IF Waiting(q) = {} THEN failures
                   ELSE [failures EXCEPT ![q.by][q.peer.name] = 0]
    /\ wire' = wire \ {q}

Failure(q) ==
    /\ wire' = (wire \ {q}) \union UNION {FailedPosts(t) : t \in Waiting(q)}
    /\ tasks' = Live({IF t \in Waiting(q) THEN FailedTask(t) ELSE t : t \in tasks})
    /\ \/ Waiting(q) = {} /\ failures' = failures
       \/ \E t \in Waiting(q) : failures' = FailedCount(t)

----------------------------------------------------------------------------
\* The receiver: handle_mesh_gossip.
Stale(env) == (clock - env.sentAt) \div Second > MaxAge

Trusted(n, key) == Verifying[n] = {} \/ key \in Verifying[n]

Arrives(q) == q \in wire \ handlers

\* The 2xx answers that change nothing: stale_replay, auth_failed, dropped_ttl.
Drop(q) ==
    /\ Arrives(q)
    /\ Stale(q.env) \/ ~Trusted(q.to, q.key) \/ q.env.ttl = 0
    /\ Success(q, tasks)
    /\ UNCHANGED <<clock, minted, peers, log, seen, handlers, faults>>

\* A fresh, trusted envelope that has hops left is looked up in the cache.
Admissible(q) == ~Stale(q.env) /\ Trusted(q.to, q.key) /\ q.env.ttl > 0

Duplicate(q) ==
    /\ Arrives(q)
    /\ Admissible(q) /\ IsSeen(q.to, q.env.id)
    /\ seen' = MarkSeen(q.to, q.env.id)
    /\ Success(q, tasks)
    /\ UNCHANGED <<clock, minted, peers, log, handlers, faults>>

Accept(q) ==
    /\ Arrives(q)
    /\ Admissible(q) /\ ~IsSeen(q.to, q.env.id)
    /\ seen' = MarkSeen(q.to, q.env.id)
    /\ handlers' = handlers \union {q}
    /\ UNCHANGED <<clock, minted, peers, log, failures, tasks, wire, faults>>

\* Mutant: the last hop but one is not relayed.
RelayShort(q) ==
    IF q.env.ttl > 2
    THEN {NewTask(q.to, [q.env EXCEPT !.ttl = @ - 1], FALSE, KnownPeers(q.to)')}
    ELSE {}

\* store_gossip succeeds: the sender of the envelope becomes a known peer, the line is
\* appended, and the envelope is relayed while hops remain.
Relay(q) ==
    IF q.env.ttl > 1
    THEN {NewTask(q.to, [q.env EXCEPT !.ttl = @ - 1], FALSE, KnownPeers(q.to)')}
    ELSE {}

Store(q) ==
    /\ q \in handlers
    /\ peers' = [peers EXCEPT ![q.to] = Heard(q.to, q.env.from)]
    /\ log' = [log EXCEPT ![q.to] = Logged(@, q.env.id)]
    /\ handlers' = handlers \ {q}
    /\ UNCHANGED <<clock, minted, seen, faults>>
    /\ Success(q, tasks \union Relay(q))

\* What store_gossip may leave when it does not finish: the registry as it was, truncated
\* (which reads as empty) or written, and in the last case a part of the line.
Halves(q) ==
    LET n == q.to
    IN  [registry : {peers[n], NoPeers}, file : {log[n]}]
          \union [registry : {Heard(n, q.env.from)}, file : LogCut(log[n], q.env.id)]

\* store_gossip fails: a 500.
StoreFails(q) ==
    /\ q \in handlers
    /\ faults.stores < MaxStoreFaults
    /\ faults' = [faults EXCEPT !.stores = @ + 1]
    /\ \E left \in Halves(q) : /\ peers' = [peers EXCEPT ![q.to] = left.registry]
                               /\ log' = [log EXCEPT ![q.to] = left.file]
    /\ handlers' = handlers \ {q}
    /\ Failure(q)
    /\ UNCHANGED <<clock, minted, seen>>

----------------------------------------------------------------------------
\* One round of run_gossip_loop.  The loop awaits its posts, so a node has one
\* round at a time; with no known peer the round is skipped.
InRound(n) == \E t \in tasks : t.round /\ t.node = n

GossipRound(n, i) ==
    LET self == [name |-> NodeId[n], addr |-> Bind[n]]
        env  == [id |-> i, ttl |-> MaxHops, from |-> self, sentAt |-> clock]
    IN  /\ minted[i] = NoPeer
        /\ ~InRound(n)
        /\ KnownPeers(n) # {}
        /\ minted' = [minted EXCEPT ![i] = n]
        /\ seen' = MarkSeen(n, i)
        /\ tasks' = Live(tasks \union {NewTask(n, env, TRUE, KnownPeers(n))})
        /\ UNCHANGED <<clock, peers, log, failures, wire, handlers, faults>>

\* A client posts its envelope, once or again, and waits for the answer each time, as
\* test_mesh.py does.
ClientPost(c, n, i, ttl, key) ==
    LET env == [id |-> i, ttl |-> ttl, from |-> ClientFrom[c], sentAt |-> Composed]
    IN  /\ clock >= Composed
        /\ \A q \in wire : q.by # c
        /\ Len(Stored(n, i)) < MaxCopies
        /\ wire' = wire \union {[by |-> c, peer |-> NoPeer, to |-> n, env |-> env,
                                 key |-> key, try |-> 1]}
        /\ UNCHANGED <<clock, minted, peers, log, seen, failures, tasks, handlers, faults>>

\* POST /mesh/peer; its write may fail and leave the registry truncated.
RegisterPeer(n, r) ==
    /\ \/ /\ peers' = [peers EXCEPT ![n] = Heard(n, r)]
          /\ UNCHANGED faults
       \/ /\ faults.stores < MaxStoreFaults
          /\ peers' = [peers EXCEPT ![n] = NoPeers]
          /\ faults' = [faults EXCEPT !.stores = @ + 1]
    /\ UNCHANGED <<clock, minted, log, seen, failures, tasks, wire, handlers>>

\* A crash, between two writes or in the middle of a store_gossip, and the restart of the
\* node: main reads the files and registers the bootstrap peers.
AtWork(n) == {q \in handlers : q.to = n}

Restart(n) ==
    /\ faults.crashes < MaxCrashes
    /\ faults' = [faults EXCEPT !.crashes = @ + 1]
    /\ \E left \in {[registry |-> peers[n], file |-> log[n]]}
                   \union UNION {Halves(q) : q \in AtWork(n)} :
         /\ peers' = [peers EXCEPT ![n] = Introduced(n, left.registry)]
         /\ log' = [log EXCEPT ![n] = left.file]
         /\ seen' = [seen EXCEPT ![n] = LoadSeen(left.file.lines)]
    /\ failures' = [failures EXCEPT ![n] = [p \in Names |-> 0]]
    /\ tasks' = {t \in tasks : t.node # n}
    /\ wire' = wire \ AtWork(n)
    /\ handlers' = handlers \ AtWork(n)
    /\ UNCHANGED <<clock, minted>>

Tick ==
    /\ clock < Horizon
    /\ clock' = clock + 1
    /\ UNCHANGED <<minted, peers, log, seen, failures, tasks, wire, handlers, faults>>

----------------------------------------------------------------------------
Init ==
    /\ clock = 0
    /\ minted = [i \in Ids |-> NoPeer]
    /\ peers = [n \in Nodes |-> Introduced(n, NoPeers)]
    /\ log = [n \in Nodes |-> NoLog]
    /\ seen = [n \in Nodes |-> [i \in Ids |-> Never]]
    /\ failures = [n \in Nodes |-> [p \in Names |-> 0]]
    /\ tasks = {}
    /\ wire = {}
    /\ handlers = {}
    /\ faults = [timeouts |-> 0, stores |-> 0, crashes |-> 0]

\* What a node does by itself: its send calls, its handlers, its lost posts.
Send(n) == \E t \in tasks : t.node = n /\ \E p \in t.todo : Skip(t, p) \/ Post(t, p)

Handle(n) ==
    \E q \in wire \union handlers :
        q.to = n /\ (Drop(q) \/ Duplicate(q) \/ Accept(q) \/ Store(q))

GiveUp(n) == \E t \in tasks : t.node = n /\ t.peer # NoPeer /\ Lost(t) /\ Timeout(t)

Next ==
    \/ \E t \in tasks : \E p \in t.todo : Skip(t, p) \/ Post(t, p)
    \/ \E t \in tasks : Timeout(t)
    \/ \E q \in wire : Drop(q) \/ Duplicate(q) \/ Accept(q)
    \/ \E q \in handlers : Store(q) \/ StoreFails(q)
    \/ \E n \in Nodes, i \in Ids \ ClientIds : GossipRound(n, i)
    \/ \E n \in Nodes : Restart(n)
    \/ \E c \in Clients, n \in Nodes, i \in ClientIds, ttl \in {0, MaxHops} :
         \E key \in ClientKeys : ClientPost(c, n, i, ttl, key)
    \/ \E r \in Introductions : RegisterPeer(r[1], r[2])
    \/ Tick

Spec == Init /\ [][Next]_vars

\* The runtime polls every send call and every connection of a node.
Polled == \A n \in Nodes : WF_vars(Send(n)) /\ WF_vars(Handle(n)) /\ WF_vars(GiveUp(n))

FairSpec == Spec /\ Polled

----------------------------------------------------------------------------
\* What is accepted is accepted again only after a dedup window, and only as long as it is
\* fresh: however often an envelope is retried, relayed, delivered late or repeated by a
\* client, and whatever a failing write or a crash leaves of the file, a node's record has
\* it once for each window that fits in the time it is fresh.  That is once with a window
\* above max_age_s, up to twice with the default (both are 300 s, and truncated to seconds
\* from different instants), and up to three times with the 120 s of README.md.
ReplaysBounded ==
    \A n \in Nodes, i \in Ids : (Len(Stored(n, i)) - 1) * (Window + 1) <= MaxAge + 1

\* The dedup cache only suppresses what the node has: an id it would answer as a
\* duplicate is its own, or in its record, or just about to be.
SeenIsStored ==
    \A n \in Nodes, i \in Ids :
        IsSeen(n, i) => \/ minted[i] = n
                        \/ Stored(n, i) # <<>>
                        \/ \E q \in handlers : q.to = n /\ q.env.id = i

\* Every round of the gossip loop ends, although it waits for one peer after the other,
\* answering or not, and the next round waits for it.
RoundEnds == \A n \in Nodes : InRound(n) ~> ~InRound(n)

\* The nodes that answer at most MaxHops bootstrap entries away from n.
Within(n) ==
    LET Next1(m) == {Host[m][r.addr] : r \in Bootstrap[m]} \intersect Nodes
        ring[k \in 0 .. MaxHops] ==
          IF k = 0 THEN {n} ELSE ring[k - 1] \union UNION {Next1(m) : m \in ring[k - 1]}
    IN  ring[MaxHops]

\* What a node mints reaches every node within its hops, under whatever names and at
\* whatever addresses the registries list them by then.
Spreads ==
    \A n \in Nodes, m \in Nodes, i \in Ids :
        m \in Within(n) \ {n} => (minted[i] = n ~> Stored(m, i) # <<>>)
=============================================================================
