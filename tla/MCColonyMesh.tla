---------------------------- MODULE MCColonyMesh ----------------------------
(***************************************************************************)
(* Meshes of two or three colony servers.  The .cfg files choose the       *)
(* topology, the clients and which faults happen.                          *)
(*                                                                         *)
(* "a:8080" is a routable address of node a, and so on; nobody listens at  *)
(* "gone:8080", and "0.0.0.0:8080" is the caller itself.                   *)
(***************************************************************************)
EXTENDS ColonyMesh, TLC

CONSTANTS a, b, c, tester, secret, old

Peer(name, addr) == [name |-> name, addr |-> addr]

NamesUsed == {"a", "b", "c", "tester", "other c", "ghost"}
AddressesUsed == {"a:8080", "b:8080", "c:8080", "gone:8080", "0.0.0.0:8080"}
NodeIds == [n \in Nodes |-> CASE n = a -> "a" [] n = b -> "b" [] n = c -> "c"]

Routable == [n \in Nodes |-> CASE n = a -> "a:8080" [] n = b -> "b:8080" [] n = c -> "c:8080"]
Wildcard == [n \in Nodes |-> "0.0.0.0:8080"]

Network ==
    [n \in Nodes |-> [x \in AddressesUsed |->
       IF x = "0.0.0.0:8080" THEN n
       ELSE IF \E m \in Nodes : Routable[m] = x THEN CHOOSE m \in Nodes : Routable[m] = x
       ELSE NoPeer]]

\* Topologies: COLONY_BOOTSTRAP_PEERS of each node.  In the chain a lists a server that
\* is gone, and b lists c under a name that is not its node_id.
Pair == (a :> {Peer("b", "b:8080")}) @@ (b :> {Peer("a", "a:8080")})
Tested == (a :> {Peer("b", "b:8080")}) @@ (b :> {})
Chain ==
    (a :> {Peer("b", "b:8080"), Peer("ghost", "gone:8080")}) @@ (c :> {})
      @@ (b :> {Peer("other c", "c:8080")})

\* What POST /mesh/peer introduces: b again, to a.
Met == {<<a, Peer("b", "b:8080")>>}

\* Bound: at the start, or before the restart that registers it anyway.
MetEarly == faults.crashes = 0 => \A n \in Nodes : peers[n]["b"].at <= 0

\* A mesh whose servers stay up, within one instant: a crash would lose the calls of its node
\* and with them what they had to spread.
LineNext == Next /\ UNCHANGED clock /\ faults'.crashes = 0
LineSpec == Init /\ [][LineNext]_vars /\ Polled

\* Bound: two of the three kinds of faults in one behaviour.
TwoFaults == faults.timeouts + faults.stores + faults.crashes <= 2

\* A client gives a name and an address where nobody listens, as test_mesh.py does.
Registered == [x \in Clients |-> Peer("tester", "gone:8080")]

\* One shared secret; and a rotation of the key that has not come to a yet: b still takes
\* the old key, a refuses the new one, and c knows only that.
SharedKey == [n \in Nodes |-> secret]
SharedKeys == [n \in Nodes |-> {secret}]
RotatingKey == (a :> old) @@ (b :> secret) @@ (c :> secret)
RotatingKeys == (a :> {old}) @@ (b :> {secret, old}) @@ (c :> {secret})
=============================================================================
