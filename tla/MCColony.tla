------------------------------ MODULE MCColony ------------------------------
(***************************************************************************)
(* A colony server's two halves: the gossip mesh and the archive of its    *)
(* organisms.  They use different files, so a behaviour moves one of them. *)
(*                                                                         *)
(* Two organisms report two threats, one of them twice in a heartbeat, and *)
(* one sends an older heartbeat after a newer one.                         *)
(***************************************************************************)
EXTENDS MCColonyMesh, ColonyRegistry

CONSTANTS o1, o2, t1, t2

VARIABLE focus

colonyVars == <<vars, registryVars, focus>>

Alarm == [threat |-> t1, severity |-> "critical"]
Notice == [threat |-> t1, severity |-> "low"]
Hint == [threat |-> t2, severity |-> "low"]

MCBeats ==
    {[org |-> o1, time |-> 2, signals |-> <<Alarm, Alarm>>, mutations |-> <<>>],
     [org |-> o1, time |-> 1, signals |-> <<Alarm>>, mutations |-> <<"m">>],
     [org |-> o2, time |-> 1, signals |-> <<Notice>>, mutations |-> <<>>],
     [org |-> o2, time |-> 2, signals |-> <<Hint>>, mutations |-> <<>>]}

ColonyInit ==
    /\ focus \in {"mesh", "archive"}
    /\ Init
    /\ RegistryInit

ColonyNext ==
    \/ focus = "mesh" /\ Next /\ UNCHANGED <<registryVars, focus>>
    \/ focus = "archive" /\ RegistryNext /\ UNCHANGED <<vars, focus>>

ColonySpec == ColonyInit /\ [][ColonyNext]_colonyVars
=============================================================================
