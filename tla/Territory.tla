------------------------------ MODULE Territory ------------------------------
(***************************************************************************)
(* The bot's map of its territory: fixed pools of processes, connections,  *)
(* watched files and memory regions, a status for each element, a ring of  *)
(* anomalies, and the baseline that trusts what is on the map when it is   *)
(* taken.                                                                  *)
(*                                                                         *)
(* An element is known by its key: the pid of a process, the address and   *)
(* port of a connection, the base and pid of a region.  A full pool        *)
(* refuses a newcomer: the observation returns NULL and changes nothing.   *)
(* The placeholder clock gives each call a later time; only the order of   *)
(* the anomalies is kept of it.  Names, paths and sizes are left out.      *)
(***************************************************************************)
EXTENDS Naturals, Sequences, FiniteSets, SequencesExt

CONSTANTS
    Pids, Destinations, Files, Bases,   \* what the sensors can observe
    Marks,               \* the statuses other agents give to a process
    MaxProcesses,        \* TERRITORY_MAX_PROCESSES, 512
    MaxConnections,      \* TERRITORY_MAX_CONNECTIONS, 256
    MaxWatchedFiles,     \* TERRITORY_MAX_WATCHED_FILES, 64
    MaxMemRegions,       \* TERRITORY_MAX_MEM_REGIONS, 128
    MaxAnomalies,        \* TERRITORY_MAX_ANOMALIES, 256
    AnomalyWord,         \* the values of anomaly_head, a uint32_t: 2^32
    ObservationBound,    \* bound of the model on total_observations
    AnomalyBound         \* bound of the model on total_anomalies

ElemStatus == {"UNKNOWN", "TRUSTED", "GREY", "SUSPICIOUS", "HOSTILE", "QUARANTINE"}

(* The types the map itself records; the other types of the header are for *)
(* agents that call territory_record_anomaly.                              *)
AnomalyType == {"NEW_PROCESS", "UNKNOWN_CONNECTION", "MEM_EXEC_WRITE", "OTHER"}

ASSUME TerritoryAssumption ==
    /\ Marks \subseteq ElemStatus
    /\ {MaxProcesses, MaxConnections, MaxWatchedFiles, MaxMemRegions} \subseteq Nat
    /\ MaxAnomalies \in Nat \ {0} /\ AnomalyWord \in Nat \ {0}
    /\ AnomalyWord % MaxAnomalies = 0
    /\ ObservationBound \in Nat /\ AnomalyBound \in Nat

VARIABLES
    processes, connections, watched_files, mem_regions,   \* the pools, as sequences
    anomalies, anomaly_head, anomaly_count,               \* the ring
    baseline_ready, total_observations, total_anomalies

ringVars == <<anomalies, anomaly_head, anomaly_count, total_anomalies>>

territoryVars == <<processes, connections, watched_files, mem_regions, ringVars,
                   baseline_ready, total_observations>>

MappedProcess == [pid: Pids, status: ElemStatus, observation_count: Nat]

MappedConnection ==
    [destination: Destinations, owning_pid: Pids, status: ElemStatus, connection_count: Nat]

WatchedFile == [path: Files, is_intact: BOOLEAN]

MappedMemRegion ==
    [base_addr: Bases, owning_pid: Pids, is_executable: BOOLEAN, is_writable: BOOLEAN,
     status: ElemStatus]

TerritoryAnomaly == [order: Nat, pid: Pids, anomaly_type: AnomalyType, severity: 0..10]

Unused == [unused |-> 0]   \* a slot of the ring that nothing was written to

TerritoryTypeOK ==
    /\ processes \in Seq(MappedProcess) /\ Len(processes) <= MaxProcesses
    /\ connections \in Seq(MappedConnection) /\ Len(connections) <= MaxConnections
    /\ watched_files \in Seq(WatchedFile) /\ Len(watched_files) <= MaxWatchedFiles
    /\ mem_regions \in Seq(MappedMemRegion) /\ Len(mem_regions) <= MaxMemRegions
    /\ anomalies \in [0..(MaxAnomalies - 1) -> TerritoryAnomaly \cup {Unused}]
    /\ anomaly_head \in 0..(AnomalyWord - 1) /\ anomaly_count \in 0..MaxAnomalies
    /\ baseline_ready \in BOOLEAN
    /\ total_observations \in Nat /\ total_anomalies \in Nat

TerritoryInit ==
    /\ processes = <<>> /\ connections = <<>> /\ watched_files = <<>> /\ mem_regions = <<>>
    /\ anomalies = [i \in 0..(MaxAnomalies - 1) |-> Unused]
    /\ anomaly_head = 0 /\ anomaly_count = 0
    /\ baseline_ready = FALSE /\ total_observations = 0 /\ total_anomalies = 0

----------------------------------------------------------------------------
(* Anomalies *)

NextHead(head) == (head + 1) % AnomalyWord

RecordAnomaly(type, severity, pid) ==
    /\ total_anomalies < AnomalyBound
    /\ anomalies' = [anomalies EXCEPT ![anomaly_head % MaxAnomalies] =
          [order |-> total_anomalies, pid |-> pid, anomaly_type |-> type,
           severity |-> severity]]
    /\ anomaly_head' = NextHead(anomaly_head)
    /\ anomaly_count' = IF anomaly_count < MaxAnomalies THEN anomaly_count + 1
                        ELSE anomaly_count
    /\ total_anomalies' = total_anomalies + 1

(* territory_last_anomaly, when anomaly_count > 0.  The subtraction is      *)
(* unsigned.                                                                *)
LastAnomaly ==
    anomalies[((anomaly_head + AnomalyWord - 1 + MaxAnomalies) % AnomalyWord) % MaxAnomalies]

(* An agent records an anomaly of its own *)
Report(pid) ==
    /\ RecordAnomaly("OTHER", 5, pid)
    /\ UNCHANGED <<processes, connections, watched_files, mem_regions, baseline_ready,
                   total_observations>>

----------------------------------------------------------------------------
(* Processes *)

Observed ==
    /\ total_observations < ObservationBound
    /\ total_observations' = total_observations + 1

(* The search of a pool: the first element that fits, or 0 *)
ProcessIndex(pid) == SelectInSeq(processes, LAMBDA p : p.pid = pid)

ConnectionIndex(destination) ==
    SelectInSeq(connections, LAMBDA c : c.destination = destination)

RegionIndex(base, pid) ==
    SelectInSeq(mem_regions, LAMBDA r : r.base_addr = base /\ r.owning_pid = pid)

(* A process of a known pid is the known process, whatever its name is now *)
ObserveKnownProcess(pid) ==
    LET i == ProcessIndex(pid)
    IN  /\ i # 0
        /\ processes' = [processes EXCEPT ![i].observation_count = @ + 1]
        /\ Observed
        /\ UNCHANGED <<connections, watched_files, mem_regions, ringVars, baseline_ready>>

(* Mutant: after a baseline newcomers are trusted *)
NewStatusByBaseline == IF baseline_ready THEN "TRUSTED" ELSE "UNKNOWN"

NewStatus == "UNKNOWN"

(* Mutant: the pool is not searched first *)
NewPidAny(pid) == TRUE

NewPid(pid) == ProcessIndex(pid) = 0

ObserveNewProcess(pid) ==
    /\ NewPid(pid)
    /\ Len(processes) < MaxProcesses
    /\ processes' = Append(processes,
          [pid |-> pid, status |-> NewStatus, observation_count |-> 1])
    /\ Observed
    /\ RecordAnomaly("NEW_PROCESS", 3, pid)
    /\ UNCHANGED <<connections, watched_files, mem_regions, baseline_ready>>

MarkProcess(pid, status) ==
    LET i == ProcessIndex(pid)
    IN  /\ i # 0
        /\ processes' = [processes EXCEPT ![i].status = status]
        /\ UNCHANGED <<connections, watched_files, mem_regions, ringVars, baseline_ready,
                       total_observations>>

----------------------------------------------------------------------------
(* Connections.  The pid of the observation becomes the owner. *)

ObserveKnownConnection(pid, destination) ==
    LET i == ConnectionIndex(destination)
    IN  /\ i # 0
        /\ connections' = [connections EXCEPT ![i].connection_count = @ + 1,
                                              ![i].owning_pid = pid]
        /\ Observed
        /\ UNCHANGED <<processes, watched_files, mem_regions, ringVars, baseline_ready>>

ObserveNewConnection(pid, destination) ==
    /\ ConnectionIndex(destination) = 0
    /\ Len(connections) < MaxConnections
    /\ connections' = Append(connections,
          [destination |-> destination, owning_pid |-> pid, status |-> NewStatus,
           connection_count |-> 1])
    /\ Observed
    /\ RecordAnomaly("UNKNOWN_CONNECTION", 2, pid)
    /\ UNCHANGED <<processes, watched_files, mem_regions, baseline_ready>>

----------------------------------------------------------------------------
(* Watched files: a path may be watched twice, and no hash is computed *)

WatchFile(path) ==
    /\ Len(watched_files) < MaxWatchedFiles
    /\ watched_files' = Append(watched_files, [path |-> path, is_intact |-> TRUE])
    /\ UNCHANGED <<processes, connections, mem_regions, ringVars, baseline_ready,
                   total_observations>>

(* territory_verify_files counts the flags; nothing clears one *)
VerifyFiles == Cardinality({i \in DOMAIN watched_files : ~watched_files[i].is_intact})

----------------------------------------------------------------------------
(* Memory regions *)

(* Mutant: only a change of the executable bit is looked at *)
BecomesWXExecOnly(r, exec, write) == exec /\ write /\ ~r.is_executable

BecomesWX(r, exec, write) == exec /\ write /\ (~r.is_executable \/ ~r.is_writable)

(* A region seen again is not counted as an observation *)
ObserveKnownMem(base, pid, exec, write) ==
    LET i == RegionIndex(base, pid)
    IN  /\ i # 0
        /\ LET alarm == BecomesWX(mem_regions[i], exec, write)
           IN  /\ mem_regions' = [mem_regions EXCEPT
                     ![i].status = IF alarm THEN "SUSPICIOUS" ELSE @,
                     ![i].is_executable = exec, ![i].is_writable = write]
               /\ IF alarm THEN RecordAnomaly("MEM_EXEC_WRITE", 7, pid)
                  ELSE UNCHANGED ringVars
        /\ UNCHANGED <<processes, connections, watched_files, baseline_ready,
                       total_observations>>

ObserveNewMem(base, pid, exec, write) ==
    /\ RegionIndex(base, pid) = 0
    /\ Len(mem_regions) < MaxMemRegions
    /\ mem_regions' = Append(mem_regions,
          [base_addr |-> base, owning_pid |-> pid, is_executable |-> exec,
           is_writable |-> write,
           status |-> IF exec /\ write THEN "SUSPICIOUS" ELSE "UNKNOWN"])
    /\ IF exec /\ write THEN RecordAnomaly("MEM_EXEC_WRITE", 8, pid)
       ELSE UNCHANGED ringVars
    /\ Observed
    /\ UNCHANGED <<processes, connections, watched_files, baseline_ready>>

----------------------------------------------------------------------------
(* The baseline *)

Trust(pool) ==
    [i \in DOMAIN pool |->
        [pool[i] EXCEPT !.status = IF @ = "UNKNOWN" THEN "TRUSTED" ELSE @]]

EstablishBaseline ==
    /\ baseline_ready' = TRUE
    /\ processes' = Trust(processes)
    /\ connections' = Trust(connections)
    /\ mem_regions' = Trust(mem_regions)
    /\ UNCHANGED <<watched_files, ringVars, total_observations>>

TerritoryNext ==
    \/ \E pid \in Pids : \/ ObserveKnownProcess(pid) \/ ObserveNewProcess(pid)
                         \/ Report(pid)
                         \/ \E s \in Marks : MarkProcess(pid, s)
    \/ \E pid \in Pids, d \in Destinations :
          ObserveKnownConnection(pid, d) \/ ObserveNewConnection(pid, d)
    \/ \E f \in Files : WatchFile(f)
    \/ \E pid \in Pids, b \in Bases, exec, write \in BOOLEAN :
          ObserveKnownMem(b, pid, exec, write) \/ ObserveNewMem(b, pid, exec, write)
    \/ EstablishBaseline

TerritorySpec == TerritoryInit /\ [][TerritoryNext]_territoryVars

----------------------------------------------------------------------------
(* Properties *)

(* No process, connection or region is on the map twice: a second entry    *)
(* would have a status of its own, which the marks and lookups never reach *)
OneEntryEach ==
    /\ \A i, j \in DOMAIN processes : processes[i].pid = processes[j].pid => i = j
    /\ \A i, j \in DOMAIN connections :
          connections[i].destination = connections[j].destination => i = j
    /\ \A i, j \in DOMAIN mem_regions :
          /\ mem_regions[i].base_addr = mem_regions[j].base_addr
          /\ mem_regions[i].owning_pid = mem_regions[j].owning_pid
          => i = j

(* A region that is writable and executable is suspect, however it came to *)
(* be so and whatever baselines were taken before or since.                *)
WritableCodeSuspect ==
    \A i \in DOMAIN mem_regions :
       mem_regions[i].is_executable /\ mem_regions[i].is_writable =>
          mem_regions[i].status = "SUSPICIOUS"

(* Every process and connection on the map, and every suspect region, was  *)
(* reported: there are at least as many anomalies as there are of them.    *)
(* The newest anomaly is the one territory_last_anomaly gives, and the     *)
(* ring holds the newest ones, over its end and the overflow of its head.  *)
NewcomersReported ==
    /\ total_anomalies >= Len(processes) + Len(connections)
          + Cardinality({i \in DOMAIN mem_regions : mem_regions[i].status = "SUSPICIOUS"})
    /\ anomaly_count > 0 => LastAnomaly # Unused /\ LastAnomaly.order = total_anomalies - 1
    /\ {a.order : a \in {anomalies[i] : i \in 0..(MaxAnomalies - 1)} \ {Unused}}
          = (total_anomalies - anomaly_count)..(total_anomalies - 1)

(* The map is of its type, names each element once and has reported it *)
MapSound == TerritoryTypeOK /\ OneEntryEach /\ NewcomersReported

(* Only a baseline gives trust to a connection or a region, it gives it    *)
(* only to what nothing is held against, and no step takes a suspicion     *)
(* from a region.                                                          *)
TrustIsEarned ==
    [][/\ \A i \in DOMAIN connections' :
             connections'[i].status = "TRUSTED" =>
                /\ i \in DOMAIN connections
                /\ \/ connections[i].status = "TRUSTED"
                   \/ connections[i].status = "UNKNOWN" /\ baseline_ready'
       /\ \A i \in DOMAIN mem_regions :
             mem_regions[i].status = "SUSPICIOUS" =>
                mem_regions'[i].status = "SUSPICIOUS"]_territoryVars
=============================================================================
