--------------------------- MODULE ColonyRegistry ---------------------------
(***************************************************************************)
(* What a colony server keeps of its organisms (colony-server/src/         *)
(* storage.rs and the heartbeat handler): a fossil file per organism, the  *)
(* live registry, the files of threats and of mutations, and the node's    *)
(* own profile.  The registry of threats is computed from its file.        *)
(*                                                                         *)
(* One mutex excludes the handlers from each other, but store_heartbeat    *)
(* writes several files one after the other: a write may fail, and the     *)
(* server may crash, at any of them.  An append writes the record and then *)
(* the end of the line, so what it leaves behind may be part of a record,  *)
(* or a record without its end of line, and the next append continues that *)
(* line.  A JSON file is truncated before it is written.                   *)
(*                                                                         *)
(* Habitats, epochs, fitness values and dates are left out; a record is    *)
(* its threat and severity, a heartbeat is told apart by its time.         *)
(***************************************************************************)
EXTENDS Integers, Sequences, FiniteSets

CONSTANTS
    Organisms,      \* the organisms that send heartbeats
    Threats,        \* the threat ids they report
    Mutations,      \* the kinds of mutations they report
    Beats,          \* their heartbeats: [org, time, signals, mutations]
    MaxBeats,       \* bound of the model on the heartbeats received
    MaxWriteFaults  \* bound of the model on failing writes and crashes

Severities == {"low", "medium", "high", "critical"}

Signals == [threat : Threats, severity : Severities]

ASSUME RegistryAssumption ==
    /\ Beats \subseteq [org : Organisms, time : Nat, signals : Seq(Signals),
                       mutations : Seq(Mutations)]
    /\ MaxBeats \in Nat /\ MaxWriteFaults \in Nat

VARIABLES
    up,             \* the server runs
    profile,        \* fossil/node.json: none, written or torn
    job,            \* the heartbeat being stored and the writes it has left
    fossil,         \* fossil/organisms/<id>.ndjson of each organism
    organisms,      \* fossil/organisms.json: last_heartbeat of each organism
    threats,        \* fossil/threats/threat_signatures.jsonl
    mutations,      \* fossil/mutations/fitness_archive.jsonl
    received,       \* history: the heartbeats that were received
    acked,          \* history: those that were answered "ok"
    harm            \* history: how many writes failed or were cut short by a crash

registryVars ==
    <<up, profile, job, fossil, organisms, threats, mutations, received, acked, harm>>

NoJob == [todo |-> <<>>, beat |-> [none |-> 0]]
Unseen == -1
Unreadable == [o \in {} |-> Unseen]
NoOrganism == [o \in Organisms |-> Unseen]

----------------------------------------------------------------------------
\* Files of lines.  A line holds the records written into it whole; it can be
\* parsed if it is one record and nothing else.
Blank == [lines |-> <<>>, open |-> FALSE]
Row(records, parses) == [records |-> records, parses |-> parses]

\* The last line continued by a record, or a new line with it.
Continued(f, records) ==
    IF f.open
    THEN [f.lines EXCEPT ![Len(f.lines)] = Row(@.records \union records, FALSE)]
    ELSE Append(f.lines, Row(records, records # {}))

\* writeln! of record r.
Appended(f, r) == [lines |-> Continued(f, {r}), open |-> FALSE]

\* What writeln! of r may leave when it does not finish: nothing, a part of the
\* record, or the record without its end of line.
CutShort(f, r) ==
    {f, [lines |-> Continued(f, {}), open |-> TRUE],
        [lines |-> Continued(f, {r}), open |-> TRUE]}

----------------------------------------------------------------------------
\* Mutant: the live registry is updated before the fossil record.
WritesLiveFirst(b) ==
    <<[file |-> "live", rec |-> b.time], [file |-> "fossil", rec |-> b.time]>>
      \o [k \in DOMAIN b.signals |-> [file |-> "threats", rec |-> b.signals[k]]]
      \o [k \in DOMAIN b.mutations |-> [file |-> "mutations", rec |-> b.mutations[k]]]

\* store_heartbeat: its writes in their order.
Writes(b) ==
    <<[file |-> "fossil", rec |-> b.time], [file |-> "live", rec |-> b.time]>>
      \o [k \in DOMAIN b.signals |-> [file |-> "threats", rec |-> b.signals[k]]]
      \o [k \in DOMAIN b.mutations |-> [file |-> "mutations", rec |-> b.mutations[k]]]

\* update_live_registry: an unreadable registry counts as empty.  The organism's
\* entry is replaced even if its heartbeat is older.
Listed == IF organisms = Unreadable THEN NoOrganism ELSE organisms
Updated(o, time) == [Listed EXCEPT ![o] = time]

RegistryInit ==
    /\ up = FALSE
    /\ profile = "none"
    /\ job = NoJob
    /\ fossil = [o \in Organisms |-> Blank]
    /\ organisms = NoOrganism
    /\ threats = Blank
    /\ mutations = Blank
    /\ received = <<>>
    /\ acked = <<>>
    /\ harm = 0

\* The write w of heartbeat b, done.
Done(w, b) ==
    /\ fossil' = IF w.file = "fossil" THEN [fossil EXCEPT ![b.org] = Appended(@, w.rec)]
                                      ELSE fossil
    /\ organisms' = IF w.file = "live" THEN Updated(b.org, w.rec) ELSE organisms
    /\ threats' = IF w.file = "threats" THEN Appended(threats, w.rec) ELSE threats
    /\ mutations' = IF w.file = "mutations" THEN Appended(mutations, w.rec) ELSE mutations

\* The write w of heartbeat b, not finished.
Undone(w, b) ==
    /\ fossil' \in IF w.file = "fossil"
                   THEN {[fossil EXCEPT ![b.org] = f] : f \in CutShort(fossil[b.org], w.rec)}
                   ELSE {fossil}
    /\ organisms' \in IF w.file = "live" THEN {organisms, Unreadable} ELSE {organisms}
    /\ threats' \in IF w.file = "threats" THEN CutShort(threats, w.rec) ELSE {threats}
    /\ mutations' \in IF w.file = "mutations" THEN CutShort(mutations, w.rec)
                      ELSE {mutations}

Receive(b) ==
    /\ up /\ job = NoJob
    /\ Len(received) < MaxBeats
    /\ received' = Append(received, b)
    /\ job' = [todo |-> Writes(b), beat |-> b]
    /\ UNCHANGED <<up, profile, fossil, organisms, threats, mutations, acked, harm>>

WriteNext ==
    /\ up /\ job.todo # <<>>
    /\ Done(Head(job.todo), job.beat)
    /\ job' = [job EXCEPT !.todo = Tail(@)]
    /\ UNCHANGED <<up, profile, received, acked, harm>>

\* The handler answers 500 and leaves the files as they are.
WriteFails ==
    /\ up /\ job.todo # <<>> /\ harm < MaxWriteFaults
    /\ Undone(Head(job.todo), job.beat)
    /\ job' = NoJob
    /\ harm' = harm + 1
    /\ UNCHANGED <<up, profile, received, acked>>

Answer ==
    /\ up /\ job # NoJob /\ job.todo = <<>>
    /\ acked' = Append(acked, job.beat)
    /\ job' = NoJob
    /\ UNCHANGED <<up, profile, fossil, organisms, threats, mutations, received, harm>>

\* A crash, in the middle of a write or between two.
Crash ==
    /\ up /\ harm < MaxWriteFaults
    /\ IF job.todo = <<>> THEN UNCHANGED <<fossil, organisms, threats, mutations>>
                          ELSE Undone(Head(job.todo), job.beat)
    /\ up' = FALSE
    /\ job' = NoJob
    /\ harm' = harm + 1
    /\ UNCHANGED <<profile, received, acked>>

\* main: the profile is read and written anew; a torn one is an error, which ends
\* the start.
Start ==
    /\ ~up /\ profile # "torn"
    /\ up' = TRUE
    /\ profile' = "written"
    /\ UNCHANGED <<job, fossil, organisms, threats, mutations, received, acked, harm>>

\* A crash while the profile is written.
StartCutShort ==
    /\ ~up /\ profile # "torn" /\ harm < MaxWriteFaults
    /\ profile' = "torn"
    /\ harm' = harm + 1
    /\ UNCHANGED <<up, job, fossil, organisms, threats, mutations, received, acked>>

RegistryNext ==
    \/ \E b \in Beats : Receive(b)
    \/ WriteNext
    \/ WriteFails
    \/ Answer
    \/ Crash
    \/ Start
    \/ StartCutShort

RegistrySpec == RegistryInit /\ [][RegistryNext]_registryVars

----------------------------------------------------------------------------
\* get_threat_registry: the lines that parse are the votes, and observer_count.
Votes(t, severity) ==
    Cardinality({k \in DOMAIN threats.lines :
                   /\ threats.lines[k].parses
                   /\ \E r \in threats.lines[k].records :
                        r.threat = t /\ r.severity = severity})
Observers(t) == Cardinality({k \in DOMAIN threats.lines :
                               /\ threats.lines[k].parses
                               /\ \E r \in threats.lines[k].records : r.threat = t})

\* max_by_key over a hash map: among the severities with most votes, any.
Resolved(t) ==
    {s \in Severities : Votes(t, s) > 0 /\ \A q \in Severities : Votes(t, q) <= Votes(t, s)}

\* get_colony_status: alive_organisms (is_alive is never cleared), and whether
\* critical_threats is sure to hold t.
AliveOrganisms == {o \in Organisms : Listed[o] # Unseen}
CriticalFor(t) == Resolved(t) = {"critical"}

----------------------------------------------------------------------------
\* How many signals of a sequence of heartbeats are in the set P.
Reports(beats, P) ==
    Cardinality(UNION {{i} \X {k \in DOMAIN beats[i].signals : beats[i].signals[k] \in P} :
                         i \in DOMAIN beats})

About(t) == [threat : {t}, severity : Severities]

\* Of the signals whose heartbeat was answered "ok", at most one is missing from the
\* registry for each failing write or crash (the one that continued a torn line);
\* and the registry never counts one that was not reported.
ThreatsAccounted ==
    \A t \in Threats : /\ Observers(t) + harm >= Reports(acked, About(t))
                       /\ Observers(t) <= Reports(received, About(t))

\* The live registry lists only heartbeats that are in the fossil record; as long as
\* no write failed, it lists each organism with the last one that was answered.
LiveBacked ==
    /\ \A o \in AliveOrganisms : \E k \in DOMAIN fossil[o].lines :
          Listed[o] \in fossil[o].lines[k].records
    /\ harm = 0 /\ job = NoJob =>
         \A i \in DOMAIN acked :
           (\A j \in (i + 1) .. Len(acked) : acked[j].org # acked[i].org)
             => Listed[acked[i].org] = acked[i].time

\* With more critical reports of it answered "ok" than all other reports received, a
\* threat is on the status page as critical whatever failed: the record that a torn line
\* swallows is weighed against the report that tore it, of whatever threat that was.
CriticalSeen ==
    \A t \in Threats :
      LET critical == Reports(acked, {[threat |-> t, severity |-> "critical"]})
      IN  critical > Reports(received, Signals) - critical => CriticalFor(t)

\* The server's archives across failing writes, crashes and restarts.
ArchiveSound == ThreatsAccounted /\ LiveBacked /\ CriticalSeen
=============================================================================
