------------------------------ MODULE Instinct ------------------------------
(***************************************************************************)
(* The instinct layer of the bot: a lookup table that turns a trigger and  *)
(* the confidence in it into a reaction and a level of threat, the matrix  *)
(* that says which changes of level are allowed, and a circular history.   *)
(*                                                                         *)
(* The layer is one structure of its caller.  Its operations are the       *)
(* trigger, the reset to dormant, and threat_transition on its state.      *)
(* Process ids, addresses and the text of reasons are left out; the fields *)
(* level_entered_at, time_in_level and false_positive_count are never      *)
(* written by the code.                                                    *)
(***************************************************************************)
EXTENDS Naturals, Sequences, FiniteSets, FiniteSetsExt

CONSTANTS
    Triggers,        \* the triggers the sensors raise
    Confidences,     \* the confidences they come with, 0..100
    Wired,           \* the callbacks the owner of the layer has set
    HistorySize,     \* INSTINCT_HISTORY_SIZE, 256
    HeadWord,        \* the values of history_head, a uint32_t: 2^32
    MaxTriggers,     \* bound of the model on total_triggers
    MaxTransitions   \* bound of the model on transition_count

(* The six levels of threat_levels.h *)
DORMANT == 0
VIGILANCE == 1
ALERT == 2
COMBAT == 3
SURVIVAL == 4
CONFINEMENT == 5
Levels == DORMANT..CONFINEMENT

TriggerType ==
    {"MEM_WRITE_EXEC", "MEM_SPRAY", "MEM_SHELLCODE_SIG", "MEM_ROP_CHAIN",
     "PROC_HOLLOW", "PROC_INJECT", "PROC_PRIV_ESC", "PROC_ABNORMAL_CHILD",
     "PROC_DEBUGGER", "NET_C2_BEACON", "NET_EXFIL_VOLUME", "NET_UNUSUAL_PORT",
     "NET_DNS_TUNNEL", "FS_MASS_ENCRYPT", "FS_CRITICAL_MODIF", "FS_BOOT_MODIF",
     "FS_RAPID_DELETE", "KERN_SYSCALL_HOOK", "KERN_ROOTKIT_SIG", "KERN_DKOM",
     "BOT_SELF_SCAN", "BOT_KILL_ATTEMPT", "BOT_CORRUPT_DETECT"}

(* The reactions the table or the default can give *)
ReactionType ==
    {"QUARANTINE_PROC", "CUT_NETWORK", "CUT_NETWORK_ALL", "DEPLOY_HONEYTRAP",
     "INTENSIFY_WATCH", "CAPTURE_MEMORY", "LOG_FULL", "REGEN_AGENT",
     "CAMOUFLAGE_SELF", "BACKUP_DNA", "ALERT_SWARM_MIND"}

(* The callbacks of the structure.  on_oo_bridge_alert is for a reaction   *)
(* no rule gives.                                                          *)
CallbackType ==
    {"on_quarantine", "on_network_cut", "on_honeytrap_deploy",
     "on_regen_request", "on_swarm_alert"}

NoCallback == "none"

ASSUME InstinctAssumption ==
    /\ Triggers \subseteq TriggerType
    /\ Confidences \subseteq 0..100
    /\ Wired \subseteq CallbackType
    /\ HistorySize \in Nat \ {0} /\ HeadWord \in Nat \ {0}
    /\ HeadWord % HistorySize = 0
    /\ MaxTriggers \in Nat /\ MaxTransitions \in Nat

VARIABLES
    threat_state,    \* ThreatState
    history,         \* the ring of InstinctEvent
    history_head,
    history_count,
    total_triggers,
    total_reactions,
    called           \* the callback the last trigger made, and the level given to it

instinctVars == <<threat_state, history, history_head, history_count, total_triggers,
                  total_reactions, called>>

InstinctEvent ==
    [trigger: TriggerType, timestamp: Nat, confidence: 0..100,
     reaction_taken: ReactionType, threat_level_before: Levels,
     threat_level_after: Levels]

ThreatState ==
    [current_level: Levels, previous_level: Levels, transition_count: Nat,
     entries_per_level: [Levels -> Nat]]

Level == threat_state.current_level

(* What the memset of instinct_init leaves in a slot of the ring: nothing   *)
(* reads it, as history_count is 0 then.                                    *)
Blank == [blank |-> 0]

InstinctTypeOK ==
    /\ threat_state \in ThreatState
    /\ history \in [0..(HistorySize - 1) -> InstinctEvent \cup {Blank}]
    /\ history_head \in 0..(HeadWord - 1)
    /\ history_count \in 0..HistorySize
    /\ total_triggers \in Nat /\ total_reactions \in Nat
    /\ called.callback \in CallbackType \cup {NoCallback} /\ called.level \in Levels

----------------------------------------------------------------------------
(* The levels *)

TRANSITION_MATRIX ==
    << {VIGILANCE},                                 \* from DORMANT
       {DORMANT, ALERT},                            \* from VIGILANCE
       {VIGILANCE, COMBAT},                         \* from ALERT
       {DORMANT, ALERT, SURVIVAL, CONFINEMENT},     \* from COMBAT
       {COMBAT, CONFINEMENT},                       \* from SURVIVAL
       {SURVIVAL} >>                                \* from CONFINEMENT

ThreatStateInit ==
    [current_level |-> DORMANT, previous_level |-> DORMANT, transition_count |-> 0,
     entries_per_level |-> [l \in Levels |-> 0]]

(* Mutant: only the bounds are looked at *)
TransitionIsValidAny(from, to) == from \in Levels /\ to \in Levels

TransitionIsValid(from, to) ==
    /\ from \in Levels /\ to \in Levels
    /\ to \in TRANSITION_MATRIX[from + 1]

(* The state after threat_transition(s, new_level) *)
Transition(s, new_level) ==
    IF \/ new_level \notin Levels \/ new_level = s.current_level
       \/ ~TransitionIsValid(s.current_level, new_level)
    THEN s
    ELSE [current_level     |-> new_level,
          previous_level    |-> s.current_level,
          transition_count  |-> s.transition_count + 1,
          entries_per_level |-> [s.entries_per_level EXCEPT ![new_level] = @ + 1]]

----------------------------------------------------------------------------
(* The table: trigger, least level, least confidence, reaction, level after *)

INSTINCT_RULES ==
    { <<"MEM_WRITE_EXEC",      0, 60, "INTENSIFY_WATCH",  VIGILANCE>>,
      <<"MEM_WRITE_EXEC",      1, 75, "CAPTURE_MEMORY",   ALERT>>,
      <<"MEM_SHELLCODE_SIG",   0, 70, "QUARANTINE_PROC",  ALERT>>,
      <<"MEM_SHELLCODE_SIG",   2, 85, "LOG_FULL",         COMBAT>>,
      <<"MEM_SPRAY",           0, 65, "INTENSIFY_WATCH",  VIGILANCE>>,
      <<"MEM_ROP_CHAIN",       1, 70, "CAPTURE_MEMORY",   ALERT>>,
      <<"PROC_HOLLOW",         0, 75, "QUARANTINE_PROC",  ALERT>>,
      <<"PROC_HOLLOW",         2, 85, "LOG_FULL",         COMBAT>>,
      <<"PROC_INJECT",         0, 70, "QUARANTINE_PROC",  ALERT>>,
      <<"PROC_PRIV_ESC",       0, 65, "INTENSIFY_WATCH",  ALERT>>,
      <<"PROC_PRIV_ESC",       2, 80, "QUARANTINE_PROC",  COMBAT>>,
      <<"PROC_ABNORMAL_CHILD", 0, 60, "INTENSIFY_WATCH",  VIGILANCE>>,
      <<"PROC_DEBUGGER",       0, 75, "CAMOUFLAGE_SELF",  ALERT>>,
      <<"PROC_DEBUGGER",       2, 85, "ALERT_SWARM_MIND", COMBAT>>,
      <<"NET_C2_BEACON",       0, 70, "DEPLOY_HONEYTRAP", ALERT>>,
      <<"NET_C2_BEACON",       2, 85, "CUT_NETWORK",      COMBAT>>,
      <<"NET_EXFIL_VOLUME",    0, 65, "LOG_FULL",         ALERT>>,
      <<"NET_EXFIL_VOLUME",    2, 80, "CUT_NETWORK",      COMBAT>>,
      <<"NET_UNUSUAL_PORT",    0, 55, "INTENSIFY_WATCH",  VIGILANCE>>,
      <<"NET_DNS_TUNNEL",      0, 70, "DEPLOY_HONEYTRAP", ALERT>>,
      <<"FS_MASS_ENCRYPT",     0, 80, "QUARANTINE_PROC",  COMBAT>>,
      <<"FS_MASS_ENCRYPT",     3, 90, "CUT_NETWORK_ALL",  COMBAT>>,
      <<"FS_CRITICAL_MODIF",   0, 75, "ALERT_SWARM_MIND", ALERT>>,
      <<"FS_BOOT_MODIF",       0, 80, "ALERT_SWARM_MIND", COMBAT>>,
      <<"FS_RAPID_DELETE",     0, 70, "QUARANTINE_PROC",  ALERT>>,
      <<"KERN_SYSCALL_HOOK",   0, 80, "ALERT_SWARM_MIND", COMBAT>>,
      <<"KERN_ROOTKIT_SIG",    0, 75, "ALERT_SWARM_MIND", COMBAT>>,
      <<"KERN_DKOM",           0, 85, "CUT_NETWORK_ALL",  COMBAT>>,
      <<"BOT_SELF_SCAN",       0, 60, "CAMOUFLAGE_SELF",  VIGILANCE>>,
      <<"BOT_KILL_ATTEMPT",    0, 70, "BACKUP_DNA",       SURVIVAL>>,
      <<"BOT_KILL_ATTEMPT",    4, 85, "REGEN_AGENT",      SURVIVAL>>,
      <<"BOT_CORRUPT_DETECT",  0, 80, "REGEN_AGENT",      SURVIVAL>> }

Matching(trigger, level, confidence) ==
    {r \in INSTINCT_RULES : r[1] = trigger /\ level >= r[2] /\ confidence >= r[3]}

(* instinct_get_reaction.  The loop keeps a rule whose least level is no   *)
(* higher than the best so far, so the rule for the LOWEST level wins, and *)
(* the second rule of a trigger never gives the reaction.                  *)
GetReaction(trigger, level, confidence) ==
    LET matching == Matching(trigger, level, confidence)
        best     == CHOOSE r \in matching : \A q \in matching : r[2] <= q[2]
    IN  IF matching = {} THEN "INTENSIFY_WATCH" ELSE best[4]

(* Mutant: the level of the rule that gave the reaction, not the highest *)
RecommendedOfBest(trigger, level, confidence) ==
    LET matching == Matching(trigger, level, confidence)
        best     == CHOOSE r \in matching : \A q \in matching : r[2] <= q[2]
    IN  IF matching = {} THEN level ELSE best[5]

(* The level the trigger asks for: never below the one it finds *)
Recommended(trigger, level, confidence) ==
    Max({level} \cup {r[5] : r \in Matching(trigger, level, confidence)})

(* The callback of a reaction, and the one of a combat for the others *)
CallbackOf(reaction, new_level) ==
    CASE reaction = "QUARANTINE_PROC"                   -> "on_quarantine"
      [] reaction \in {"CUT_NETWORK", "CUT_NETWORK_ALL"} -> "on_network_cut"
      [] reaction = "DEPLOY_HONEYTRAP"                  -> "on_honeytrap_deploy"
      [] reaction = "REGEN_AGENT"                       -> "on_regen_request"
      [] reaction \in {"ALERT_SWARM_MIND", "BACKUP_DNA"} -> "on_swarm_alert"
      [] OTHER -> IF new_level >= COMBAT THEN "on_swarm_alert" ELSE NoCallback

Call(reaction, new_level) ==
    LET callback == CallbackOf(reaction, new_level)
    IN  [callback |-> IF callback \in Wired THEN callback ELSE NoCallback,
         level    |-> new_level]

----------------------------------------------------------------------------
(* The operations *)

InstinctInit ==
    /\ threat_state = ThreatStateInit
    /\ history = [i \in 0..(HistorySize - 1) |-> Blank]
    /\ history_head = 0
    /\ history_count = 0
    /\ total_triggers = 0
    /\ total_reactions = 0
    /\ called = [callback |-> NoCallback, level |-> DORMANT]

(* Mutant: the slot the head is moved to, not the one it was at *)
SlotAhead(head) == (head + 1) % HistorySize

Slot(head) == head % HistorySize

Counted(count) == IF count < HistorySize THEN count + 1 ELSE count

(* instinct_trigger: reaction, level, history, transition, callback *)
Trigger(trigger, confidence) ==
    /\ total_triggers < MaxTriggers
    /\ threat_state.transition_count < MaxTransitions
    /\ LET reaction  == GetReaction(trigger, Level, confidence)
           new_level == Recommended(trigger, Level, confidence)
       IN  /\ history' = [history EXCEPT ![Slot(history_head)] =
                [trigger             |-> trigger,
                 timestamp           |-> total_triggers,
                 confidence          |-> confidence,
                 reaction_taken      |-> reaction,
                 threat_level_before |-> Level,
                 threat_level_after  |-> new_level]]
           /\ history_head' = (history_head + 1) % HeadWord
           /\ history_count' = Counted(history_count)
           /\ total_triggers' = total_triggers + 1
           /\ threat_state' = Transition(threat_state, new_level)
           /\ total_reactions' = total_reactions + 1
           /\ called' = Call(reaction, new_level)

(* instinct_reset_to_dormant: from ALERT, SURVIVAL and CONFINEMENT the      *)
(* matrix refuses it.                                                       *)
ResetToDormant ==
    /\ threat_state.transition_count < MaxTransitions
    /\ Level # DORMANT
    /\ threat_state' = Transition(threat_state, DORMANT)
    /\ UNCHANGED <<history, history_head, history_count, total_triggers,
                   total_reactions, called>>

(* threat_transition called by the owner of the layer, with any byte *)
Order(new_level) ==
    /\ threat_state.transition_count < MaxTransitions
    /\ threat_state' = Transition(threat_state, new_level)
    /\ UNCHANGED <<history, history_head, history_count, total_triggers,
                   total_reactions, called>>

InstinctNext ==
    \/ \E t \in Triggers, c \in Confidences : Trigger(t, c)
    \/ ResetToDormant
    \/ \E l \in 0..(CONFINEMENT + 1) : Order(l)

InstinctSpec == InstinctInit /\ [][InstinctNext]_instinctVars

----------------------------------------------------------------------------
(* What is read *)

(* The slot of the i-th event counted from the newest, i = 0 for            *)
(* instinct_last_event, and of line i of instinct_dump_history.  The        *)
(* subtraction is unsigned.                                                 *)
SlotBack(i) == ((history_head + HeadWord - 1 - i + HistorySize) % HeadWord) % HistorySize

LastEvent == history[SlotBack(0)]

DumpHistory(n) ==
    [i \in 1..Min({n, history_count}) |-> history[SlotBack(i - 1)]]

----------------------------------------------------------------------------
(* Properties *)

(* The dump and instinct_last_event give the last history_count triggers,  *)
(* the newest first and none twice, also after the ring and the 32-bit     *)
(* head have turned over.                                                  *)
HistoryInOrder ==
    /\ history_count = Min({total_triggers, HistorySize})
    /\ \A i \in 1..history_count :
          /\ DumpHistory(HistorySize)[i] # Blank
          /\ DumpHistory(HistorySize)[i].timestamp = total_triggers - i
    /\ history_count > 0 => LastEvent.timestamp = total_triggers - 1

(* The layer's record of what happened is of its type and in order *)
RecordSound == InstinctTypeOK /\ HistoryInOrder

(* The levels that have the given one in their row of the matrix *)
Before(l) == {k \in Levels : l \in TRANSITION_MATRIX[k + 1]}

(* The entries into a set of levels *)
Entered(S) ==
    LET n(l) == IF l \in S THEN threat_state.entries_per_level[l] ELSE 0
    IN  n(0) + n(1) + n(2) + n(3) + n(4) + n(5)

(* Every entry into a level came out of one entry into a level that leads  *)
(* to it: no level was entered more often than the levels below and above  *)
(* it together (the layer starts in DORMANT without an entry), and the     *)
(* transitions are the entries.                                            *)
EntriesFlow ==
    LET entries == threat_state.entries_per_level
    IN  /\ threat_state.transition_count = Entered(Levels)
        /\ \A l \in Levels :
              entries[l] <= Entered(Before(l)) + (IF DORMANT \in Before(l) THEN 1 ELSE 0)
        /\ entries[Level] = 0 => Level = DORMANT

(* threat_levels.h: the level never jumps over another one on its way up,  *)
(* except from COMBAT.  A trigger never takes it down, raises it by one at *)
(* most and not into CONFINEMENT; and the level given to the swarm is not  *)
(* below the one the layer is in afterwards (it is above it when the       *)
(* matrix refused the transition).                                         *)
TriggersRaise ==
    [][/\ Level' > Level + 1 => Level = COMBAT
       /\ total_triggers' # total_triggers =>
             /\ Level' \in {Level, Level + 1}
             /\ Level' = CONFINEMENT => Level = CONFINEMENT
             /\ called'.callback = "on_swarm_alert" => called'.level >= Level']_instinctVars
=============================================================================
