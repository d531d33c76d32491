------------------------------- MODULE BotDna -------------------------------
(***************************************************************************)
(* The DNA of a bot agent: the structure it is made from, sealed with a    *)
(* SHA-256 of its fields, written to a backup and read back from it.       *)
(*                                                                         *)
(* The code hashes the bytes before integrity_hash: magic, version,        *)
(* identity, domains, patterns and statistics.  is_healthy and the prime   *)
(* directives come after it and are not hashed, although the comment on    *)
(* _bot_dna_compute_hash says that all but the hash and _reserved is, and  *)
(* bot_dna.h that the directives are sealed: DirectivesSealed states that  *)
(* claim, the other properties speak of the hashed bytes only.             *)
(*                                                                         *)
(* The digest is modelled as the fields it was computed from, so that      *)
(* different fields have different digests.  The environment may change    *)
(* bytes of the agent or of its backup, hashed or not; it cannot compute a *)
(* new digest.                                                             *)
(***************************************************************************)
EXTENDS Naturals, Sequences, FiniteSets

CONSTANTS
    Roles,          \* the roles agents are made for
    Patterns,       \* the behaviours an agent can learn
    MaxPatterns,    \* BOT_MAX_PATTERNS, 64
    MaxDecay        \* bound of the model on the changes to one structure

AgentRole ==
    {"NONE", "MEM_WATCH", "NET_WATCH", "FS_WATCH", "PROC_WATCH", "KERNEL_WATCH",
     "BOOT_WATCH", "QUARANTINE", "HONEY_TRAP", "NEUTRALIZER", "CHAMELEON",
     "MIMICRY", "MUTATION", "REGEN", "OO_BRIDGE", "SWARM_MIND"}

ThreatDomain ==
    {"ANTIVIRUS", "ANTIPIRACY", "ANTITHEFT", "ANTIROOTKIT", "ANTIRANSOM",
     "ANTISOCIAL", "ANTIBOT", "SELF_PROTECT"}

ASSUME DnaAssumption ==
    Roles \subseteq AgentRole /\ MaxPatterns \in Nat /\ MaxDecay \in Nat

VARIABLES
    dna,            \* the agent's DNA
    backup          \* what bot_dna_serialize last wrote, or NoBackup

dnaVars == <<dna, backup>>

NoDigest == [none |-> 0]
NoBackup == [empty |-> 0]

(* The fields under the seal; spoilt counts the changes made to their bytes *)
Sealed ==
    [magic: BOOLEAN, role: AgentRole, threat_domains: SUBSET ThreatDomain,
     learned_patterns: Seq(Patterns), spoilt: 0..MaxDecay]

BotDNA ==
    [body: Sealed, integrity_hash: Sealed \cup {NoDigest}, is_healthy: BOOLEAN,
     prime_directives: {"sealed", "changed", "zero"}]

DnaTypeOK ==
    /\ dna \in BotDNA
    /\ Len(dna.body.learned_patterns) <= MaxPatterns
    /\ backup \in BotDNA \cup {NoBackup}

----------------------------------------------------------------------------
(* Mutant: the digest takes the spoilt bytes for the ones that were meant *)
DigestBlind(body) == [body EXCEPT !.spoilt = 0]

Digest(body) == body

(* The structure a memset leaves *)
Zeroed ==
    [body |-> [magic |-> FALSE, role |-> "NONE", threat_domains |-> {},
               learned_patterns |-> <<>>, spoilt |-> 0],
     integrity_hash |-> NoDigest, is_healthy |-> FALSE, prime_directives |-> "zero"]

(* The domains bot_dna_init gives to a role *)
Domains(role) ==
    CASE role = "MEM_WATCH"  -> {"ANTIVIRUS", "ANTIROOTKIT"}
      [] role = "NET_WATCH"  -> {"ANTITHEFT", "ANTIBOT"}
      [] role = "FS_WATCH"   -> {"ANTIRANSOM", "ANTITHEFT"}
      [] role = "PROC_WATCH" -> {"ANTIVIRUS", "ANTIPIRACY"}
      [] role \in {"KERNEL_WATCH", "BOOT_WATCH"} -> {"ANTIROOTKIT", "SELF_PROTECT"}
      [] role = "SWARM_MIND" -> ThreatDomain
      [] OTHER -> {}

Made(role) ==
    LET body == [magic |-> TRUE, role |-> role, threat_domains |-> Domains(role),
                 learned_patterns |-> <<>>, spoilt |-> 0]
    IN  [body |-> body, integrity_hash |-> Digest(body), is_healthy |-> TRUE,
         prime_directives |-> "sealed"]

(* bot_dna_verify.  The version is written with the magic, so one flag      *)
(* stands for both.                                                         *)
Verify(d) == d.body.magic /\ Digest(d.body) = d.integrity_hash

----------------------------------------------------------------------------
(* The operations *)

DnaInit == dna = Zeroed /\ backup = NoBackup

MakeAgent(role) == dna' = Made(role) /\ UNCHANGED backup

(* The new seal is of whatever the fields hold *)
Learned(d, pattern) ==
    LET body == [d.body EXCEPT !.learned_patterns = Append(@, pattern)]
    IN  [d EXCEPT !.body = body, !.integrity_hash = Digest(body)]

(* bot_dna_add_pattern does not look at the old seal; a full pool refuses *)
AddPattern(pattern) ==
    /\ Len(dna.body.learned_patterns) < MaxPatterns
    /\ dna' = Learned(dna, pattern)
    /\ UNCHANGED backup

Serialize == backup' = dna /\ UNCHANGED dna

(* Mutant: what failed the verification is left in place *)
RestoredAnyhow(image) == image

(* bot_dna_deserialize copies first and verifies the copy: a backup that    *)
(* fails leaves nothing of the agent that was there.                        *)
Restored(image) == IF Verify(image) THEN image ELSE Zeroed

Deserialize ==
    /\ backup # NoBackup
    /\ dna' = Restored(backup)
    /\ UNCHANGED backup

(* A hashed byte of a structure changes, or one of those after its hash *)
Spoil(d) == [d EXCEPT !.body.spoilt = @ + 1]
Meddle(d) == [d EXCEPT !.prime_directives = "changed"]
Flag(d, healthy) == [d EXCEPT !.is_healthy = healthy]

Spoilt(d) == {Spoil(d), Meddle(d)} \cup {Flag(d, healthy) : healthy \in BOOLEAN}

Decay ==
    \/ /\ dna.body.spoilt < MaxDecay
       /\ dna' \in Spoilt(dna) /\ UNCHANGED backup
    \/ /\ backup # NoBackup /\ backup.body.spoilt < MaxDecay
       /\ backup' \in Spoilt(backup) /\ UNCHANGED dna

DnaNext ==
    \/ \E role \in Roles : MakeAgent(role)
    \/ \E pattern \in Patterns : AddPattern(pattern)
    \/ Serialize
    \/ Deserialize
    \/ Decay

DnaSpec == DnaInit /\ [][DnaNext]_dnaVars

----------------------------------------------------------------------------
(* Properties *)

(* What verifies has the hashed bytes it was sealed with, on whichever way *)
(* through backups it came, and the domains of its role.  Learning is the  *)
(* one way round: it seals the bytes it finds, so what verifies although   *)
(* they had changed has learned since.                                     *)
VerifiedIsIntact ==
    \A d \in {dna, backup} \ {NoBackup} :
       Verify(d) => /\ d.body.spoilt = 0 \/ d.body.learned_patterns # <<>>
                    /\ d.body.threat_domains = Domains(d.body.role)

(* What does not verify had a hashed byte changed or was never made:       *)
(* learning and restoring keep the seal true.                              *)
IntactVerifies ==
    \A d \in {dna, backup} \ {NoBackup} :
       Verify(d) \/ d.body.spoilt > 0 \/ d.body.magic = FALSE

(* bot_dna_verify tells changed hashed bytes from unchanged ones.  It says *)
(* nothing of is_healthy and of the prime directives.                      *)
SealSound == DnaTypeOK /\ VerifiedIsIntact /\ IntactVerifies

(* What bot_dna.h says of bot_dna_init and bot_dna_verify: the directives  *)
(* are sealed, so an agent that verifies has the ones it was made with.    *)
(* The code does not keep it: a change of them leaves the digest true.     *)
DirectivesSealed ==
    \A d \in {dna, backup} \ {NoBackup} : Verify(d) => d.prime_directives = "sealed"

(* bot_dna_deserialize: a backup brings changed bytes into the agent only  *)
(* when its own seal is true.                                              *)
SpoiltNeverRestored ==
    [][dna'.body.spoilt > dna.body.spoilt => dna' = Spoil(dna) \/ Verify(backup)]_dnaVars
=============================================================================
