------------------------------ MODULE BotProofs ------------------------------
(***************************************************************************)
(* Proofs about the core of the bot: the DNA of its agents, the map of its *)
(* territory and its instinct layer, for every size of pool, ring and      *)
(* 32-bit counter.  The three share no state, so each has a specification  *)
(* of its own.                                                             *)
(***************************************************************************)
EXTENDS Integers, Territory, BotDna, Instinct, FiniteSetTheorems, WellFoundedInduction, TLAPS

----------------------------------------------------------------------------
(* Numbers and remainders *)

\* A number is given by its quotient and remainder in one way.
LEMMA DivisionUnique ==
    ASSUME NEW n \in Nat \ {0}, NEW p \in Int, NEW q \in Int,
           NEW r \in 0..(n - 1), NEW s \in 0..(n - 1), n * p + r = n * q + s
    PROVE  r = s
<1>1. ASSUME NEW x \in Int, NEW y \in Int, x < y PROVE n * y >= n * x + n
  <2>1. y >= x + 1
    BY <1>1
  <2>2. \E d \in Nat : y = x + 1 + d
    <3>1. y - (x + 1) \in Nat /\ y = x + 1 + (y - (x + 1))
      BY <2>1
    <3> QED
      BY <3>1
  <2>3. PICK d \in Nat : y = x + 1 + d
    BY <2>2
  <2>4. n * (x + 1 + d) = n * x + n + n * d
    OBVIOUS
  <2>5. n * d >= 0
    OBVIOUS
  <2>6. n * x \in Int /\ n * d \in Int
    OBVIOUS
  <2> QED
    BY <2>3, <2>4, <2>5, <2>6
<1>2. n * p \in Int /\ n * q \in Int
  OBVIOUS
<1>3. ~(p < q)
  BY <1>1, <1>2
<1>4. ~(q < p)
  BY <1>1, <1>2
<1>5. p = q
  BY <1>3, <1>4
<1> QED
  BY <1>2, <1>5

\* Adding a multiple of the divisor leaves the remainder.
LEMMA ModPlus ==
    ASSUME NEW n \in Nat \ {0}, NEW a \in Int, NEW k \in Int
    PROVE  (a + n * k) % n = a % n
<1>1. n * k \in Int /\ a + n * k \in Int
  OBVIOUS
<1>2. /\ a \div n \in Int /\ a % n \in 0..(n - 1)
      /\ a = n * (a \div n) + (a % n)
  OBVIOUS
<1>3. ASSUME NEW b \in Int PROVE /\ b \div n \in Int /\ b % n \in 0..(n - 1)
                                 /\ b = n * (b \div n) + (b % n)
  OBVIOUS
<1>4. n * ((a \div n) + k) = n * (a \div n) + n * k
  BY <1>2
<1>5. n * ((a + n * k) \div n) + ((a + n * k) % n) = n * ((a \div n) + k) + (a % n)
  <2>1. a + n * k = n * ((a + n * k) \div n) + ((a + n * k) % n)
    BY <1>1, <1>3
  <2>2. n * (a \div n) \in Int
    BY <1>2
  <2>3. n * ((a \div n) + k) + (a % n) = a + n * k
    BY <1>1, <1>2, <1>4, <2>2
  <2> QED
    BY <2>1, <2>3
<1>6. (a + n * k) \div n \in Int /\ (a \div n) + k \in Int /\ (a + n * k) % n \in 0..(n - 1)
  BY <1>1, <1>2, <1>3
<1> DEFINE p == (a + n * k) \div n
           q == (a \div n) + k
           r == (a + n * k) % n
           s == a % n
<1>7. /\ p \in Int /\ q \in Int /\ r \in 0..(n - 1) /\ s \in 0..(n - 1)
      /\ n * p + r = n * q + s
  BY <1>2, <1>5, <1>6
<1> HIDE DEF p, q, r, s
<1>8. r = s
  BY <1>7, DivisionUnique
<1> QED
  BY <1>8 DEF r, s

\* A remainder of a remainder, when one divisor divides the other.
LEMMA ModMod ==
    ASSUME NEW n \in Nat \ {0}, NEW w \in Nat \ {0}, w % n = 0, NEW x \in Int
    PROVE  (x % w) % n = x % n
<1> DEFINE k == w \div n
           d == x \div w
<1>1. k \in Int /\ w = n * k
  OBVIOUS
<1>2. d \in Int /\ x % w \in Int /\ x = w * d + (x % w)
  OBVIOUS
<1> HIDE DEF k, d
<1>3. x = (x % w) + n * (k * d)
  <2>1. w * d = n * (k * d)
    BY <1>1, <1>2
  <2>2. k * d \in Int /\ w * d \in Int
    BY <1>1, <1>2
  <2> QED
    BY <1>2, <2>1, <2>2
<1>4. k * d \in Int
  BY <1>1, <1>2
<1> DEFINE m == k * d
           y == x % w
<1>5. y \in Int /\ m \in Int /\ x = y + n * m
  BY <1>2, <1>3, <1>4
<1> HIDE DEF m, y
<1>6. (y + n * m) % n = y % n
  BY <1>5, ModPlus
<1> QED
  BY <1>5, <1>6 DEF y

\* Numbers of the same remainder differ by a multiple of the divisor.
LEMMA ModCongruent ==
    ASSUME NEW n \in Nat \ {0}, NEW a \in Int, NEW b \in Int, a % n = b % n, NEW c \in Int
    PROVE  (a + c) % n = (b + c) % n
<1> DEFINE p == a \div n
           q == b \div n
<1>1. /\ p \in Int /\ q \in Int /\ a % n \in Int
      /\ a = n * p + (a % n) /\ b = n * q + (b % n)
  OBVIOUS
<1> HIDE DEF p, q
<1>2. n * (p - q) = n * p - n * q /\ n * p \in Int /\ n * q \in Int /\ p - q \in Int
  BY <1>1
<1>3. a + c = (b + c) + n * (p - q)
  BY <1>1, <1>2
<1> DEFINE m == p - q
           y == b + c
<1>4. y \in Int /\ m \in Int /\ a + c = y + n * m
  BY <1>2, <1>3
<1> HIDE DEF m, y
<1>5. (y + n * m) % n = y % n
  BY <1>4, ModPlus
<1> QED
  BY <1>4, <1>5 DEF y

\* Numbers less than the divisor apart have different remainders.
LEMMA ModDistinct ==
    ASSUME NEW n \in Nat \ {0}, NEW a \in Int, NEW b \in Int, a < b, b < a + n
    PROVE  a % n # b % n
<1> SUFFICES ASSUME a % n = b % n PROVE FALSE
  OBVIOUS
<1>1. (b - a) % n = 0
  <2> DEFINE c == 0 - a
  <2>1. c \in Int /\ b + c = b - a /\ a + c = 0
    OBVIOUS
  <2> HIDE DEF c
  <2>2. (b + c) % n = (a + c) % n
    BY <2>1, ModCongruent
  <2>3. 0 % n = 0
    OBVIOUS
  <2> QED
    BY <2>1, <2>2, <2>3
<1>2. b - a \in 1..(n - 1)
  OBVIOUS
<1>3. \A x \in 1..(n - 1) : x % n = x
  OBVIOUS
<1> QED
  BY <1>1, <1>2, <1>3

\* A set of numbers that is not empty has a least one.
LEMMA LeastOf ==
    ASSUME NEW S \in SUBSET Nat, S # {}
    PROVE  \E x \in S : \A y \in S : x <= y
<1> DEFINE R == OpToRel(<, Nat)
<1>1. IsWellFoundedOn(R, Nat)
  BY NatLessThanWellFounded
<1>2. \A x, y \in Nat : <<x, y>> \in R <=> x < y
  BY DEF OpToRel
<1> HIDE DEF R
<1>3. PICK x \in S : \A y \in S : ~(<<y, x>> \in R)
  BY <1>1, WFMin
<1>4. \A y \in S : x \in Nat /\ y \in Nat /\ ~(y < x)
  BY <1>2, <1>3
<1>5. \A y \in S : x <= y
  BY <1>4
<1> QED
  BY <1>5

----------------------------------------------------------------------------
(* The DNA of an agent *)

\* A structure is itself or its seal is of an earlier state of the same bytes: the seal
\* differs from the fields in the changes made since, and a seal over changed bytes was
\* made by learning.
SealedOnce(d) ==
    /\ d \in BotDNA /\ Len(d.body.learned_patterns) <= MaxPatterns
    /\ d.body.threat_domains = Domains(d.body.role)
    /\ \/ d.integrity_hash = NoDigest /\ ~d.body.magic
       \/ /\ d.integrity_hash \in Sealed
          /\ d.body = [d.integrity_hash EXCEPT !.spoilt = d.body.spoilt]
          /\ d.integrity_hash.spoilt <= d.body.spoilt
          /\ d.integrity_hash.spoilt = 0 \/ d.body.learned_patterns # <<>>

\* The bounds of SealSound are inductive only with what is known of a seal that no
\* longer matches.
DnaInv == SealedOnce(dna) /\ (backup = NoBackup \/ SealedOnce(backup))

\* The markers for what is not there are no digest and no structure.
LEMMA Markers == NoDigest \notin Sealed /\ NoBackup \notin BotDNA
<1>1. \A s \in Sealed : "magic" \in DOMAIN s
  BY DEF Sealed
<1>2. \A d \in BotDNA : "body" \in DOMAIN d
  BY DEF BotDNA
<1>3. "magic" \notin DOMAIN NoDigest /\ "body" \notin DOMAIN NoBackup
  BY DEF NoDigest, NoBackup
<1> QED
  BY <1>1, <1>2, <1>3

\* The fields of a structure have their types.
LEMMA DnaFields ==
    ASSUME NEW d \in BotDNA
    PROVE  /\ d.body \in Sealed /\ d.body.magic \in BOOLEAN /\ d.body.role \in AgentRole
           /\ d.body.threat_domains \in SUBSET ThreatDomain
           /\ d.body.learned_patterns \in Seq(Patterns)
           /\ d.body.spoilt \in 0..MaxDecay
BY DEF BotDNA, Sealed

\* Erasing and making give structures with a true seal or none.
LEMMA FreshSealed ==
    /\ SealedOnce(Zeroed)
    /\ \A role \in AgentRole : SealedOnce(Made(role))
<1>1. \A role \in AgentRole : Domains(role) \in SUBSET ThreatDomain
  BY DEF Domains, AgentRole, ThreatDomain
<1>2. Domains("NONE") = {}
  BY DEF Domains
<1>3. 0 \in 0..MaxDecay /\ 0 <= MaxPatterns /\ <<>> \in Seq(Patterns) /\ Len(<<>>) = 0
  BY DnaAssumption
<1>4. SealedOnce(Zeroed)
  <2>1. Zeroed.body \in Sealed
    BY <1>3 DEF Zeroed, Sealed, AgentRole
  <2>2. Zeroed \in BotDNA
    BY <2>1 DEF Zeroed, BotDNA
  <2> QED
    BY <1>2, <1>3, <2>2 DEF SealedOnce, Zeroed
<1>5. ASSUME NEW role \in AgentRole PROVE SealedOnce(Made(role))
  <2>1. Made(role).body \in Sealed
    BY <1>1, <1>3 DEF Made, Sealed
  <2>2. Made(role) \in BotDNA /\ Made(role).integrity_hash = Made(role).body
    BY <2>1 DEF Made, BotDNA, Digest
  <2>3. Made(role).body = [Made(role).body EXCEPT !.spoilt = Made(role).body.spoilt]
    BY <2>1 DEF Sealed
  <2>4. /\ Made(role).body.spoilt = 0 /\ Made(role).body.learned_patterns = <<>>
        /\ Made(role).body.threat_domains = Domains(Made(role).body.role)
    BY DEF Made
  <2> QED
    BY <1>3, <2>1, <2>2, <2>3, <2>4 DEF SealedOnce
<1> QED
  BY <1>4, <1>5

\* Learning seals the fields as they are.
LEMMA LearnedSealed ==
    ASSUME NEW d, SealedOnce(d), NEW pattern \in Patterns,
           Len(d.body.learned_patterns) < MaxPatterns
    PROVE  SealedOnce(Learned(d, pattern))
<1> DEFINE body == [d.body EXCEPT !.learned_patterns = Append(@, pattern)]
<1>1. d \in BotDNA
  BY DEF SealedOnce
<1>2. /\ d.body \in Sealed /\ d.body.learned_patterns \in Seq(Patterns)
      /\ d.body.spoilt \in 0..MaxDecay
  BY <1>1, DnaFields
<1>3. /\ Append(d.body.learned_patterns, pattern) \in Seq(Patterns)
      /\ Len(Append(d.body.learned_patterns, pattern)) <= MaxPatterns
      /\ Append(d.body.learned_patterns, pattern) # <<>>
  BY <1>2, DnaAssumption
<1>4. /\ body \in Sealed
      /\ body.learned_patterns = Append(d.body.learned_patterns, pattern)
      /\ body.role = d.body.role /\ body.threat_domains = d.body.threat_domains
      /\ body.spoilt = d.body.spoilt /\ body = [body EXCEPT !.spoilt = body.spoilt]
  BY <1>2, <1>3 DEF Sealed
<1>5. Learned(d, pattern) = [d EXCEPT !.body = body, !.integrity_hash = body]
  BY DEF Learned, Digest
<1> HIDE DEF body
<1>6. /\ Learned(d, pattern) \in BotDNA /\ Learned(d, pattern).body = body
      /\ Learned(d, pattern).integrity_hash = body
  BY <1>1, <1>4, <1>5 DEF BotDNA
<1>7. body.spoilt <= body.spoilt
  BY <1>2, <1>4
<1> QED
  BY <1>3, <1>4, <1>6, <1>7 DEF SealedOnce

\* A changed byte, hashed or not, leaves the seal behind.
LEMMA DecayedSealed ==
    ASSUME NEW d, SealedOnce(d), d.body.spoilt < MaxDecay
    PROVE  \A e \in Spoilt(d) : SealedOnce(e)
<1>1. d \in BotDNA
  BY DEF SealedOnce
<1>2. d.body \in Sealed /\ d.body.spoilt \in 0..MaxDecay /\ d.body.spoilt + 1 \in 0..MaxDecay
  BY <1>1, DnaFields, DnaAssumption
<1> DEFINE body == [d.body EXCEPT !.spoilt = d.body.spoilt + 1]
<1>3. /\ body \in Sealed /\ body.spoilt = d.body.spoilt + 1 /\ body.role = d.body.role
      /\ body.threat_domains = d.body.threat_domains /\ body.magic = d.body.magic
      /\ body.learned_patterns = d.body.learned_patterns
  BY <1>2 DEF Sealed
<1>4. Spoil(d) = [d EXCEPT !.body = body]
  BY <1>1 DEF Spoil, BotDNA
<1>5. /\ Spoil(d) \in BotDNA /\ Spoil(d).body = body
      /\ Spoil(d).integrity_hash = d.integrity_hash
  <2> HIDE DEF body
  <2> QED BY <1>1, <1>3, <1>4 DEF BotDNA
<1>6. \A e \in {Meddle(d)} \cup {Flag(d, healthy) : healthy \in BOOLEAN} :
         e \in BotDNA /\ e.body = d.body /\ e.integrity_hash = d.integrity_hash
  <2>1. /\ Meddle(d) \in BotDNA /\ Meddle(d).body = d.body
        /\ Meddle(d).integrity_hash = d.integrity_hash
    BY <1>1 DEF BotDNA, Meddle
  <2>2. ASSUME NEW h \in BOOLEAN
        PROVE  /\ Flag(d, h) \in BotDNA /\ Flag(d, h).body = d.body
               /\ Flag(d, h).integrity_hash = d.integrity_hash
    BY <1>1 DEF BotDNA, Flag
  <2> QED
    BY <2>1, <2>2
<1>7. ASSUME d.integrity_hash \in Sealed,
             d.body = [d.integrity_hash EXCEPT !.spoilt = d.body.spoilt],
             d.integrity_hash.spoilt <= d.body.spoilt
      PROVE  /\ body = [d.integrity_hash EXCEPT !.spoilt = body.spoilt]
             /\ d.integrity_hash.spoilt <= body.spoilt
  <2>1. d.integrity_hash.spoilt \in 0..MaxDecay
    BY <1>7 DEF Sealed
  <2> QED
    BY <1>2, <1>3, <1>7, <2>1 DEF Sealed
<1> HIDE DEF body
<1>8. SealedOnce(Spoil(d))
  BY <1>3, <1>5, <1>7 DEF SealedOnce
<1>9. \A e \in {Meddle(d)} \cup {Flag(d, healthy) : healthy \in BOOLEAN} : SealedOnce(e)
  BY <1>6 DEF SealedOnce
<1> QED
  BY <1>8, <1>9 DEF Spoilt

\* Every operation keeps what is known of both structures.
LEMMA DnaStep == DnaInv /\ [DnaNext]_dnaVars => DnaInv'
<1> SUFFICES ASSUME DnaInv, [DnaNext]_dnaVars PROVE DnaInv'
  OBVIOUS
<1>1. ASSUME NEW role \in Roles, MakeAgent(role) PROVE DnaInv'
  BY <1>1, FreshSealed, DnaAssumption DEF DnaInv, MakeAgent
<1>2. ASSUME NEW pattern \in Patterns, AddPattern(pattern) PROVE DnaInv'
  BY <1>2, LearnedSealed DEF DnaInv, AddPattern
<1>3. CASE Serialize
  BY <1>3 DEF DnaInv, Serialize
<1>4. CASE Deserialize
  BY <1>4, FreshSealed DEF DnaInv, Deserialize, Restored
<1>5. CASE Decay
  <2>1. CASE /\ dna.body.spoilt < MaxDecay
             /\ dna' \in Spoilt(dna) /\ UNCHANGED backup
    BY <2>1, DecayedSealed DEF DnaInv
  <2>2. CASE /\ backup # NoBackup /\ backup.body.spoilt < MaxDecay
             /\ backup' \in Spoilt(backup) /\ UNCHANGED dna
    BY <2>2, DecayedSealed DEF DnaInv
  <2> QED
    BY <1>5, <2>1, <2>2 DEF Decay
<1>6. CASE UNCHANGED dnaVars
  BY <1>6 DEF DnaInv, dnaVars
<1> QED
  BY <1>1, <1>2, <1>3, <1>4, <1>5, <1>6 DEF DnaNext

\* A structure whose seal is of itself or of its past is what SealSound says.
LEMMA SealFacts ==
    ASSUME NEW d, SealedOnce(d)
    PROVE  /\ Verify(d) => /\ d.body.spoilt = 0 \/ d.body.learned_patterns # <<>>
                           /\ d.body.threat_domains = Domains(d.body.role)
           /\ Verify(d) \/ d.body.spoilt > 0 \/ d.body.magic = FALSE
<1>1. /\ d \in BotDNA /\ d.body \in Sealed
      /\ d.body.magic \in BOOLEAN /\ d.body.spoilt \in 0..MaxDecay
  BY DnaFields DEF SealedOnce
<1>2. CASE d.integrity_hash = NoDigest /\ ~d.body.magic
  BY <1>1, <1>2 DEF Verify
<1>3. CASE /\ d.integrity_hash \in Sealed
           /\ d.body = [d.integrity_hash EXCEPT !.spoilt = d.body.spoilt]
           /\ d.integrity_hash.spoilt <= d.body.spoilt
           /\ d.integrity_hash.spoilt = 0 \/ d.body.learned_patterns # <<>>
  <2>1. d.integrity_hash.spoilt \in 0..MaxDecay
    BY <1>3 DEF Sealed
  <2>2. d.body.spoilt = 0 => d.body = d.integrity_hash
    BY <1>1, <1>3, <2>1 DEF Sealed
  <2>3. d.body.threat_domains = Domains(d.body.role)
    BY DEF SealedOnce
  <2> QED
    BY <1>1, <1>3, <2>1, <2>2, <2>3 DEF Verify, Digest
<1> QED
  BY <1>2, <1>3 DEF SealedOnce

\* bot_dna_verify tells changed bytes before the hash from unchanged ones, on every way
\* through backups; is_healthy and the directives may change in an agent that verifies.
THEOREM DnaSealSound == DnaSpec => []SealSound
<1>1. DnaInit => DnaInv
  BY FreshSealed DEF DnaInit, DnaInv
<1>2. DnaInv => SealSound
  <2> SUFFICES ASSUME DnaInv PROVE SealSound
    OBVIOUS
  <2>1. DnaTypeOK
    BY DEF DnaInv, SealedOnce, DnaTypeOK
  <2>2. \A d \in {dna, backup} \ {NoBackup} : SealedOnce(d)
    BY DEF DnaInv
  <2> QED
    BY <2>1, <2>2, SealFacts DEF SealSound, VerifiedIsIntact, IntactVerifies
<1> QED
  BY <1>1, <1>2, DnaStep, PTL DEF DnaSpec

\* bot_dna_deserialize brings changed bytes in only under a true seal.
THEOREM DnaNotRevived == DnaSpec => SpoiltNeverRestored
<1> DEFINE A == dna'.body.spoilt > dna.body.spoilt => dna' = Spoil(dna) \/ Verify(backup)
<1>1. DnaInit => DnaInv
  BY FreshSealed DEF DnaInit, DnaInv
<1>2. ASSUME DnaInv, [DnaNext]_dnaVars PROVE [A]_dnaVars
  <2>1. dna \in BotDNA /\ dna.body.spoilt \in 0..MaxDecay
    BY <1>2, DnaFields DEF DnaInv, SealedOnce
  <2>2. ASSUME NEW role \in Roles, MakeAgent(role) PROVE A
    BY <2>1, <2>2, DnaAssumption DEF MakeAgent, Made
  <2>3. ASSUME NEW pattern \in Patterns, AddPattern(pattern) PROVE A
    <3>1. dna'.body.spoilt = dna.body.spoilt
      BY <2>1, <2>3 DEF AddPattern, Learned, BotDNA, Sealed
    <3> QED
      BY <2>1, <3>1
  <2>4. CASE Serialize
    BY <2>1, <2>4 DEF Serialize
  <2>5. CASE Deserialize
    BY <2>1, <2>5, DnaAssumption DEF Deserialize, Restored, Zeroed
  <2>6. CASE Decay
    <3>1. Meddle(dna).body = dna.body /\ \A h \in BOOLEAN : Flag(dna, h).body = dna.body
      BY <2>1 DEF Meddle, Flag, BotDNA
    <3> QED
      BY <2>1, <2>6, <3>1 DEF Decay, Spoilt
  <2> QED
    BY <1>2, <2>2, <2>3, <2>4, <2>5, <2>6 DEF DnaNext
<1> QED
  BY <1>1, <1>2, DnaStep, PTL DEF DnaSpec, SpoiltNeverRestored

----------------------------------------------------------------------------
(* The instinct layer *)

\* A set of levels that is not empty has a greatest one.
LEMMA MaxLevel ==
    ASSUME NEW S \in SUBSET Levels, S # {}
    PROVE  Max(S) \in S /\ \A x \in S : x <= Max(S)
<1>1. \E x \in S : \A y \in S : x >= y
  <2>1. S \subseteq 0..5 /\ S # {}
    BY DEF Levels, DORMANT, CONFINEMENT
  <2>2. \A x \in S : x = 0 \/ x = 1 \/ x = 2 \/ x = 3 \/ x = 4 \/ x = 5
    BY <2>1
  <2>3. CASE 5 \in S
    BY <2>2, <2>3
  <2>4. CASE 5 \notin S /\ 4 \in S
    BY <2>2, <2>4
  <2>5. CASE 5 \notin S /\ 4 \notin S /\ 3 \in S
    BY <2>2, <2>5
  <2>6. CASE 5 \notin S /\ 4 \notin S /\ 3 \notin S /\ 2 \in S
    BY <2>2, <2>6
  <2>7. CASE S \subseteq {0, 1}
    <3>1. CASE 1 \in S
      BY <2>7, <3>1
    <3>2. CASE 1 \notin S
      <4>1. S = {0}
        BY <2>1, <2>7, <3>2
      <4> QED
        BY <4>1
    <3> QED
      BY <3>1, <3>2
  <2>8. \/ 5 \in S \/ 4 \in S \/ 3 \in S \/ 2 \in S \/ S \subseteq {0, 1}
    BY <2>2
  <2> QED
    BY <2>3, <2>4, <2>5, <2>6, <2>7, <2>8
<1>2. Max(S) \in S /\ \A y \in S : Max(S) >= y
  BY <1>1 DEF Max
<1>3. Levels \subseteq Nat
  BY DEF Levels, DORMANT, CONFINEMENT
<1> QED
  BY <1>2, <1>3

\* The smaller of two numbers.
LEMMA MinOfTwo ==
    ASSUME NEW a \in Nat, NEW b \in Nat
    PROVE  Min({a, b}) = IF a <= b THEN a ELSE b
<1>1. \E x \in {a, b} : \A y \in {a, b} : x <= y
  OBVIOUS
<1>2. Min({a, b}) \in {a, b} /\ \A y \in {a, b} : Min({a, b}) <= y
  BY <1>1 DEF Min
<1> QED
  BY <1>2

\* The table: levels it asks for, levels it starts at, reactions it gives.
LEMMA RuleFields ==
    ASSUME NEW r \in INSTINCT_RULES
    PROVE  r[2] \in 0..4 /\ r[4] \in ReactionType /\ r[5] \in 1..4
<1>1. r[2] \in 0..4 /\ r[5] \in 1..4
  BY DEF INSTINCT_RULES, VIGILANCE, ALERT, COMBAT, SURVIVAL
<1>2. r[4] \in ReactionType
  BY DEF INSTINCT_RULES, ReactionType
<1> QED
  BY <1>1, <1>2

\* The matrix of threat_levels.h, pair by pair.
Leads(from, to) ==
    /\ from = 0 => to = 1
    /\ from = 1 => to \in {0, 2}
    /\ from = 2 => to \in {1, 3}
    /\ from = 3 => to \in {0, 2, 4, 5}
    /\ from = 4 => to \in {3, 5}
    /\ from = 5 => to = 4

\* The matrix and the pairs are the same relation.
LEMMA MatrixRows ==
    /\ Levels = 0..5
    /\ \A from, to \in Levels :
          /\ TransitionIsValid(from, to) <=> Leads(from, to)
          /\ to \in TRANSITION_MATRIX[from + 1] <=> Leads(from, to)
<1>1. Levels = 0..5
  BY DEF Levels, DORMANT, CONFINEMENT
<1> SUFFICES ASSUME NEW from \in 0..5, NEW to \in 0..5
             PROVE  /\ TransitionIsValid(from, to) <=> Leads(from, to)
                    /\ to \in TRANSITION_MATRIX[from + 1] <=> Leads(from, to)
  BY <1>1
<1>2. /\ TRANSITION_MATRIX[0 + 1] = {1} /\ TRANSITION_MATRIX[1 + 1] = {0, 2}
      /\ TRANSITION_MATRIX[2 + 1] = {1, 3} /\ TRANSITION_MATRIX[3 + 1] = {0, 2, 4, 5}
      /\ TRANSITION_MATRIX[4 + 1] = {3, 5} /\ TRANSITION_MATRIX[5 + 1] = {4}
  BY DEF TRANSITION_MATRIX, DORMANT, VIGILANCE, ALERT, COMBAT, SURVIVAL, CONFINEMENT
<1>3. TransitionIsValid(from, to) <=> to \in TRANSITION_MATRIX[from + 1]
  BY <1>1 DEF TransitionIsValid
<1>4. CASE from = 0
  BY <1>2, <1>3, <1>4 DEF Leads
<1>5. CASE from = 1
  BY <1>2, <1>3, <1>5 DEF Leads
<1>6. CASE from = 2
  BY <1>2, <1>3, <1>6 DEF Leads
<1>7. CASE from = 3
  BY <1>2, <1>3, <1>7 DEF Leads
<1>8. CASE from = 4
  BY <1>2, <1>3, <1>8 DEF Leads
<1>9. CASE from = 5
  BY <1>2, <1>3, <1>9 DEF Leads
<1> QED
  BY <1>4, <1>5, <1>6, <1>7, <1>8, <1>9

\* What the table asks for is a level no lower than the present one, and CONFINEMENT
\* only for a layer that is there.
LEMMA RecommendedLevel ==
    ASSUME NEW t, NEW l \in Levels, NEW c
    PROVE  /\ Recommended(t, l, c) \in Levels /\ Recommended(t, l, c) >= l
           /\ Recommended(t, l, c) = l \/ Recommended(t, l, c) <= 4
<1> DEFINE S == {l} \cup {r[5] : r \in Matching(t, l, c)}
<1>1. \A x \in S : x = l \/ x \in 1..4
  <2>1. \A r \in Matching(t, l, c) : r[5] \in 1..4
    BY RuleFields DEF Matching
  <2> QED
    BY <2>1
<1>2. l \in S /\ Levels = 0..5
  BY DEF Levels, DORMANT, CONFINEMENT
<1>3. Recommended(t, l, c) = Max(S)
  BY DEF Recommended
<1> HIDE DEF S
<1>4. S \in SUBSET Levels /\ S # {}
  BY <1>1, <1>2
<1>5. Max(S) \in S /\ l <= Max(S)
  BY <1>2, <1>4, MaxLevel
<1> DEFINE m == Max(S)
<1>6. (m = l \/ m \in 1..4) /\ l <= m
  BY <1>1, <1>5
<1> HIDE DEF m
<1>7. m \in Levels /\ m >= l /\ (m = l \/ m <= 4)
  BY <1>2, <1>6
<1> QED
  BY <1>3, <1>7 DEF m

\* The reaction is one of the table or the default.
LEMMA ReactionIsOne ==
    ASSUME NEW t, NEW l \in Levels, NEW c
    PROVE  GetReaction(t, l, c) \in ReactionType
<1> DEFINE M == Matching(t, l, c)
<1>1. CASE M = {}
  BY <1>1 DEF GetReaction, ReactionType
<1>2. CASE M # {}
  <2>1. \A r \in M : r \in INSTINCT_RULES /\ r[2] \in 0..4
    BY RuleFields DEF Matching
  <2> HIDE DEF M
  <2>2. \E r \in M : \A q \in M : r[2] <= q[2]
    <3>1. CASE \E r \in M : r[2] = 0
      BY <2>1, <3>1
    <3>2. CASE (\A r \in M : r[2] # 0) /\ \E r \in M : r[2] = 1
      BY <2>1, <3>2
    <3>3. CASE (\A r \in M : r[2] \notin 0..1) /\ \E r \in M : r[2] = 2
      BY <2>1, <3>3
    <3>4. CASE (\A r \in M : r[2] \notin 0..2) /\ \E r \in M : r[2] = 3
      BY <2>1, <3>4
    <3>5. CASE \A r \in M : r[2] \notin 0..3
      <4>1. \A r \in M : r[2] = 4
        BY <2>1, <3>5
      <4> QED
        BY <1>2, <4>1
    <3> QED
      BY <2>1, <3>1, <3>2, <3>3, <3>4, <3>5
  <2>3. (CHOOSE r \in M : \A q \in M : r[2] <= q[2]) \in M
    BY <2>2
  <2>4. GetReaction(t, l, c) = (CHOOSE r \in M : \A q \in M : r[2] <= q[2])[4]
    BY <1>2 DEF GetReaction, M
  <2> QED
    BY <2>1, <2>3, <2>4, RuleFields
<1> QED
  BY <1>1, <1>2

\* A transition changes the level only along the matrix, and counts the entry.
LEMMA TransitionEffect ==
    ASSUME NEW s \in ThreatState, NEW l
    PROVE  \/ Transition(s, l) = s
           \/ /\ l \in Levels /\ l # s.current_level
              /\ TransitionIsValid(s.current_level, l)
              /\ Transition(s, l) =
                   [current_level     |-> l,
                    previous_level    |-> s.current_level,
                    transition_count  |-> s.transition_count + 1,
                    entries_per_level |-> [s.entries_per_level EXCEPT ![l] = @ + 1]]
BY DEF Transition

\* A transition keeps the type of the state.
LEMMA TransitionType ==
    ASSUME NEW s \in ThreatState, NEW l
    PROVE  Transition(s, l) \in ThreatState
<1>1. CASE Transition(s, l) = s
  BY <1>1
<1>2. CASE Transition(s, l) # s
  <2>1. /\ l \in Levels
        /\ Transition(s, l) =
                   [current_level     |-> l,
                    previous_level    |-> s.current_level,
                    transition_count  |-> s.transition_count + 1,
                    entries_per_level |-> [s.entries_per_level EXCEPT ![l] = @ + 1]]
    BY <1>2, TransitionEffect
  <2>2. [s.entries_per_level EXCEPT ![l] = @ + 1] \in [Levels -> Nat]
    BY <2>1 DEF ThreatState
  <2> HIDE DEF Transition
  <2> QED
    BY <2>1, <2>2 DEF ThreatState
<1> QED
  BY <1>1, <1>2

\* The record of what happened: an event for each of the last triggers, in the slot its
\* number gives, and a head that has the slot of the next one.
Kept ==
    /\ history_count = IF total_triggers <= HistorySize THEN total_triggers ELSE HistorySize
    /\ history_head % HistorySize = total_triggers % HistorySize
    /\ \A t \in (total_triggers - history_count)..(total_triggers - 1) :
          /\ history[t % HistorySize] \in InstinctEvent
          /\ history[t % HistorySize].timestamp = t

InstinctInv == InstinctTypeOK /\ Kept

\* instinct_init leaves an empty record.
LEMMA InstinctInitInv == InstinctInit => InstinctInv
<1> SUFFICES ASSUME InstinctInit PROVE InstinctInv
  OBVIOUS
<1>1. threat_state \in ThreatState
  BY DEF InstinctInit, ThreatStateInit, ThreatState, Levels, DORMANT, CONFINEMENT
<1>2. InstinctTypeOK
  BY <1>1, InstinctAssumption
  DEF InstinctInit, InstinctTypeOK, Levels, DORMANT, CONFINEMENT
<1>3. Kept
  BY InstinctAssumption DEF InstinctInit, Kept
<1> QED
  BY <1>2, <1>3 DEF InstinctInv

\* A trigger fills the next slot of the ring and drops the oldest event at most.
LEMMA TriggerKept ==
    ASSUME InstinctInv, NEW t \in Triggers, NEW c \in Confidences, Trigger(t, c)
    PROVE  InstinctInv'
<1> DEFINE n == HistorySize
           reaction  == GetReaction(t, Level, c)
           new_level == Recommended(t, Level, c)
           event == [trigger |-> t, timestamp |-> total_triggers, confidence |-> c,
                     reaction_taken |-> reaction, threat_level_before |-> Level,
                     threat_level_after |-> new_level]
<1>1. /\ threat_state \in ThreatState /\ Level \in Levels
      /\ total_triggers \in Nat /\ total_reactions \in Nat
      /\ history_count \in 0..n /\ history_head \in 0..(HeadWord - 1)
  BY DEF InstinctInv, InstinctTypeOK, ThreatState, Level
<1>2. n \in Nat \ {0} /\ HeadWord \in Nat \ {0} /\ HeadWord % n = 0
  BY InstinctAssumption
<1>3. event \in InstinctEvent /\ event.timestamp = total_triggers
  <2>1. t \in TriggerType /\ c \in 0..100
    BY InstinctAssumption
  <2>2. reaction \in ReactionType /\ new_level \in Levels
    BY <1>1, ReactionIsOne, RecommendedLevel
  <2> HIDE DEF reaction, new_level
  <2> QED
    BY <1>1, <2>1, <2>2 DEF InstinctEvent
<1>4. history' = [history EXCEPT ![history_head % n] = event]
  BY DEF Trigger, Slot
<1>5. history_head % n \in 0..(n - 1)
  BY <1>1, <1>2
<1>6. /\ history_head' = (history_head + 1) % HeadWord
      /\ history_count' = IF history_count < n THEN history_count + 1 ELSE history_count
      /\ total_triggers' = total_triggers + 1 /\ total_reactions' = total_reactions + 1
      /\ threat_state' = Transition(threat_state, new_level)
      /\ called' = Call(reaction, new_level)
  BY DEF Trigger, Counted
<1>7. InstinctTypeOK'
  <2>1. threat_state' \in ThreatState
    BY <1>1, <1>6, TransitionType
  <2>2. history' \in [0..(n - 1) -> InstinctEvent \cup {Blank}]
    <3> HIDE DEF event
    <3> QED
      BY <1>3, <1>4, <1>5 DEF InstinctInv, InstinctTypeOK
  <2>3. history_head' \in 0..(HeadWord - 1) /\ history_count' \in 0..n
    BY <1>1, <1>2, <1>6
  <2>4. /\ called'.callback \in CallbackType \cup {NoCallback}
        /\ called'.level \in Levels
    <3>1. new_level \in Levels
      BY <1>1, RecommendedLevel
    <3>2. called'.level = new_level
      BY <1>6 DEF Call
    <3>3. called'.callback \in Wired \cup {NoCallback}
      BY <1>6 DEF Call
    <3> QED
      BY <3>1, <3>2, <3>3, InstinctAssumption
  <2> QED
    BY <1>1, <1>6, <2>1, <2>2, <2>3, <2>4 DEF InstinctTypeOK
<1> HIDE DEF event, new_level, reaction
<1>8. Kept'
  <2>1. history_count' = IF total_triggers' <= n THEN total_triggers' ELSE n
    BY <1>1, <1>2, <1>6 DEF InstinctInv, Kept
  <2>2. history_head' % n = total_triggers' % n
    <3>1. history_head' % n = (history_head + 1) % n
      <4>1. history_head + 1 \in Int
        BY <1>1
      <4> QED
        BY <1>2, <1>6, <4>1, ModMod, Zenon
    <3>2. history_head % n = total_triggers % n
      BY DEF InstinctInv, Kept
    <3>3. (history_head + 1) % n = (total_triggers + 1) % n
      <4>1. history_head \in Int /\ total_triggers \in Int /\ 1 \in Int
        BY <1>1
      <4> QED
        BY <1>2, <3>2, <4>1, ModCongruent, Zenon
    <3> QED
      BY <1>6, <3>1, <3>3
  <2>3. ASSUME NEW u \in (total_triggers' - history_count')..(total_triggers' - 1)
        PROVE  history'[u % n] \in InstinctEvent /\ history'[u % n].timestamp = u
    <3>1. u \in Int /\ u % n \in 0..(n - 1) /\ u >= 0
      BY <1>1, <1>2, <1>6, <2>1
    <3>2. history \in [0..(n - 1) -> InstinctEvent \cup {Blank}]
      BY DEF InstinctInv, InstinctTypeOK
    <3>3. CASE u = total_triggers
      <4>1. u % n = history_head % n
        BY <3>3 DEF InstinctInv, Kept
      <4>2. history'[u % n] = event
        BY <1>4, <1>5, <3>2, <4>1
      <4> QED
        BY <1>3, <3>3, <4>2
    <3>4. CASE u # total_triggers
      <4>1. u < total_triggers /\ total_triggers < u + n
        BY <1>1, <1>2, <1>6, <2>1, <3>1, <3>4 DEF InstinctInv, Kept
      <4>2. u % n # total_triggers % n
        <5>1. u \in Int /\ total_triggers \in Int
          BY <1>1, <3>1
        <5> QED
          BY <1>2, <4>1, <5>1, ModDistinct, Zenon
      <4>3. history'[u % n] = history[u % n]
        BY <1>4, <3>1, <3>2, <4>2 DEF InstinctInv, Kept
      <4>4. u \in (total_triggers - history_count)..(total_triggers - 1)
        BY <1>1, <1>2, <1>6, <3>1, <4>1 DEF InstinctInv, Kept
      <4> QED
        BY <4>3, <4>4 DEF InstinctInv, Kept
    <3> QED
      BY <3>3, <3>4
  <2> QED
    BY <2>1, <2>2, <2>3 DEF Kept
<1> QED
  BY <1>7, <1>8 DEF InstinctInv

\* Every step of the layer keeps its record.
LEMMA InstinctStep == InstinctInv /\ [InstinctNext]_instinctVars => InstinctInv'
<1> SUFFICES ASSUME InstinctInv, [InstinctNext]_instinctVars PROVE InstinctInv'
  OBVIOUS
<1>1. ASSUME NEW t \in Triggers, NEW c \in Confidences, Trigger(t, c) PROVE InstinctInv'
  BY <1>1, TriggerKept
<1>2. ASSUME NEW l, threat_state' = Transition(threat_state, l),
             UNCHANGED <<history, history_head, history_count, total_triggers,
                         total_reactions, called>>
      PROVE  InstinctInv'
  <2>1. threat_state' \in ThreatState
    BY <1>2, TransitionType DEF InstinctInv, InstinctTypeOK
  <2> QED
    BY <1>2, <2>1 DEF InstinctInv, InstinctTypeOK, Kept
<1>3. CASE UNCHANGED instinctVars
  BY <1>3 DEF InstinctInv, InstinctTypeOK, Kept, instinctVars
<1> QED
  BY <1>1, <1>2, <1>3 DEF InstinctNext, ResetToDormant, Order

\* The ring and its 32-bit head: the dump of the history is the last triggers in order.
THEOREM InstinctRecord == InstinctSpec => []RecordSound
<1>1. InstinctInv => RecordSound
  <2> SUFFICES ASSUME InstinctInv PROVE HistoryInOrder
    BY DEF InstinctInv, RecordSound
  <2> DEFINE n == HistorySize
  <2>1. /\ n \in Nat \ {0} /\ HeadWord \in Nat \ {0} /\ HeadWord % n = 0
        /\ total_triggers \in Nat /\ history_count \in 0..n
        /\ history_head \in 0..(HeadWord - 1)
    BY InstinctAssumption DEF InstinctInv, InstinctTypeOK
  <2>2. history_count = Min({total_triggers, n})
    BY <2>1, MinOfTwo DEF InstinctInv, Kept
  <2>3. ASSUME NEW i \in 0..(history_count - 1)
        PROVE  SlotBack(i) = (total_triggers - 1 - i) % n
    <3> DEFINE x == history_head + HeadWord - 1 - i + n
               k == HeadWord \div n
               a == total_triggers - 1 - i
               c == n * (k + 1)
    <3>1. x \in Int /\ a \in Int
      BY <2>1
    <3>2. k \in Int /\ HeadWord = n * k
      BY <2>1
    <3>3. SlotBack(i) = (x % HeadWord) % n
      BY DEF SlotBack
    <3>4. n * (k + 1) = n * k + n /\ c \in Int /\ k + 1 \in Int
      BY <2>1, <3>2
    <3> DEFINE b == history_head - 1 - i
    <3>5. b \in Int /\ x = b + c
      BY <2>1, <3>2, <3>4
    <3>6. b % n = a % n
      <4> DEFINE d == 0 - 1 - i
      <4>1. history_head \in Int /\ total_triggers \in Int /\ d \in Int
        BY <2>1
      <4>2. b = history_head + d /\ a = total_triggers + d
        BY <2>1
      <4> HIDE DEF d, a, b
      <4>3. history_head % n = total_triggers % n
        BY DEF InstinctInv, Kept
      <4>4. n \in Nat \ {0}
        BY <2>1
      <4> HIDE DEF n
      <4>5. (history_head + d) % n = (total_triggers + d) % n
        BY <4>1, <4>3, <4>4, ModCongruent, Zenon
      <4> QED
        BY <4>2, <4>5
    <3> HIDE DEF x, a, b, k
    <3>7. (x % HeadWord) % n = x % n
      BY <2>1, <3>1, ModMod, Zenon
    <3>8. x % n = b % n
      <4>1. (b + n * (k + 1)) % n = b % n
        BY <2>1, <3>4, <3>5, ModPlus, Zenon
      <4> QED
        BY <3>5, <4>1
    <3> QED
      BY <3>3, <3>6, <3>7, <3>8 DEF a
  <2>4. ASSUME NEW i \in 0..(history_count - 1)
        PROVE  /\ history[SlotBack(i)] \in InstinctEvent
               /\ history[SlotBack(i)].timestamp = total_triggers - 1 - i
    <3>1. /\ total_triggers - 1 - i \in (total_triggers - history_count)..(total_triggers - 1)
      BY <2>1
    <3> QED
      BY <2>3, <3>1 DEF InstinctInv, Kept
  <2>5. Blank \notin InstinctEvent
    <3>1. \A e \in InstinctEvent : "trigger" \in DOMAIN e
      BY DEF InstinctEvent
    <3>2. "trigger" \notin DOMAIN Blank
      BY DEF Blank
    <3> QED
      BY <3>1, <3>2
  <2>6. ASSUME NEW i \in 1..history_count
        PROVE  /\ DumpHistory(n)[i] # Blank
               /\ DumpHistory(n)[i].timestamp = total_triggers - i
    <3>1. Min({n, history_count}) = history_count
      BY <2>1, MinOfTwo
    <3>2. DumpHistory(n)[i] = history[SlotBack(i - 1)]
      BY <3>1 DEF DumpHistory
    <3>3. i - 1 \in 0..(history_count - 1) /\ total_triggers - 1 - (i - 1) = total_triggers - i
      BY <2>1
    <3> QED
      BY <2>4, <2>5, <3>2, <3>3
  <2>7. history_count > 0 => LastEvent.timestamp = total_triggers - 1
    <3> SUFFICES ASSUME history_count > 0 PROVE LastEvent.timestamp = total_triggers - 1
      OBVIOUS
    <3>1. 0 \in 0..(history_count - 1) /\ total_triggers - 1 - 0 = total_triggers - 1
      BY <2>1
    <3> QED
      BY <2>4, <3>1 DEF LastEvent
  <2> QED
    BY <2>2, <2>6, <2>7 DEF HistoryInOrder
<1> QED
  BY <1>1, InstinctInitInv, InstinctStep, PTL DEF InstinctSpec

----------------------------------------------------------------------------
\* The entries of the levels, pair by pair of the matrix, with the level that is left
\* next counted once: a level is entered as often as the levels that lead to it are left
\* for it at most.
Balanced(e, k) ==
    LET here(S) == IF k \in S THEN 1 ELSE 0
    IN  /\ e[0] + here({1, 3}) <= e[1] + e[3]
        /\ e[1] + here({0, 2}) <= e[0] + e[2] + 1
        /\ e[2] + here({1, 3}) <= e[1] + e[3]
        /\ e[3] + here({2, 4}) <= e[2] + e[4]
        /\ e[4] + here({3, 5}) <= e[3] + e[5]
        /\ e[5] + here({3, 4}) <= e[3] + e[4]
        /\ e[k] = 0 => k = 0

FlowInv ==
    LET e == threat_state.entries_per_level
    IN  /\ InstinctInv
        /\ threat_state.transition_count = e[0] + e[1] + e[2] + e[3] + e[4] + e[5]
        /\ Balanced(e, Level)

\* Taking a transition of the matrix keeps the balance and counts one entry.
LEMMA TransitionBalanced ==
    ASSUME NEW e \in [Levels -> Nat], NEW k \in Levels, NEW m \in Levels,
           TransitionIsValid(k, m), Balanced(e, k)
    PROVE  LET f == [e EXCEPT ![m] = @ + 1]
           IN  /\ Balanced(f, m)
               /\ f[0] + f[1] + f[2] + f[3] + f[4] + f[5]
                     = e[0] + e[1] + e[2] + e[3] + e[4] + e[5] + 1
<1> DEFINE f == [e EXCEPT ![m] = @ + 1]
<1>1. Levels = 0..5
  BY DEF Levels, DORMANT, CONFINEMENT
<1>2. /\ e[0] \in Nat /\ e[1] \in Nat /\ e[2] \in Nat /\ e[3] \in Nat /\ e[4] \in Nat
      /\ e[5] \in Nat
  BY <1>1
<1>3. \A l \in Levels : f[l] = IF l = m THEN e[l] + 1 ELSE e[l]
  OBVIOUS
<1> HIDE DEF f
<1>4. /\ f[0] = IF 0 = m THEN e[0] + 1 ELSE e[0]
      /\ f[1] = IF 1 = m THEN e[1] + 1 ELSE e[1]
      /\ f[2] = IF 2 = m THEN e[2] + 1 ELSE e[2]
      /\ f[3] = IF 3 = m THEN e[3] + 1 ELSE e[3]
      /\ f[4] = IF 4 = m THEN e[4] + 1 ELSE e[4]
      /\ f[5] = IF 5 = m THEN e[5] + 1 ELSE e[5]
  BY <1>1, <1>3
<1>5. Leads(k, m) /\ (k = 0 \/ k = 1 \/ k = 2 \/ k = 3 \/ k = 4 \/ k = 5)
  BY <1>1, MatrixRows
<1>6. Balanced(f, m)
  BY <1>2, <1>4, <1>5 DEF Balanced, Leads
<1>7. f[0] + f[1] + f[2] + f[3] + f[4] + f[5] = e[0] + e[1] + e[2] + e[3] + e[4] + e[5] + 1
  BY <1>2, <1>4, <1>5 DEF Leads
<1> QED
  BY <1>6, <1>7 DEF f

\* The levels that lead to each level.
LEMMA BeforeLevels ==
    /\ Before(0) = {1, 3} /\ Before(1) = {0, 2} /\ Before(2) = {1, 3}
    /\ Before(3) = {2, 4} /\ Before(4) = {3, 5} /\ Before(5) = {3, 4}
<1>1. Levels = 0..5
  BY DEF Levels, DORMANT, CONFINEMENT
<1>2. \A k, l \in 0..5 : k \in Before(l) <=> Leads(k, l)
  BY <1>1, MatrixRows DEF Before
<1>3. \A l \in 0..5 : Before(l) \subseteq 0..5
  BY <1>1 DEF Before
<1> HIDE DEF Before
<1> QED
  BY <1>2, <1>3 DEF Leads

\* Every transition leaves a level that was entered before.
LEMMA FlowStep == FlowInv /\ [InstinctNext]_instinctVars => FlowInv'
<1> SUFFICES ASSUME FlowInv, [InstinctNext]_instinctVars PROVE FlowInv'
  OBVIOUS
<1>1. InstinctInv'
  BY InstinctStep DEF FlowInv
<1>2. ASSUME NEW l, threat_state' = Transition(threat_state, l) PROVE FlowInv'
  <2>1. threat_state \in ThreatState
    BY DEF FlowInv, InstinctInv, InstinctTypeOK
  <2>2. CASE Transition(threat_state, l) = threat_state
    BY <1>1, <1>2, <2>2 DEF FlowInv, Level
  <2>3. CASE Transition(threat_state, l) # threat_state
    <3> DEFINE e == threat_state.entries_per_level
    <3>1. /\ l \in Levels /\ TransitionIsValid(Level, l)
          /\ threat_state'.current_level = l
          /\ threat_state'.transition_count = threat_state.transition_count + 1
          /\ threat_state'.entries_per_level = [e EXCEPT ![l] = @ + 1]
      BY <1>2, <2>1, <2>3, TransitionEffect DEF Level
    <3>2. e \in [Levels -> Nat] /\ Level \in Levels /\ Balanced(e, Level)
      BY <2>1 DEF FlowInv, ThreatState, Level
    <3> QED
      BY <1>1, <3>1, <3>2, TransitionBalanced DEF FlowInv, Level
  <2> QED
    BY <2>2, <2>3
<1>3. CASE UNCHANGED instinctVars
  BY <1>1, <1>3 DEF FlowInv, Level, instinctVars
<1>4. ASSUME NEW t \in Triggers, NEW c \in Confidences, Trigger(t, c) PROVE FlowInv'
  BY <1>2, <1>4 DEF Trigger
<1> QED
  BY <1>2, <1>3, <1>4 DEF InstinctNext, ResetToDormant, Order

\* Entries into a level come from entries into the levels that lead to it.
THEOREM InstinctFlow == InstinctSpec => []EntriesFlow
<1>1. InstinctInit => FlowInv
  <2> SUFFICES ASSUME InstinctInit PROVE FlowInv
    OBVIOUS
  <2>1. Levels = 0..5
    BY DEF Levels, DORMANT, CONFINEMENT
  <2>2. /\ threat_state.entries_per_level = [l \in Levels |-> 0]
        /\ threat_state.transition_count = 0 /\ Level = 0
    BY DEF InstinctInit, ThreatStateInit, Level, DORMANT
  <2> QED
    BY <2>1, <2>2, InstinctInitInv DEF FlowInv, Balanced
<1>2. FlowInv => EntriesFlow
  <2> SUFFICES ASSUME FlowInv PROVE EntriesFlow
    OBVIOUS
  <2> DEFINE e == threat_state.entries_per_level
  <2>1. Levels = 0..5 /\ e \in [Levels -> Nat] /\ Level \in Levels
    BY DEF FlowInv, InstinctInv, InstinctTypeOK, ThreatState, Level, Levels, DORMANT,
           CONFINEMENT
  <2>2. threat_state.transition_count = Entered(Levels)
    BY <2>1 DEF FlowInv, Entered
  <2>3. ASSUME NEW l \in Levels
        PROVE  e[l] <= Entered(Before(l)) + (IF DORMANT \in Before(l) THEN 1 ELSE 0)
    <3>1. /\ e[0] \in Nat /\ e[1] \in Nat /\ e[2] \in Nat /\ e[3] \in Nat /\ e[4] \in Nat
          /\ e[5] \in Nat
      BY <2>1
    <3> HIDE DEF e
    <3>2. /\ Entered({1, 3}) = e[1] + e[3] /\ Entered({0, 2}) = e[0] + e[2]
          /\ Entered({2, 4}) = e[2] + e[4] /\ Entered({3, 5}) = e[3] + e[5]
          /\ Entered({3, 4}) = e[3] + e[4]
      BY <3>1 DEF Entered, e
    <3>3. Balanced(e, Level)
      BY DEF FlowInv, e
    <3>4. /\ e[0] <= e[1] + e[3] /\ e[1] <= e[0] + e[2] + 1 /\ e[2] <= e[1] + e[3]
          /\ e[3] <= e[2] + e[4] /\ e[4] <= e[3] + e[5] /\ e[5] <= e[3] + e[4]
      BY <3>1, <3>3 DEF Balanced
    <3>5. l = 0 \/ l = 1 \/ l = 2 \/ l = 3 \/ l = 4 \/ l = 5
      BY <2>1
    <3> HIDE DEF Entered, Before
    <3>7. CASE l = 0
      <4>1. Before(l) = {1, 3} /\ DORMANT \notin Before(l)
        BY <3>7, BeforeLevels DEF DORMANT
      <4>2. Entered(Before(l)) = e[1] + e[3] /\ e[l] = e[0]
        BY <3>2, <3>7, <4>1
      <4>3. (IF DORMANT \in Before(l) THEN 1 ELSE 0) = 0
        BY <4>1
      <4> QED
        BY <3>1, <3>4, <4>2, <4>3
    <3>8. CASE l = 1
      BY <3>1, <3>2, <3>4, <3>8, BeforeLevels DEF DORMANT
    <3>9. CASE l = 2
      <4>1. Before(l) = {1, 3} /\ DORMANT \notin Before(l)
        BY <3>9, BeforeLevels DEF DORMANT
      <4>2. Entered(Before(l)) = e[1] + e[3] /\ e[l] = e[2]
        BY <3>2, <3>9, <4>1
      <4>3. (IF DORMANT \in Before(l) THEN 1 ELSE 0) = 0
        BY <4>1
      <4> QED
        BY <3>1, <3>4, <4>2, <4>3
    <3>10. CASE l = 3
      <4>1. Before(l) = {2, 4} /\ DORMANT \notin Before(l)
        BY <3>10, BeforeLevels DEF DORMANT
      <4>2. Entered(Before(l)) = e[2] + e[4] /\ e[l] = e[3]
        BY <3>2, <3>10, <4>1
      <4>3. (IF DORMANT \in Before(l) THEN 1 ELSE 0) = 0
        BY <4>1
      <4> QED
        BY <3>1, <3>4, <4>2, <4>3
    <3>11. CASE l = 4
      <4>1. Before(l) = {3, 5} /\ DORMANT \notin Before(l)
        BY <3>11, BeforeLevels DEF DORMANT
      <4>2. Entered(Before(l)) = e[3] + e[5] /\ e[l] = e[4]
        BY <3>2, <3>11, <4>1
      <4>3. (IF DORMANT \in Before(l) THEN 1 ELSE 0) = 0
        BY <4>1
      <4> QED
        BY <3>1, <3>4, <4>2, <4>3
    <3>12. CASE l = 5
      <4>1. Before(l) = {3, 4} /\ DORMANT \notin Before(l)
        BY <3>12, BeforeLevels DEF DORMANT
      <4>2. Entered(Before(l)) = e[3] + e[4] /\ e[l] = e[5]
        BY <3>2, <3>12, <4>1
      <4>3. (IF DORMANT \in Before(l) THEN 1 ELSE 0) = 0
        BY <4>1
      <4> QED
        BY <3>1, <3>4, <4>2, <4>3
    <3> QED
      BY <3>5, <3>7, <3>8, <3>9, <3>10, <3>11, <3>12
  <2>4. e[Level] = 0 => Level = DORMANT
    BY DEF FlowInv, Balanced, DORMANT
  <2> QED
    BY <2>2, <2>3, <2>4 DEF EntriesFlow
<1> QED
  BY <1>1, <1>2, FlowStep, PTL DEF InstinctSpec

\* The level climbs one step at a time, except out of COMBAT, and what a trigger asks for
\* is at least what it gets.
THEOREM InstinctClimbs == InstinctSpec => TriggersRaise
<1> DEFINE A == /\ Level' > Level + 1 => Level = COMBAT
                /\ total_triggers' # total_triggers =>
                     /\ Level' \in {Level, Level + 1}
                     /\ Level' = CONFINEMENT => Level = CONFINEMENT
                     /\ called'.callback = "on_swarm_alert" => called'.level >= Level'
<1>1. ASSUME InstinctInv, [InstinctNext]_instinctVars PROVE [A]_instinctVars
  <2>1. threat_state \in ThreatState /\ Level \in Levels /\ Levels = 0..5
    BY <1>1 DEF InstinctInv, InstinctTypeOK, ThreatState, Level, Levels, DORMANT, CONFINEMENT
  <2>2. ASSUME NEW l, threat_state' = Transition(threat_state, l)
        PROVE  Level' = Level \/ (Level' = l /\ Leads(Level, l))
    <3>1. CASE Transition(threat_state, l) = threat_state
      BY <2>2, <3>1 DEF Level
    <3>2. CASE Transition(threat_state, l) # threat_state
      <4>1. l \in Levels /\ TransitionIsValid(Level, l) /\ Level' = l
        BY <2>1, <2>2, <3>2, TransitionEffect DEF Level
      <4> QED
        BY <2>1, <4>1, MatrixRows
    <3> QED
      BY <3>1, <3>2
  <2>3. ASSUME NEW t \in Triggers, NEW c \in Confidences, Trigger(t, c) PROVE A
    <3> DEFINE m == Recommended(t, Level, c)
    <3>1. threat_state' = Transition(threat_state, m) /\ called'.level = m
      BY <2>3 DEF Trigger, Call
    <3>2. m \in Levels /\ m >= Level /\ (m = Level \/ m <= 4)
      BY <2>1, RecommendedLevel
    <3> HIDE DEF m
    <3> QED
      BY <2>1, <2>2, <3>1, <3>2 DEF COMBAT, CONFINEMENT, Leads
  <2>4. ASSUME NEW l, threat_state' = Transition(threat_state, l),
               total_triggers' = total_triggers
        PROVE  A
    BY <2>1, <2>2, <2>4 DEF COMBAT, Leads
  <2> QED
    BY <1>1, <2>3, <2>4 DEF InstinctNext, ResetToDormant, Order
<1> QED
  BY <1>1, InstinctInitInv, InstinctStep, PTL DEF InstinctSpec, TriggersRaise

----------------------------------------------------------------------------
(* The territory *)

\* The search of a pool: the index of an element that fits, or 0 when none does.
LEMMA SearchProcess ==
    ASSUME processes \in Seq(MappedProcess), NEW pid
    PROVE  LET i == ProcessIndex(pid)
           IN  \/ i = 0 /\ \A j \in DOMAIN processes : processes[j].pid # pid
               \/ i \in DOMAIN processes /\ processes[i].pid = pid
<1> DEFINE I == {j \in 1..Len(processes) : processes[j].pid = pid}
<1>1. ProcessIndex(pid) = IF I # {} THEN Min(I) ELSE 0
  BY DEF SelectInSeq, ProcessIndex
<1>2. I \in SUBSET Nat /\ DOMAIN processes = 1..Len(processes)
  OBVIOUS
<1>3. I # {} => Min(I) \in I
  <2> HIDE DEF I
  <2> QED
    BY <1>2, LeastOf DEF Min
<1> QED
  BY <1>1, <1>2, <1>3

\* The same for the connections.
LEMMA SearchConnection ==
    ASSUME connections \in Seq(MappedConnection), NEW d
    PROVE  LET i == ConnectionIndex(d)
           IN  \/ i = 0 /\ \A j \in DOMAIN connections : connections[j].destination # d
               \/ i \in DOMAIN connections /\ connections[i].destination = d
<1> DEFINE I == {j \in 1..Len(connections) : connections[j].destination = d}
<1>1. ConnectionIndex(d) = IF I # {} THEN Min(I) ELSE 0
  BY DEF SelectInSeq, ConnectionIndex
<1>2. I \in SUBSET Nat /\ DOMAIN connections = 1..Len(connections)
  OBVIOUS
<1>3. I # {} => Min(I) \in I
  <2> HIDE DEF I
  <2> QED
    BY <1>2, LeastOf DEF Min
<1> QED
  BY <1>1, <1>2, <1>3

\* The same for the regions, which two fields name.
LEMMA SearchRegion ==
    ASSUME mem_regions \in Seq(MappedMemRegion), NEW b, NEW pid
    PROVE  LET i == RegionIndex(b, pid)
           IN  \/ /\ i = 0
                  /\ \A j \in DOMAIN mem_regions :
                        ~(mem_regions[j].base_addr = b /\ mem_regions[j].owning_pid = pid)
               \/ /\ i \in DOMAIN mem_regions
                  /\ mem_regions[i].base_addr = b /\ mem_regions[i].owning_pid = pid
<1> DEFINE I == {j \in 1..Len(mem_regions) :
                    mem_regions[j].base_addr = b /\ mem_regions[j].owning_pid = pid}
<1>1. RegionIndex(b, pid)
        = IF I # {} THEN Min(I) ELSE 0
  BY DEF SelectInSeq, RegionIndex
<1>2. I \in SUBSET Nat /\ DOMAIN mem_regions = 1..Len(mem_regions)
  OBVIOUS
<1>3. I # {} => Min(I) \in I
  <2> HIDE DEF I
  <2> QED
    BY <1>2, LeastOf DEF Min
<1> QED
  BY <1>1, <1>2, <1>3

(* The pools *)

ProcessPool ==
    /\ processes \in Seq(MappedProcess) /\ Len(processes) <= MaxProcesses
    /\ \A i, j \in DOMAIN processes : processes[i].pid = processes[j].pid => i = j

ConnectionPool ==
    /\ connections \in Seq(MappedConnection) /\ Len(connections) <= MaxConnections
    /\ \A i, j \in DOMAIN connections :
          connections[i].destination = connections[j].destination => i = j

FilePool == watched_files \in Seq(WatchedFile) /\ Len(watched_files) <= MaxWatchedFiles

RegionPool ==
    /\ mem_regions \in Seq(MappedMemRegion) /\ Len(mem_regions) <= MaxMemRegions
    /\ \A i, j \in DOMAIN mem_regions :
          /\ mem_regions[i].base_addr = mem_regions[j].base_addr
          /\ mem_regions[i].owning_pid = mem_regions[j].owning_pid
          => i = j
    /\ WritableCodeSuspect

Suspects == {i \in DOMAIN mem_regions : mem_regions[i].status = "SUSPICIOUS"}

\* An element of a pool that is changed keeps its place and its key.
LEMMA ProcessUpdated ==
    ASSUME ProcessPool, NEW i \in DOMAIN processes, NEW r \in MappedProcess,
           r.pid = processes[i].pid, processes' = [processes EXCEPT ![i] = r]
    PROVE  ProcessPool' /\ Len(processes') = Len(processes)
<1>1. processes' \in Seq(MappedProcess) /\ Len(processes') = Len(processes)
  BY DEF ProcessPool
<1>2. DOMAIN processes' = DOMAIN processes
  BY DEF ProcessPool
<1>3. \A j \in DOMAIN processes : processes'[j].pid = processes[j].pid
  BY DEF ProcessPool
<1> QED
  BY <1>1, <1>2, <1>3 DEF ProcessPool

\* A pool that is searched before it grows names each process once.
LEMMA ProcessAdded ==
    ASSUME ProcessPool, NEW pid \in Pids, NewPid(pid), Len(processes) < MaxProcesses,
           NEW r \in MappedProcess, r.pid = pid, processes' = Append(processes, r)
    PROVE  ProcessPool' /\ Len(processes') = Len(processes) + 1
<1>1. \A j \in DOMAIN processes : processes[j].pid # pid
  <2>1. ProcessIndex(pid) = 0
    BY DEF NewPid
  <2>2. 0 \notin DOMAIN processes
    BY DEF ProcessPool
  <2> QED
    BY <2>1, <2>2, SearchProcess DEF ProcessPool
<1>2. /\ processes' \in Seq(MappedProcess) /\ Len(processes') = Len(processes) + 1
      /\ DOMAIN processes' = 1..(Len(processes) + 1) /\ Len(processes) \in Nat
      /\ processes'[Len(processes) + 1] = r
      /\ \A j \in 1..Len(processes) : processes'[j] = processes[j]
      /\ DOMAIN processes = 1..Len(processes)
  BY DEF ProcessPool
<1>3. Len(processes') <= MaxProcesses
  BY <1>2, TerritoryAssumption
<1>4. \A i, j \in DOMAIN processes' : processes'[i].pid = processes'[j].pid => i = j
  BY <1>1, <1>2 DEF ProcessPool
<1> QED
  BY <1>2, <1>3, <1>4 DEF ProcessPool

\* A connection that is seen again keeps its place and its key.
LEMMA ConnectionUpdated ==
    ASSUME ConnectionPool, NEW i \in DOMAIN connections, NEW r \in MappedConnection,
           r.destination = connections[i].destination,
           connections' = [connections EXCEPT ![i] = r]
    PROVE  ConnectionPool' /\ Len(connections') = Len(connections)
<1>1. connections' \in Seq(MappedConnection) /\ Len(connections') = Len(connections)
  BY DEF ConnectionPool
<1>2. DOMAIN connections' = DOMAIN connections
  BY DEF ConnectionPool
<1>3. \A j \in DOMAIN connections : connections'[j].destination = connections[j].destination
  BY DEF ConnectionPool
<1> QED
  BY <1>1, <1>2, <1>3 DEF ConnectionPool

\* A connection is added after the search for it has failed.
LEMMA ConnectionAdded ==
    ASSUME ConnectionPool, NEW d \in Destinations,
           ConnectionIndex(d) = 0,
           Len(connections) < MaxConnections,
           NEW r \in MappedConnection, r.destination = d,
           connections' = Append(connections, r)
    PROVE  ConnectionPool' /\ Len(connections') = Len(connections) + 1
<1>1. \A j \in DOMAIN connections : connections[j].destination # d
  <2>1. 0 \notin DOMAIN connections
    BY DEF ConnectionPool
  <2> QED
    BY <2>1, SearchConnection DEF ConnectionPool
<1>2. /\ connections' \in Seq(MappedConnection) /\ Len(connections') = Len(connections) + 1
      /\ DOMAIN connections' = 1..(Len(connections) + 1) /\ Len(connections) \in Nat
      /\ connections'[Len(connections) + 1] = r
      /\ \A j \in 1..Len(connections) : connections'[j] = connections[j]
      /\ DOMAIN connections = 1..Len(connections)
  BY DEF ConnectionPool
<1>3. Len(connections') <= MaxConnections
  BY <1>2, TerritoryAssumption
<1>4. \A i, j \in DOMAIN connections' :
         connections'[i].destination = connections'[j].destination => i = j
  BY <1>1, <1>2 DEF ConnectionPool
<1> QED
  BY <1>2, <1>3, <1>4 DEF ConnectionPool

\* A region that is changed stays suspect or becomes so with its first alarm.
LEMMA RegionUpdated ==
    ASSUME RegionPool, NEW i \in DOMAIN mem_regions, NEW r \in MappedMemRegion,
           r.base_addr = mem_regions[i].base_addr, r.owning_pid = mem_regions[i].owning_pid,
           r.is_executable /\ r.is_writable => r.status = "SUSPICIOUS",
           mem_regions' = [mem_regions EXCEPT ![i] = r]
    PROVE  RegionPool' /\ DOMAIN mem_regions' = DOMAIN mem_regions
<1>1. mem_regions' \in Seq(MappedMemRegion) /\ Len(mem_regions') = Len(mem_regions)
  BY DEF RegionPool
<1>2. DOMAIN mem_regions' = DOMAIN mem_regions
  BY DEF RegionPool
<1>3. \A j \in DOMAIN mem_regions :
         /\ mem_regions'[j].base_addr = mem_regions[j].base_addr
         /\ mem_regions'[j].owning_pid = mem_regions[j].owning_pid
  BY DEF RegionPool
<1>4. WritableCodeSuspect'
  BY <1>2 DEF RegionPool, WritableCodeSuspect
<1> QED
  BY <1>1, <1>2, <1>3, <1>4 DEF RegionPool

\* A region is added after the search for it has failed, suspect when it is writable code.
LEMMA RegionAdded ==
    ASSUME RegionPool, NEW b \in Bases, NEW pid \in Pids,
           RegionIndex(b, pid) = 0,
           Len(mem_regions) < MaxMemRegions,
           NEW r \in MappedMemRegion, r.base_addr = b, r.owning_pid = pid,
           r.is_executable /\ r.is_writable => r.status = "SUSPICIOUS",
           mem_regions' = Append(mem_regions, r)
    PROVE  /\ RegionPool'
           /\ Suspects' = IF r.status = "SUSPICIOUS"
                          THEN Suspects \cup {Len(mem_regions) + 1} ELSE Suspects
<1>1. \A j \in DOMAIN mem_regions :
         ~(mem_regions[j].base_addr = b /\ mem_regions[j].owning_pid = pid)
  <2>1. 0 \notin DOMAIN mem_regions
    BY DEF RegionPool
  <2> QED
    BY <2>1, SearchRegion DEF RegionPool
<1>2. /\ mem_regions' \in Seq(MappedMemRegion) /\ Len(mem_regions') = Len(mem_regions) + 1
      /\ DOMAIN mem_regions' = 1..(Len(mem_regions) + 1) /\ Len(mem_regions) \in Nat
      /\ mem_regions'[Len(mem_regions) + 1] = r
      /\ \A j \in 1..Len(mem_regions) : mem_regions'[j] = mem_regions[j]
      /\ DOMAIN mem_regions = 1..Len(mem_regions)
  BY DEF RegionPool
<1>3. Len(mem_regions') <= MaxMemRegions
  BY <1>2, TerritoryAssumption
<1>4. \A i, j \in DOMAIN mem_regions' :
         /\ mem_regions'[i].base_addr = mem_regions'[j].base_addr
         /\ mem_regions'[i].owning_pid = mem_regions'[j].owning_pid
         => i = j
  BY <1>1, <1>2 DEF RegionPool
<1>5. WritableCodeSuspect'
  BY <1>2 DEF RegionPool, WritableCodeSuspect
<1>6. Suspects' = IF r.status = "SUSPICIOUS"
                  THEN Suspects \cup {Len(mem_regions) + 1} ELSE Suspects
  BY <1>2 DEF Suspects
<1> QED
  BY <1>2, <1>3, <1>4, <1>5, <1>6 DEF RegionPool

\* The baseline changes statuses only, and never one of a suspect.
LEMMA PoolsTrusted ==
    ASSUME ProcessPool, ConnectionPool, RegionPool, EstablishBaseline
    PROVE  /\ ProcessPool' /\ Len(processes') = Len(processes)
           /\ ConnectionPool' /\ Len(connections') = Len(connections)
           /\ RegionPool' /\ Suspects' = Suspects
<1>1. ProcessPool' /\ Len(processes') = Len(processes)
  <2>1. /\ DOMAIN processes = 1..Len(processes) /\ Len(processes) \in Nat
        /\ \A i \in DOMAIN processes : processes[i] \in MappedProcess
    BY DEF ProcessPool
  <2>2. processes' = [i \in 1..Len(processes) |->
           [processes[i] EXCEPT !.status = IF @ = "UNKNOWN" THEN "TRUSTED" ELSE @]]
    BY <2>1 DEF EstablishBaseline, Trust
  <2>3. \A i \in 1..Len(processes) :
           processes'[i] \in MappedProcess /\ processes'[i].pid = processes[i].pid
    BY <2>1, <2>2 DEF MappedProcess, ElemStatus
  <2>4. processes' \in Seq(MappedProcess) /\ Len(processes') = Len(processes)
        /\ DOMAIN processes' = 1..Len(processes)
    BY <2>1, <2>2, <2>3
  <2> QED
    BY <2>1, <2>3, <2>4 DEF ProcessPool
<1>2. ConnectionPool' /\ Len(connections') = Len(connections)
  <2>1. /\ DOMAIN connections = 1..Len(connections) /\ Len(connections) \in Nat
        /\ \A i \in DOMAIN connections : connections[i] \in MappedConnection
    BY DEF ConnectionPool
  <2>2. connections' = [i \in 1..Len(connections) |->
           [connections[i] EXCEPT !.status = IF @ = "UNKNOWN" THEN "TRUSTED" ELSE @]]
    BY <2>1 DEF EstablishBaseline, Trust
  <2>3. \A i \in 1..Len(connections) :
           /\ connections'[i] \in MappedConnection
           /\ connections'[i].destination = connections[i].destination
    BY <2>1, <2>2 DEF MappedConnection, ElemStatus
  <2>4. connections' \in Seq(MappedConnection) /\ Len(connections') = Len(connections)
        /\ DOMAIN connections' = 1..Len(connections)
    BY <2>1, <2>2, <2>3
  <2> QED
    BY <2>1, <2>3, <2>4 DEF ConnectionPool
<1>3. RegionPool' /\ Suspects' = Suspects
  <2>1. /\ DOMAIN mem_regions = 1..Len(mem_regions) /\ Len(mem_regions) \in Nat
        /\ \A i \in DOMAIN mem_regions : mem_regions[i] \in MappedMemRegion
    BY DEF RegionPool
  <2>2. mem_regions' = [i \in 1..Len(mem_regions) |->
           [mem_regions[i] EXCEPT !.status = IF @ = "UNKNOWN" THEN "TRUSTED" ELSE @]]
    BY <2>1 DEF EstablishBaseline, Trust
  <2>3. \A i \in 1..Len(mem_regions) :
           /\ mem_regions'[i] \in MappedMemRegion
           /\ mem_regions'[i].base_addr = mem_regions[i].base_addr
           /\ mem_regions'[i].owning_pid = mem_regions[i].owning_pid
           /\ mem_regions'[i].is_executable = mem_regions[i].is_executable
           /\ mem_regions'[i].is_writable = mem_regions[i].is_writable
           /\ mem_regions'[i].status = "SUSPICIOUS" <=> mem_regions[i].status = "SUSPICIOUS"
    BY <2>1, <2>2 DEF MappedMemRegion, ElemStatus
  <2>4. mem_regions' \in Seq(MappedMemRegion) /\ Len(mem_regions') = Len(mem_regions)
        /\ DOMAIN mem_regions' = 1..Len(mem_regions)
    <3>1. \A i \in 1..Len(mem_regions) : mem_regions'[i] \in MappedMemRegion
      BY <2>3
    <3> QED
      BY <2>1, <2>2, <3>1
  <2>5. WritableCodeSuspect'
    BY <2>1, <2>3, <2>4 DEF RegionPool, WritableCodeSuspect
  <2> QED
    BY <2>1, <2>3, <2>4, <2>5 DEF RegionPool, Suspects
<1> QED
  BY <1>1, <1>2, <1>3

(* The ring of anomalies *)

Ring ==
    /\ anomalies \in [0..(MaxAnomalies - 1) -> TerritoryAnomaly \cup {Unused}]
    /\ anomaly_head \in 0..(AnomalyWord - 1) /\ anomaly_count \in 0..MaxAnomalies
    /\ total_anomalies \in Nat
    /\ anomaly_count = IF total_anomalies <= MaxAnomalies THEN total_anomalies
                       ELSE MaxAnomalies
    /\ anomaly_head % MaxAnomalies = total_anomalies % MaxAnomalies
    /\ \A t \in (total_anomalies - anomaly_count)..(total_anomalies - 1) :
          /\ anomalies[t % MaxAnomalies] \in TerritoryAnomaly
          /\ anomalies[t % MaxAnomalies].order = t
    /\ \A i \in 0..(MaxAnomalies - 1) :
          anomalies[i] # Unused =>
             /\ i = anomalies[i].order % MaxAnomalies
             /\ anomalies[i].order \in
                   (total_anomalies - anomaly_count)..(total_anomalies - 1)

\* Recording fills the slot of the next number, which is the one of the oldest anomaly
\* when the ring is full.
LEMMA RingRecorded ==
    ASSUME Ring, NEW type \in AnomalyType, NEW severity \in 0..10, NEW pid \in Pids,
           RecordAnomaly(type, severity, pid)
    PROVE  Ring' /\ total_anomalies' = total_anomalies + 1
<1> DEFINE n == MaxAnomalies
           a == [order |-> total_anomalies, pid |-> pid, anomaly_type |-> type,
                 severity |-> severity]
<1>1. /\ n \in Nat \ {0} /\ AnomalyWord \in Nat \ {0} /\ AnomalyWord % n = 0
      /\ total_anomalies \in Nat /\ anomaly_count \in 0..n
      /\ anomaly_head \in 0..(AnomalyWord - 1)
  BY TerritoryAssumption DEF Ring
<1>2. a \in TerritoryAnomaly /\ a.order = total_anomalies
  BY <1>1 DEF TerritoryAnomaly
<1>3. /\ anomalies' = [anomalies EXCEPT ![anomaly_head % n] = a]
      /\ anomaly_head' = (anomaly_head + 1) % AnomalyWord
      /\ anomaly_count' = IF anomaly_count < n THEN anomaly_count + 1 ELSE anomaly_count
      /\ total_anomalies' = total_anomalies + 1
  BY DEF RecordAnomaly, NextHead
<1> HIDE DEF a
<1>4. anomaly_head % n = total_anomalies % n /\ total_anomalies % n \in 0..(n - 1)
  BY <1>1 DEF Ring
<1>5. anomalies \in [0..(n - 1) -> TerritoryAnomaly \cup {Unused}]
  BY DEF Ring
<1>6. anomalies' \in [0..(n - 1) -> TerritoryAnomaly \cup {Unused}]
  BY <1>2, <1>3, <1>4, <1>5
<1>7. anomaly_count' = IF total_anomalies' <= n THEN total_anomalies' ELSE n
  BY <1>1, <1>3 DEF Ring
<1>8. anomaly_head' % n = total_anomalies' % n
  <2>1. /\ anomaly_head + 1 \in Int /\ anomaly_head \in Int
        /\ total_anomalies \in Int /\ 1 \in Int
    BY <1>1
  <2>2. anomaly_head' % n = (anomaly_head + 1) % n
    BY <1>1, <1>3, <2>1, ModMod, Zenon
  <2>3. (anomaly_head + 1) % n = (total_anomalies + 1) % n
    <3>1. n \in Nat \ {0} /\ anomaly_head % n = total_anomalies % n
      BY <1>1, <1>4
    <3> QED
      BY <2>1, <3>1, ModCongruent, Zenon
  <2> QED
    BY <1>3, <2>2, <2>3
<1>9. anomaly_head' \in 0..(AnomalyWord - 1) /\ anomaly_count' \in 0..n
  BY <1>1, <1>3
<1>10. ASSUME NEW u \in (total_anomalies' - anomaly_count')..(total_anomalies' - 1)
       PROVE  anomalies'[u % n] \in TerritoryAnomaly /\ anomalies'[u % n].order = u
  <2>1. u \in Int /\ u % n \in 0..(n - 1) /\ u >= 0
    BY <1>1, <1>3, <1>7
  <2>2. CASE u = total_anomalies
    <3>1. anomalies'[u % n] = a
      BY <1>3, <1>4, <1>5, <2>2
    <3> QED
      BY <1>2, <2>2, <3>1
  <2>3. CASE u # total_anomalies
    <3>1. u < total_anomalies /\ total_anomalies < u + n
      BY <1>1, <1>3, <1>7, <2>1, <2>3 DEF Ring
    <3>2. u % n # total_anomalies % n
      <4>1. u \in Int /\ total_anomalies \in Int
        BY <1>1, <2>1
      <4> QED
        BY <1>1, <3>1, <4>1, ModDistinct, Zenon
    <3>3. anomalies'[u % n] = anomalies[u % n]
      BY <1>3, <1>4, <1>5, <2>1, <3>2
    <3>4. u \in (total_anomalies - anomaly_count)..(total_anomalies - 1)
      BY <1>1, <1>3, <2>1, <3>1 DEF Ring
    <3> QED
      BY <3>3, <3>4 DEF Ring
  <2> QED
    BY <2>2, <2>3
<1>11. ASSUME NEW i \in 0..(n - 1), anomalies'[i] # Unused
       PROVE  /\ i = anomalies'[i].order % n
              /\ anomalies'[i].order \in
                    (total_anomalies' - anomaly_count')..(total_anomalies' - 1)
  <2>1. CASE i = total_anomalies % n
    <3>1. anomalies'[i] = a
      BY <1>3, <1>4, <1>5, <2>1
    <3>2. total_anomalies \in (total_anomalies' - anomaly_count')..(total_anomalies' - 1)
      BY <1>1, <1>3, <1>7
    <3> QED
      BY <1>2, <2>1, <3>1, <3>2
  <2>2. CASE i # total_anomalies % n
    <3>1. anomalies'[i] = anomalies[i]
      BY <1>3, <1>4, <1>5, <2>2
    <3> DEFINE o == anomalies[i].order
    <3>2. i = o % n /\ o \in (total_anomalies - anomaly_count)..(total_anomalies - 1)
      BY <1>11, <3>1 DEF Ring
    <3> HIDE DEF o
    <3>3. o # total_anomalies - n
      <4> SUFFICES ASSUME o = total_anomalies - n PROVE FALSE
        OBVIOUS
      <4> DEFINE z == total_anomalies - n
      <4>1. z \in Int /\ -1 \in Int /\ z + n * 1 = total_anomalies /\ 1 \in Int
        BY <1>1
      <4> HIDE DEF z
      <4>2. (z + n * 1) % n = z % n
        BY <1>1, <4>1, ModPlus, Zenon
      <4> QED
        BY <2>2, <3>2, <4>1, <4>2 DEF z
    <3>4. o \in (total_anomalies' - anomaly_count')..(total_anomalies' - 1)
      BY <1>1, <1>3, <1>7, <3>2, <3>3 DEF Ring
    <3> QED
      BY <3>1, <3>2, <3>4 DEF o
  <2> QED
    BY <2>1, <2>2
<1>12. total_anomalies' \in Nat
  BY <1>1, <1>3
<1> QED
  BY <1>3, <1>6, <1>7, <1>8, <1>9, <1>10, <1>11, <1>12 DEF Ring

----------------------------------------------------------------------------
\* The anomalies number at least what is on the map.
Reported == total_anomalies >= Len(processes) + Len(connections) + Cardinality(Suspects)

\* MapSound is inductive only with the places of the anomalies in the ring, and the count
\* of the suspects only with what makes a region one.
TerritoryInv ==
    /\ ProcessPool /\ ConnectionPool /\ FilePool /\ RegionPool /\ Ring /\ Reported
    /\ baseline_ready \in BOOLEAN /\ total_observations \in Nat

\* territory_init leaves an empty map.
LEMMA TerritoryInitInv == TerritoryInit => TerritoryInv
<1> SUFFICES ASSUME TerritoryInit PROVE TerritoryInv
  OBVIOUS
<1>1. ProcessPool /\ ConnectionPool /\ FilePool /\ RegionPool
  BY TerritoryAssumption
  DEF TerritoryInit, ProcessPool, ConnectionPool, FilePool, RegionPool, WritableCodeSuspect
<1>2. Ring
  BY TerritoryAssumption DEF TerritoryInit, Ring
<1>3. Reported
  <2>1. Suspects = {}
    BY DEF TerritoryInit, Suspects
  <2> QED
    BY <2>1, FS_EmptySet DEF TerritoryInit, Reported
<1> QED
  BY <1>1, <1>2, <1>3 DEF TerritoryInit, TerritoryInv

\* The suspects are some of the regions, so they can be counted.
LEMMA SuspectsFinite ==
    ASSUME RegionPool
    PROVE  IsFiniteSet(Suspects) /\ Cardinality(Suspects) \in Nat
<1>1. DOMAIN mem_regions = 1..Len(mem_regions) /\ Len(mem_regions) \in Nat
  BY DEF RegionPool
<1>2. IsFiniteSet(1..Len(mem_regions))
  BY <1>1, FS_Interval
<1>3. Suspects \in SUBSET (1..Len(mem_regions))
  BY <1>1 DEF Suspects
<1> QED
  BY <1>2, <1>3, FS_Subset, FS_CardinalityType

\* The steps on processes keep the invariant.
LEMMA ProcessSteps ==
    ASSUME TerritoryInv, NEW pid \in Pids,
           \/ ObserveKnownProcess(pid) \/ ObserveNewProcess(pid) \/ Report(pid)
           \/ \E s \in Marks : MarkProcess(pid, s)
    PROVE  TerritoryInv'
<1>1. /\ Len(processes) \in Nat /\ Len(connections) \in Nat /\ total_anomalies \in Nat
      /\ Cardinality(Suspects) \in Nat /\ total_observations \in Nat
      /\ baseline_ready \in BOOLEAN
      /\ total_anomalies >= Len(processes) + Len(connections) + Cardinality(Suspects)
  BY SuspectsFinite DEF TerritoryInv, ProcessPool, ConnectionPool, Ring, Reported
<1>2. ASSUME UNCHANGED <<connections, watched_files, mem_regions, baseline_ready>>
      PROVE  /\ ConnectionPool' /\ FilePool' /\ RegionPool'
             /\ Len(connections') = Len(connections)
             /\ Suspects' = Suspects /\ baseline_ready' \in BOOLEAN
  BY <1>1, <1>2
  DEF TerritoryInv, ConnectionPool, FilePool, RegionPool, Suspects, WritableCodeSuspect
<1>3. ASSUME UNCHANGED ringVars PROVE Ring' /\ total_anomalies' = total_anomalies
  BY <1>3 DEF TerritoryInv, Ring, ringVars
<1>4. ASSUME UNCHANGED processes
      PROVE  ProcessPool' /\ Len(processes') = Len(processes)
  BY <1>4 DEF TerritoryInv, ProcessPool
<1>5. CASE ObserveKnownProcess(pid)
  <2> DEFINE i == ProcessIndex(pid)
             r == [processes[i] EXCEPT !.observation_count = @ + 1]
  <2>1. i \in DOMAIN processes /\ processes \in Seq(MappedProcess)
    BY <1>5, SearchProcess DEF TerritoryInv, ProcessPool, ObserveKnownProcess
  <2>2. processes[i] \in MappedProcess /\ processes' = [processes EXCEPT ![i] = r]
    BY <1>5, <2>1 DEF ObserveKnownProcess
  <2>3. r \in MappedProcess /\ r.pid = processes[i].pid
    BY <2>2 DEF MappedProcess
  <2> HIDE DEF r, i
  <2>4. ProcessPool' /\ Len(processes') = Len(processes)
    BY <2>1, <2>2, <2>3, ProcessUpdated DEF TerritoryInv
  <2> QED
    BY <1>1, <1>2, <1>3, <1>5, <2>4
    DEF ObserveKnownProcess, Observed, TerritoryInv, Reported
<1>6. CASE ObserveNewProcess(pid)
  <2> DEFINE r == [pid |-> pid, status |-> NewStatus, observation_count |-> 1]
  <2>1. r \in MappedProcess /\ r.pid = pid
    BY DEF MappedProcess, NewStatus, ElemStatus
  <2>2. /\ NewPid(pid) /\ Len(processes) < MaxProcesses
        /\ processes' = Append(processes, r)
    BY <1>6 DEF ObserveNewProcess
  <2> HIDE DEF r
  <2>3. ProcessPool' /\ Len(processes') = Len(processes) + 1
    BY <2>1, <2>2, ProcessAdded DEF TerritoryInv
  <2>4. Ring' /\ total_anomalies' = total_anomalies + 1
    <3>1. "NEW_PROCESS" \in AnomalyType /\ 3 \in 0..10
      BY DEF AnomalyType
    <3> QED
      BY <1>6, <3>1, RingRecorded DEF TerritoryInv, ObserveNewProcess
  <2> QED
    BY <1>1, <1>2, <1>6, <2>3, <2>4
    DEF ObserveNewProcess, Observed, TerritoryInv, Reported
<1>7. CASE Report(pid)
  <2>1. Ring' /\ total_anomalies' = total_anomalies + 1
    <3>1. "OTHER" \in AnomalyType /\ 5 \in 0..10
      BY DEF AnomalyType
    <3> QED
      BY <1>7, <3>1, RingRecorded DEF TerritoryInv, Report
  <2> QED
    BY <1>1, <1>2, <1>4, <1>7, <2>1 DEF Report, TerritoryInv, Reported
<1>8. ASSUME NEW s \in Marks, MarkProcess(pid, s) PROVE TerritoryInv'
  <2> DEFINE i == ProcessIndex(pid)
             r == [processes[i] EXCEPT !.status = s]
  <2>1. i \in DOMAIN processes /\ processes \in Seq(MappedProcess)
    BY <1>8, SearchProcess DEF TerritoryInv, ProcessPool, MarkProcess
  <2>2. processes[i] \in MappedProcess /\ processes' = [processes EXCEPT ![i] = r]
    BY <1>8, <2>1 DEF MarkProcess
  <2>3. r \in MappedProcess /\ r.pid = processes[i].pid
    BY <2>2, TerritoryAssumption DEF MappedProcess
  <2> HIDE DEF r, i
  <2>4. ProcessPool' /\ Len(processes') = Len(processes)
    BY <2>1, <2>2, <2>3, ProcessUpdated DEF TerritoryInv
  <2> QED
    BY <1>1, <1>2, <1>3, <1>8, <2>4 DEF MarkProcess, TerritoryInv, Reported
<1> QED
  BY <1>5, <1>6, <1>7, <1>8

\* The steps on connections keep it.
LEMMA ConnectionSteps ==
    ASSUME TerritoryInv, NEW pid \in Pids, NEW d \in Destinations,
           ObserveKnownConnection(pid, d) \/ ObserveNewConnection(pid, d)
    PROVE  TerritoryInv'
<1>1. /\ Len(processes) \in Nat /\ Len(connections) \in Nat /\ total_anomalies \in Nat
      /\ Cardinality(Suspects) \in Nat /\ total_observations \in Nat
      /\ baseline_ready \in BOOLEAN
      /\ total_anomalies >= Len(processes) + Len(connections) + Cardinality(Suspects)
  BY SuspectsFinite DEF TerritoryInv, ProcessPool, ConnectionPool, Ring, Reported
<1>2. ASSUME UNCHANGED <<processes, watched_files, mem_regions, baseline_ready>>
      PROVE  /\ ProcessPool' /\ FilePool' /\ RegionPool' /\ Len(processes') = Len(processes)
             /\ Suspects' = Suspects /\ baseline_ready' \in BOOLEAN
  BY <1>1, <1>2
  DEF TerritoryInv, ProcessPool, FilePool, RegionPool, Suspects, WritableCodeSuspect
<1>3. CASE ObserveKnownConnection(pid, d)
  <2> DEFINE i == ConnectionIndex(d)
             r == [[connections[i] EXCEPT !.connection_count = @ + 1]
                      EXCEPT !.owning_pid = pid]
  <2>1. i \in DOMAIN connections /\ connections \in Seq(MappedConnection)
    BY <1>3, SearchConnection DEF TerritoryInv, ConnectionPool, ObserveKnownConnection
  <2>2. connections[i] \in MappedConnection
    BY <2>1
  <2>3. connections' = [connections EXCEPT ![i] = r]
    BY <1>3, <2>1, <2>2 DEF ObserveKnownConnection, MappedConnection
  <2>4. r \in MappedConnection /\ r.destination = connections[i].destination
    <3> DEFINE c == connections[i]
               q == [c EXCEPT !.connection_count = @ + 1]
    <3>1. q \in MappedConnection /\ q.destination = c.destination
      BY <2>2 DEF MappedConnection
    <3>2. r = [q EXCEPT !.owning_pid = pid]
      OBVIOUS
    <3> HIDE DEF q, r
    <3> QED
      BY <3>1, <3>2 DEF MappedConnection
  <2> HIDE DEF r, i
  <2>5. ConnectionPool' /\ Len(connections') = Len(connections)
    BY <2>1, <2>3, <2>4, ConnectionUpdated DEF TerritoryInv
  <2>6. Ring' /\ total_anomalies' = total_anomalies
    BY <1>3 DEF TerritoryInv, ObserveKnownConnection, Ring, ringVars
  <2> QED
    BY <1>1, <1>2, <1>3, <2>5, <2>6
    DEF ObserveKnownConnection, Observed, TerritoryInv, Reported
<1>4. CASE ObserveNewConnection(pid, d)
  <2> DEFINE r == [destination |-> d, owning_pid |-> pid, status |-> NewStatus,
                   connection_count |-> 1]
  <2>1. r \in MappedConnection /\ r.destination = d
    BY DEF MappedConnection, NewStatus, ElemStatus
  <2>2. /\ ConnectionIndex(d) = 0 /\ Len(connections) < MaxConnections
        /\ connections' = Append(connections, r)
    BY <1>4 DEF ObserveNewConnection
  <2> HIDE DEF r
  <2>3. ConnectionPool' /\ Len(connections') = Len(connections) + 1
    BY <2>1, <2>2, ConnectionAdded DEF TerritoryInv
  <2>4. Ring' /\ total_anomalies' = total_anomalies + 1
    <3>1. "UNKNOWN_CONNECTION" \in AnomalyType /\ 2 \in 0..10
      BY DEF AnomalyType
    <3> QED
      BY <1>4, <3>1, RingRecorded DEF TerritoryInv, ObserveNewConnection
  <2> QED
    BY <1>1, <1>2, <1>4, <2>3, <2>4
    DEF ObserveNewConnection, Observed, TerritoryInv, Reported
<1> QED
  BY <1>3, <1>4

\* The steps on regions keep it: an alarm adds one suspect at most.
LEMMA RegionSteps ==
    ASSUME TerritoryInv, NEW pid \in Pids, NEW b \in Bases, NEW exec \in BOOLEAN,
           NEW write \in BOOLEAN,
           ObserveKnownMem(b, pid, exec, write) \/ ObserveNewMem(b, pid, exec, write)
    PROVE  TerritoryInv'
<1>1. /\ Len(processes) \in Nat /\ Len(connections) \in Nat /\ total_anomalies \in Nat
      /\ Cardinality(Suspects) \in Nat /\ total_observations \in Nat
      /\ baseline_ready \in BOOLEAN /\ IsFiniteSet(Suspects)
      /\ total_anomalies >= Len(processes) + Len(connections) + Cardinality(Suspects)
  BY SuspectsFinite DEF TerritoryInv, ProcessPool, ConnectionPool, Ring, Reported
<1>2. ASSUME UNCHANGED <<processes, connections, watched_files, baseline_ready>>
      PROVE  /\ ProcessPool' /\ ConnectionPool' /\ FilePool' /\ baseline_ready' \in BOOLEAN
             /\ Len(processes') = Len(processes) /\ Len(connections') = Len(connections)
  BY <1>1, <1>2 DEF TerritoryInv, ProcessPool, ConnectionPool, FilePool
<1>3. ASSUME NEW k, Suspects' = Suspects \cup {k}
      PROVE  /\ Cardinality(Suspects') <= Cardinality(Suspects) + 1
             /\ Cardinality(Suspects') \in Nat
  <2>1. Cardinality(Suspects \cup {k}) =
           IF k \in Suspects THEN Cardinality(Suspects) ELSE Cardinality(Suspects) + 1
    BY <1>1, FS_AddElement
  <2> QED
    BY <1>1, <1>3, <2>1
<1>4. ASSUME UNCHANGED ringVars PROVE Ring' /\ total_anomalies' = total_anomalies
  BY <1>4 DEF TerritoryInv, Ring, ringVars
<1>5. CASE ObserveKnownMem(b, pid, exec, write)
  <2> DEFINE i == RegionIndex(b, pid)
             alarm == BecomesWX(mem_regions[i], exec, write)
             r == [[[mem_regions[i] EXCEPT !.status = IF alarm THEN "SUSPICIOUS" ELSE @]
                       EXCEPT !.is_executable = exec] EXCEPT !.is_writable = write]
  <2>1. i \in DOMAIN mem_regions /\ mem_regions \in Seq(MappedMemRegion)
    BY <1>5, SearchRegion DEF TerritoryInv, RegionPool, ObserveKnownMem
  <2>2. mem_regions[i] \in MappedMemRegion
    BY <2>1
  <2>3. mem_regions' = [mem_regions EXCEPT ![i] = r]
    BY <1>5, <2>1, <2>2 DEF ObserveKnownMem, MappedMemRegion
  <2>4. /\ r \in MappedMemRegion /\ r.base_addr = mem_regions[i].base_addr
        /\ r.owning_pid = mem_regions[i].owning_pid
        /\ r.status = IF alarm THEN "SUSPICIOUS" ELSE mem_regions[i].status
        /\ r.is_executable = exec /\ r.is_writable = write
    BY <2>2 DEF MappedMemRegion, ElemStatus
  <2>5. exec /\ write /\ ~alarm => mem_regions[i].is_executable /\ mem_regions[i].is_writable
    BY DEF BecomesWX
  <2>6. r.is_executable /\ r.is_writable => r.status = "SUSPICIOUS"
    BY <2>1, <2>4, <2>5 DEF TerritoryInv, RegionPool, WritableCodeSuspect
  <2>7. /\ UNCHANGED <<processes, connections, watched_files, baseline_ready,
                       total_observations>>
        /\ alarm => RecordAnomaly("MEM_EXEC_WRITE", 7, pid)
        /\ ~alarm => UNCHANGED ringVars
    BY <1>5 DEF ObserveKnownMem
  <2> HIDE DEF r, i, alarm
  <2>8. RegionPool' /\ DOMAIN mem_regions' = DOMAIN mem_regions
    BY <2>1, <2>3, <2>4, <2>6, RegionUpdated DEF TerritoryInv
  <2>9. Suspects' = IF alarm THEN Suspects \cup {i} ELSE Suspects
    BY <2>1, <2>3, <2>4, <2>8 DEF Suspects
  <2>10. CASE alarm
    <3>1. "MEM_EXEC_WRITE" \in AnomalyType /\ 7 \in 0..10
      BY DEF AnomalyType
    <3>2. Ring' /\ total_anomalies' = total_anomalies + 1
      BY <2>7, <2>10, <3>1, RingRecorded DEF TerritoryInv
    <3>3. /\ Cardinality(Suspects') <= Cardinality(Suspects) + 1
          /\ Cardinality(Suspects') \in Nat
      BY <1>3, <2>9, <2>10
    <3> QED
      BY <1>1, <1>2, <2>7, <2>8, <3>2, <3>3 DEF TerritoryInv, Reported
  <2>11. CASE ~alarm
    <3>1. Suspects' = Suspects
      BY <2>9, <2>11
    <3> QED
      BY <1>1, <1>2, <1>4, <2>7, <2>8, <2>11, <3>1 DEF TerritoryInv, Reported
  <2> QED
    BY <2>10, <2>11
<1>6. CASE ObserveNewMem(b, pid, exec, write)
  <2> DEFINE r == [base_addr |-> b, owning_pid |-> pid, is_executable |-> exec,
                   is_writable |-> write,
                   status |-> IF exec /\ write THEN "SUSPICIOUS" ELSE "UNKNOWN"]
             k == Len(mem_regions) + 1
  <2>1. /\ r \in MappedMemRegion /\ r.base_addr = b /\ r.owning_pid = pid
        /\ r.is_executable /\ r.is_writable => r.status = "SUSPICIOUS"
        /\ r.status = "SUSPICIOUS" <=> exec /\ write
    BY DEF MappedMemRegion, ElemStatus
  <2>2. /\ RegionIndex(b, pid) = 0 /\ Len(mem_regions) < MaxMemRegions
        /\ mem_regions' = Append(mem_regions, r)
        /\ exec /\ write => RecordAnomaly("MEM_EXEC_WRITE", 8, pid)
        /\ ~(exec /\ write) => UNCHANGED ringVars
        /\ total_observations' = total_observations + 1
        /\ UNCHANGED <<processes, connections, watched_files, baseline_ready>>
    BY <1>6 DEF ObserveNewMem, Observed
  <2> HIDE DEF r
  <2>3. /\ RegionPool'
        /\ Suspects' = IF r.status = "SUSPICIOUS" THEN Suspects \cup {k} ELSE Suspects
    BY <2>1, <2>2, RegionAdded DEF TerritoryInv
  <2> HIDE DEF k
  <2>4. CASE exec /\ write
    <3>1. "MEM_EXEC_WRITE" \in AnomalyType /\ 8 \in 0..10
      BY DEF AnomalyType
    <3>2. Ring' /\ total_anomalies' = total_anomalies + 1
      BY <2>2, <2>4, <3>1, RingRecorded DEF TerritoryInv
    <3>3. /\ Cardinality(Suspects') <= Cardinality(Suspects) + 1
          /\ Cardinality(Suspects') \in Nat
      BY <1>3, <2>1, <2>3, <2>4
    <3> QED
      BY <1>1, <1>2, <2>2, <2>3, <3>2, <3>3 DEF TerritoryInv, Reported
  <2>5. CASE ~(exec /\ write)
    <3>1. Suspects' = Suspects
      BY <2>1, <2>3, <2>5
    <3>2. Ring' /\ total_anomalies' = total_anomalies
      BY <1>4, <2>2, <2>5
    <3>3. total_observations' \in Nat
      BY <1>1, <2>2
    <3> QED
      BY <1>1, <1>2, <2>2, <2>3, <3>1, <3>2, <3>3 DEF TerritoryInv, Reported
  <2> QED
    BY <2>4, <2>5
<1> QED
  BY <1>5, <1>6

\* Every operation on the map keeps the invariant.
LEMMA TerritoryStep == TerritoryInv /\ [TerritoryNext]_territoryVars => TerritoryInv'
<1> SUFFICES ASSUME TerritoryInv, [TerritoryNext]_territoryVars PROVE TerritoryInv'
  OBVIOUS
<1>1. ASSUME NEW pid \in Pids,
             \/ ObserveKnownProcess(pid) \/ ObserveNewProcess(pid) \/ Report(pid)
             \/ \E s \in Marks : MarkProcess(pid, s)
      PROVE  TerritoryInv'
  BY <1>1, ProcessSteps
<1>2. ASSUME NEW pid \in Pids, NEW d \in Destinations,
             ObserveKnownConnection(pid, d) \/ ObserveNewConnection(pid, d)
      PROVE  TerritoryInv'
  BY <1>2, ConnectionSteps
<1>3. ASSUME NEW f \in Files, WatchFile(f) PROVE TerritoryInv'
  <2>1. FilePool'
    <3>1. [path |-> f, is_intact |-> TRUE] \in WatchedFile
      BY DEF WatchedFile
    <3> QED
      BY <1>3, <3>1, TerritoryAssumption DEF WatchFile, TerritoryInv, FilePool
  <2>2. ProcessPool' /\ ConnectionPool' /\ RegionPool' /\ Suspects' = Suspects
    BY <1>3 DEF WatchFile, TerritoryInv, ProcessPool, ConnectionPool, RegionPool, Suspects,
                WritableCodeSuspect
  <2>3. Ring'
    BY <1>3 DEF WatchFile, TerritoryInv, Ring, ringVars
  <2> QED
    BY <1>3, <2>1, <2>2, <2>3 DEF WatchFile, TerritoryInv, Reported, ringVars
<1>4. ASSUME NEW pid \in Pids, NEW b \in Bases, NEW exec \in BOOLEAN, NEW write \in BOOLEAN,
             ObserveKnownMem(b, pid, exec, write) \/ ObserveNewMem(b, pid, exec, write)
      PROVE  TerritoryInv'
  BY <1>4, RegionSteps
<1>5. CASE EstablishBaseline
  <2>1. /\ ProcessPool' /\ Len(processes') = Len(processes)
        /\ ConnectionPool' /\ Len(connections') = Len(connections)
        /\ RegionPool' /\ Suspects' = Suspects
    BY <1>5, PoolsTrusted DEF TerritoryInv
  <2>2. Ring' /\ FilePool'
    BY <1>5 DEF EstablishBaseline, TerritoryInv, Ring, ringVars, FilePool
  <2> QED
    BY <1>5, <2>1, <2>2 DEF EstablishBaseline, TerritoryInv, Reported, ringVars
<1>6. CASE UNCHANGED territoryVars
  <2>1. ProcessPool' /\ ConnectionPool' /\ FilePool' /\ RegionPool' /\ Suspects' = Suspects
    BY <1>6 DEF territoryVars, TerritoryInv, ProcessPool, ConnectionPool, FilePool, RegionPool,
                Suspects, WritableCodeSuspect
  <2>2. Ring'
    BY <1>6 DEF territoryVars, TerritoryInv, Ring, ringVars
  <2> QED
    BY <1>6, <2>1, <2>2 DEF territoryVars, TerritoryInv, Reported, ringVars
<1> QED
  BY <1>1, <1>2, <1>3, <1>4, <1>5, <1>6 DEF TerritoryNext

\* territory_last_anomaly reads the slot of the newest anomaly.
LEMMA LastSlot ==
    ASSUME Ring
    PROVE  ((anomaly_head + AnomalyWord - 1 + MaxAnomalies) % AnomalyWord) % MaxAnomalies
              = (total_anomalies - 1) % MaxAnomalies
<1> DEFINE n == MaxAnomalies
           k == AnomalyWord \div n
           b == anomaly_head - 1
           x == anomaly_head + AnomalyWord - 1 + n
           c == 0 - 1
           m == k + 1
<1>1. /\ n \in Nat \ {0} /\ AnomalyWord \in Nat \ {0} /\ AnomalyWord % n = 0
      /\ anomaly_head \in Int /\ total_anomalies \in Int
      /\ anomaly_head % n = total_anomalies % n
  BY TerritoryAssumption DEF Ring
<1>2. k \in Int /\ AnomalyWord = n * k
  BY <1>1
<1>3. n * m = n * k + n /\ m \in Int
  BY <1>1, <1>2
<1>4. x \in Int /\ b \in Int /\ x = b + n * m
  BY <1>1, <1>2, <1>3
<1>5. c \in Int /\ b = anomaly_head + c /\ total_anomalies - 1 = total_anomalies + c
  BY <1>1
<1> HIDE DEF k, b, x, c, m
<1>6. (x % AnomalyWord) % n = x % n
  BY <1>1, <1>4, ModMod, Zenon
<1>7. (b + n * m) % n = b % n
  BY <1>1, <1>3, <1>4, ModPlus, Zenon
<1>8. (anomaly_head + c) % n = (total_anomalies + c) % n
  <2>1. /\ n \in Nat \ {0} /\ anomaly_head \in Int /\ total_anomalies \in Int /\ c \in Int
        /\ anomaly_head % n = total_anomalies % n
    BY <1>1, <1>5
  <2> QED
    BY <2>1, ModCongruent, Zenon
<1> QED
  BY <1>4, <1>5, <1>6, <1>7, <1>8 DEF x

\* What the invariant says of the map.
LEMMA TerritoryFacts == TerritoryInv => MapSound /\ WritableCodeSuspect
<1> SUFFICES ASSUME TerritoryInv PROVE MapSound /\ WritableCodeSuspect
  OBVIOUS
<1> DEFINE n == MaxAnomalies
           low == total_anomalies - anomaly_count
<1>1. TerritoryTypeOK
  BY DEF TerritoryInv, ProcessPool, ConnectionPool, FilePool, RegionPool, Ring, TerritoryTypeOK
<1>2. OneEntryEach /\ WritableCodeSuspect
  BY DEF TerritoryInv, ProcessPool, ConnectionPool, RegionPool, OneEntryEach
<1>3. Unused \notin TerritoryAnomaly
  <2>1. \A a \in TerritoryAnomaly : "order" \in DOMAIN a
    BY DEF TerritoryAnomaly
  <2>2. "order" \notin DOMAIN Unused
    BY DEF Unused
  <2> QED
    BY <2>1, <2>2
<1>4. n \in Nat \ {0} /\ total_anomalies \in Nat /\ anomaly_count \in 0..n
  BY TerritoryAssumption DEF TerritoryInv, Ring
<1>5. anomaly_count > 0 => LastAnomaly # Unused /\ LastAnomaly.order = total_anomalies - 1
  <2> SUFFICES ASSUME anomaly_count > 0
               PROVE  LastAnomaly # Unused /\ LastAnomaly.order = total_anomalies - 1
    OBVIOUS
  <2>1. LastAnomaly = anomalies[(total_anomalies - 1) % n]
    BY LastSlot DEF TerritoryInv, LastAnomaly
  <2>2. total_anomalies - 1 \in low..(total_anomalies - 1)
    BY <1>4
  <2> QED
    BY <1>3, <2>1, <2>2 DEF TerritoryInv, Ring
<1>6. {a.order : a \in {anomalies[i] : i \in 0..(n - 1)} \ {Unused}}
         = low..(total_anomalies - 1)
  <2> DEFINE A == {anomalies[i] : i \in 0..(n - 1)} \ {Unused}
  <2>1. ASSUME NEW a \in A PROVE a.order \in low..(total_anomalies - 1)
    <3>1. PICK i \in 0..(n - 1) : a = anomalies[i] /\ anomalies[i] # Unused
      OBVIOUS
    <3> QED
      BY <3>1 DEF TerritoryInv, Ring
  <2>2. ASSUME NEW t \in low..(total_anomalies - 1) PROVE \E a \in A : a.order = t
    <3>1. t \in Int /\ t % n \in 0..(n - 1)
      BY <1>4
    <3>2. anomalies[t % n] \in TerritoryAnomaly /\ anomalies[t % n].order = t
      BY DEF TerritoryInv, Ring
    <3>3. anomalies[t % n] \in A
      BY <1>3, <3>1, <3>2
    <3> QED
      BY <3>2, <3>3
  <2> HIDE DEF A
  <2>3. {a.order : a \in A} = low..(total_anomalies - 1)
    BY <2>1, <2>2
  <2> QED
    BY <2>3 DEF A
<1>7. NewcomersReported
  BY <1>5, <1>6 DEF NewcomersReported, TerritoryInv, Reported, Suspects
<1> QED
  BY <1>1, <1>2, <1>7 DEF MapSound

\* The map names each element once, has reported all it holds, and its ring keeps the
\* newest anomalies over its end and the overflow of its head.
THEOREM TerritoryMap == TerritorySpec => []MapSound
BY TerritoryInitInv, TerritoryStep, TerritoryFacts, PTL DEF TerritorySpec

\* Writable code is suspect through every baseline.
THEOREM TerritoryCode == TerritorySpec => []WritableCodeSuspect
BY TerritoryInitInv, TerritoryStep, TerritoryFacts, PTL DEF TerritorySpec

\* Trust comes from a baseline only, and suspicion stays.
THEOREM TerritoryTrust == TerritorySpec => TrustIsEarned
<1> DEFINE C == \A i \in DOMAIN connections' :
                   connections'[i].status = "TRUSTED" =>
                      /\ i \in DOMAIN connections
                      /\ \/ connections[i].status = "TRUSTED"
                         \/ connections[i].status = "UNKNOWN" /\ baseline_ready'
           M == \A i \in DOMAIN mem_regions :
                   mem_regions[i].status = "SUSPICIOUS" =>
                      mem_regions'[i].status = "SUSPICIOUS"
<1>1. ASSUME TerritoryInv, [TerritoryNext]_territoryVars PROVE C /\ M
  <2>1. connections \in Seq(MappedConnection) /\ mem_regions \in Seq(MappedMemRegion)
    BY <1>1 DEF TerritoryInv, ConnectionPool, RegionPool
  <2>2. ASSUME UNCHANGED connections PROVE C
    BY <2>2
  <2>3. ASSUME UNCHANGED mem_regions PROVE M
    BY <2>3
  <2>4. ASSUME NEW pid \in Pids,
               \/ ObserveKnownProcess(pid) \/ ObserveNewProcess(pid) \/ Report(pid)
               \/ \E s \in Marks : MarkProcess(pid, s)
        PROVE  C /\ M
    BY <2>2, <2>3, <2>4 DEF ObserveKnownProcess, ObserveNewProcess, Report, MarkProcess
  <2>5. ASSUME NEW pid \in Pids, NEW d \in Destinations, ObserveKnownConnection(pid, d)
        PROVE  C /\ M
    <3> DEFINE i == ConnectionIndex(d)
    <3>1. /\ connections' = [connections EXCEPT ![i].connection_count = @ + 1,
                                                ![i].owning_pid = pid]
          /\ UNCHANGED mem_regions
      BY <2>5 DEF ObserveKnownConnection
    <3>2. i \in DOMAIN connections
      BY <2>1, <2>5, SearchConnection DEF ObserveKnownConnection
    <3> HIDE DEF i
    <3>3. connections[i] \in MappedConnection
      BY <2>1, <3>2
    <3>4. DOMAIN connections' = DOMAIN connections
      BY <3>1
    <3>5. \A j \in DOMAIN connections : connections'[j].status = connections[j].status
      BY <2>1, <3>1, <3>2, <3>3 DEF MappedConnection
    <3> QED
      BY <2>3, <3>1, <3>4, <3>5
  <2>6. ASSUME NEW pid \in Pids, NEW d \in Destinations, ObserveNewConnection(pid, d)
        PROVE  C /\ M
    <3> DEFINE r == [destination |-> d, owning_pid |-> pid, status |-> NewStatus,
                     connection_count |-> 1]
    <3>1. connections' = Append(connections, r) /\ UNCHANGED mem_regions
      BY <2>6 DEF ObserveNewConnection
    <3>2. r.status # "TRUSTED"
      BY DEF NewStatus
    <3> HIDE DEF r
    <3>3. /\ DOMAIN connections = 1..Len(connections) /\ Len(connections) \in Nat
          /\ DOMAIN connections' = 1..(Len(connections) + 1)
          /\ connections'[Len(connections) + 1] = r
          /\ \A j \in 1..Len(connections) : connections'[j] = connections[j]
      BY <2>1, <3>1
    <3> QED
      BY <2>3, <3>1, <3>2, <3>3
  <2>7. ASSUME NEW f \in Files, WatchFile(f) PROVE C /\ M
    BY <2>2, <2>3, <2>7 DEF WatchFile
  <2>8. ASSUME NEW pid \in Pids, NEW b \in Bases, NEW exec \in BOOLEAN, NEW write \in BOOLEAN,
               ObserveKnownMem(b, pid, exec, write)
        PROVE  C /\ M
    <3> DEFINE i == RegionIndex(b, pid)
               alarm == BecomesWX(mem_regions[i], exec, write)
    <3>1. /\ mem_regions' = [mem_regions EXCEPT
                ![i].status = IF alarm THEN "SUSPICIOUS" ELSE @,
                ![i].is_executable = exec, ![i].is_writable = write]
          /\ UNCHANGED connections
      BY <2>8 DEF ObserveKnownMem
    <3>2. i \in DOMAIN mem_regions
      BY <2>1, <2>8, SearchRegion DEF ObserveKnownMem
    <3> HIDE DEF i, alarm
    <3>3. mem_regions[i] \in MappedMemRegion
      BY <2>1, <3>2
    <3>4. \A j \in DOMAIN mem_regions :
             \/ mem_regions'[j].status = mem_regions[j].status
             \/ mem_regions'[j].status = "SUSPICIOUS"
      BY <2>1, <3>1, <3>2, <3>3 DEF MappedMemRegion
    <3> QED
      BY <2>2, <3>1, <3>4
  <2>9. ASSUME NEW pid \in Pids, NEW b \in Bases, NEW exec \in BOOLEAN, NEW write \in BOOLEAN,
               ObserveNewMem(b, pid, exec, write)
        PROVE  C /\ M
    <3>1. PICK r : mem_regions' = Append(mem_regions, r)
      BY <2>9 DEF ObserveNewMem
    <3>2. \A j \in DOMAIN mem_regions : mem_regions'[j] = mem_regions[j]
      BY <2>1, <3>1
    <3>3. UNCHANGED connections
      BY <2>9 DEF ObserveNewMem
    <3> QED
      BY <2>2, <3>2, <3>3
  <2>10. CASE EstablishBaseline
    <3>1. /\ DOMAIN connections' = DOMAIN connections /\ baseline_ready' = TRUE
          /\ \A i \in DOMAIN connections : connections[i] \in MappedConnection
          /\ \A i \in DOMAIN mem_regions : mem_regions[i] \in MappedMemRegion
      BY <2>1, <2>10 DEF EstablishBaseline, Trust
    <3>2. \A i \in DOMAIN connections :
             connections'[i].status =
                IF connections[i].status = "UNKNOWN" THEN "TRUSTED" ELSE connections[i].status
      BY <2>10, <3>1 DEF EstablishBaseline, Trust, MappedConnection
    <3>3. \A i \in DOMAIN mem_regions :
             mem_regions'[i].status =
                IF mem_regions[i].status = "UNKNOWN" THEN "TRUSTED" ELSE mem_regions[i].status
      BY <2>10, <3>1 DEF EstablishBaseline, Trust, MappedMemRegion
    <3> QED
      BY <3>1, <3>2, <3>3
  <2>11. CASE UNCHANGED territoryVars
    BY <2>2, <2>3, <2>11 DEF territoryVars
  <2> HIDE DEF C, M
  <2> QED
    BY <1>1, <2>4, <2>5, <2>6, <2>7, <2>8, <2>9, <2>10, <2>11 DEF TerritoryNext
<1> QED
  BY <1>1, TerritoryInitInv, TerritoryStep, PTL DEF TerritorySpec, TrustIsEarned
=============================================================================
