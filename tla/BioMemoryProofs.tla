-------------------------- MODULE BioMemoryProofs --------------------------
(***************************************************************************)
(* Proofs about BioMemory, for every size of memory, request and table.    *)
(***************************************************************************)
EXTENDS BioMemory, WellFoundedInduction, TLAPS

\* How many cells a block has is what its release will compute.
Extent(b) ==
    CASE b.kind = "CELL"   -> 1
      [] b.kind = "TISSUE" -> CellsFor(b.size)
      [] b.kind = "HEDGED" -> CellsFor(b.size * b.replicas)

Whole == \A b \in held : b.cells = Extent(b) /\ b.cells > 0

\* Exclusive is inductive only with the agreement of the table: hedged_free takes the
\* size it gives back from the record and not from its caller.
MemInv == TypeOK /\ Whole /\ Exclusive /\ RecordsAgree

\* The number of cells of a request is a natural number.
LEMMA CellsForNat == ASSUME NEW x \in Nat PROVE CellsFor(x) \in Nat
<1>1. CellSize \in Nat \ {0} /\ CellWord \in Nat \ {0}
  BY MemoryAssumption
<1>2. ((x + CellSize - 1) \div CellSize) \in Int
  BY <1>1
<1> HIDE DEF CellsFor
<1>3. \A y \in Int : y % CellWord \in Nat
  BY <1>1
<1> QED
  BY <1>2, <1>3 DEF CellsFor

\* A block that has cells has its first one.
LEMMA StartHeld ==
    ASSUME NEW b, b.start \in CellIds, b.cells \in Nat, b.cells > 0
    PROVE  b.start \in CellsOf(b)
BY MemoryAssumption DEF CellsOf, Row, CellIds

\* Two blocks never begin at the same cell.
LEMMA StartsDiffer ==
    ASSUME MemInv, NEW b \in held, NEW d \in held, b.start = d.start
    PROVE  b = d
<1>1. b \in Blocks /\ d \in Blocks /\ b.cells > 0 /\ d.cells > 0
  BY DEF MemInv, TypeOK, Whole
<1>2. b.start \in CellsOf(b) /\ d.start \in CellsOf(d)
  BY <1>1, StartHeld DEF Blocks
<1> QED
  BY <1>2 DEF MemInv, Exclusive

\* The search of the table finds the record of a replicated block.
LEMMA IndexFound ==
    ASSUME MemInv, NEW b \in held, b.kind = "HEDGED"
    PROVE  /\ Index(b.start) \in DOMAIN table
           /\ Same(table[Index(b.start)], b)
           /\ \A i \in DOMAIN table : table[i].base = b.start => i = Index(b.start)
<1>1. PICK i \in DOMAIN table : Same(table[i], b)
  BY DEF MemInv, RecordsAgree
<1>2. DOMAIN table = 1 .. Len(table) /\ Len(table) \in Nat
  BY DEF MemInv, TypeOK
<1>3. \A j \in DOMAIN table : table[j].base = b.start => j = i
  BY <1>1 DEF MemInv, RecordsAgree, Same
<1>4. \A j \in 1 .. i - 1 : table[j].base # b.start
  BY <1>2, <1>3
<1>5. table[i].base = b.start
  BY <1>1 DEF Same
<1>6. Index(b.start) \in DOMAIN table /\ table[Index(b.start)].base = b.start
  BY <1>4, <1>5 DEF Index
<1>7. Index(b.start) = i
  BY <1>3, <1>6
<1> QED
  BY <1>1, <1>3, <1>7

\* The static initial values satisfy the invariant.
LEMMA InitMemInv == Init => MemInv
<1> SUFFICES ASSUME Init PROVE MemInv
  OBVIOUS
<1>1. TypeOK
  BY MemoryAssumption DEF Init, TypeOK
<1> QED
  BY <1>1 DEF Init, MemInv, Whole, Exclusive, RecordsAgree

----------------------------------------------------------------------------
\* A block of free cells that is handed out is nobody else's.
LEMMA TakeExclusive ==
    ASSUME MemInv, NEW x, NEW c \in CellIds, NEW n \in Nat, n > 0,
           Row(c, n) \subseteq Free, x.start = c, x.cells = n,
           held' = held \union {x}, bitmap \union Row(c, n) \subseteq bitmap'
    PROVE  Exclusive'
<1>1. CellsOf(x) = Row(c, n) /\ CellsOf(x) \intersect bitmap = {}
  BY DEF CellsOf, Free
<1>2. \A b \in held : CellsOf(b) \subseteq bitmap
  BY DEF MemInv, Exclusive
<1>3. \A b \in held' : CellsOf(b) \subseteq bitmap'
  BY <1>1, <1>2
<1>4. \A b, d \in held' : b # d => CellsOf(b) \intersect CellsOf(d) = {}
  BY <1>1, <1>2 DEF MemInv, Exclusive
<1> QED
  BY <1>3, <1>4 DEF Exclusive

\* Giving back no more than one's own cells leaves the other blocks intact.
LEMMA DropExclusive ==
    ASSUME MemInv, NEW b \in held, held' = held \ {b},
           bitmap \ CellsOf(b) \subseteq bitmap'
    PROVE  Exclusive' /\ Whole'
<1>1. \A d \in held' : CellsOf(d) \subseteq bitmap'
  BY DEF MemInv, Exclusive
<1>2. Exclusive'
  BY <1>1 DEF MemInv, Exclusive
<1>3. Whole'
  BY DEF MemInv, Whole
<1> QED
  BY <1>2, <1>3

\* Writing into a block, or counting a read, changes who holds nothing.
LEMMA SwapExclusive ==
    ASSUME MemInv, NEW b \in held, NEW d, held' = (held \ {b}) \union {d},
           bitmap' = bitmap, d.kind = b.kind, d.start = b.start, d.cells = b.cells,
           d.size = b.size, d.replicas = b.replicas
    PROVE  Exclusive' /\ Whole'
<1>1. CellsOf(d) = CellsOf(b) /\ Extent(d) = Extent(b)
  BY DEF CellsOf, Extent
<1>2. Exclusive'
  <2>1. \A x \in held' : CellsOf(x) \subseteq bitmap'
    BY <1>1 DEF MemInv, Exclusive
  <2>2. \A x \in held \ {b} : CellsOf(x) \intersect CellsOf(d) = {}
    BY <1>1 DEF MemInv, Exclusive
  <2>3. \A x, y \in held' : x # y => CellsOf(x) \intersect CellsOf(y) = {}
    BY <2>2 DEF MemInv, Exclusive
  <2> QED
    BY <2>1, <2>3 DEF Exclusive
<1>3. Whole'
  BY <1>1 DEF MemInv, Whole
<1> QED
  BY <1>2, <1>3

\* What a fresh block looks like.
LEMMA BlockFields ==
    ASSUME NEW kind, NEW c, NEW n, NEW bytes, NEW replicas
    PROVE  LET x == Block(kind, c, n, bytes, replicas)
           IN  /\ x.kind = kind /\ x.start = c /\ x.cells = n /\ x.size = bytes
               /\ x.replicas = replicas /\ x.reads = 0
BY DEF Block

\* A fresh block has the type of a block.
LEMMA BlockType ==
    ASSUME NEW kind \in {"CELL", "TISSUE", "HEDGED"}, NEW c \in CellIds, NEW n \in Nat,
           NEW bytes \in Sizes \union {CellSize}, NEW replicas \in Nat
    PROVE  Block(kind, c, n, bytes, replicas) \in Blocks
<1>1. bytes \in Nat /\ 0 \in 0 .. MaxReads
  BY MemoryAssumption
<1>2. [k \in 0 .. bytes - 1 |-> Unwritten] \in [0 .. bytes - 1 -> Values \union {Unwritten}]
  OBVIOUS
<1>3. [k \in 0 .. bytes - 1 |-> Unwritten] \in Contents
  BY <1>2 DEF Contents
<1> QED
  BY <1>1, <1>3 DEF Block, Blocks

\* The table is untouched and so are the replicated blocks.
LEMMA OtherRecords ==
    ASSUME MemInv, table' = table,
           {b \in held' : b.kind = "HEDGED"} = {b \in held : b.kind = "HEDGED"}
    PROVE  RecordsAgree'
<1>1. \A b : b \in held' /\ b.kind = "HEDGED" <=> b \in held /\ b.kind = "HEDGED"
  OBVIOUS
<1> QED
  BY <1>1 DEF MemInv, RecordsAgree, Same

\* bio_allocate_cell keeps the invariant.
LEMMA AllocateCellInv == ASSUME MemInv, AllocateCell PROVE MemInv'
<1> DEFINE skipped == {c \in Free : c = Min(Free) /\ Pointer(c) = Null}
           left    == Free \ skipped
           taken   == {c \in left : c = Min(left)}
           fresh(c) == Block("CELL", c, 1, CellSize, 1)
<1>1. /\ bitmap' = bitmap \union skipped \union taken
      /\ held' = held \union {fresh(c) : c \in taken}
      /\ signal' \in {"NONE", "PRESSURE"}
      /\ UNCHANGED <<memory, table>>
  BY DEF AllocateCell
<1>2. skipped \subseteq CellIds /\ taken \subseteq CellIds /\ taken \subseteq Free
  BY DEF Free
<1>3. \A c \in taken : taken = {c}
  OBVIOUS
<1> HIDE DEF skipped, left, taken
<1>4. \A c \in taken : fresh(c) \in Blocks /\ fresh(c).kind = "CELL"
                       /\ fresh(c).start = c /\ fresh(c).cells = 1
  BY <1>2, BlockType, BlockFields, MemoryAssumption
<1> HIDE DEF fresh
<1>5. TypeOK'
  BY <1>1, <1>2, <1>4 DEF MemInv, TypeOK
<1>6. Whole'
  <2>1. \A c \in taken : Extent(fresh(c)) = 1
    BY <1>4 DEF Extent
  <2> QED
    BY <1>1, <1>4, <2>1 DEF MemInv, Whole
<1>7. Exclusive'
  <2>1. CASE taken = {}
    BY <1>1, <2>1 DEF MemInv, Exclusive
  <2>2. CASE taken # {}
    <3>1. PICK c \in taken : TRUE
      BY <2>2
    <3>2. taken = {c} /\ c \in CellIds /\ c \in Int
      BY <1>2, <1>3, <3>1 DEF CellIds
    <3>3. Row(c, 1) = {c}
      BY <3>2 DEF Row
    <3>4. held' = held \union {fresh(c)} /\ bitmap \union Row(c, 1) \subseteq bitmap'
      BY <1>1, <3>2, <3>3
    <3>5. fresh(c).start = c /\ fresh(c).cells = 1 /\ Row(c, 1) \subseteq Free
      BY <1>2, <1>4, <3>2, <3>3
    <3> QED
      BY <3>2, <3>4, <3>5, TakeExclusive
  <2> QED
    BY <2>1, <2>2
<1>8. RecordsAgree'
  BY <1>1, <1>4, OtherRecords
<1> QED
  BY <1>5, <1>6, <1>7, <1>8 DEF MemInv

\* bio_free_cell keeps the invariant.
LEMMA FreeCellInv == ASSUME MemInv, NEW b \in held, FreeCell(b) PROVE MemInv'
<1>1. b \in Blocks /\ b.kind = "CELL" /\ b.cells = 1
  BY DEF MemInv, TypeOK, Whole, Extent, FreeCell
<1>2. /\ bitmap' = bitmap \ {b.start} /\ held' = held \ {b}
      /\ signal' = "NONE" /\ UNCHANGED <<memory, table>>
  BY DEF FreeCell
<1>3. b.start \in CellsOf(b)
  BY <1>1, StartHeld DEF Blocks
<1>4. TypeOK'
  BY <1>2 DEF MemInv, TypeOK
<1>5. Exclusive' /\ Whole'
  BY <1>2, <1>3, DropExclusive
<1>6. RecordsAgree'
  BY <1>1, <1>2, OtherRecords
<1> QED
  BY <1>4, <1>5, <1>6 DEF MemInv

\* bio_allocate_neural_tissue keeps the invariant.
LEMMA AllocateTissueInv ==
    ASSUME MemInv, NEW bytes \in Sizes, AllocateTissue(bytes) PROVE MemInv'
<1> DEFINE n == CellsFor(bytes)
<1>1. PICK c \in Gaps(n) :
        /\ bitmap' = bitmap \union Row(c, n)
        /\ held' = held \union HandOut("TISSUE", c, n, bytes, 1)
        /\ signal' = "NONE" /\ UNCHANGED <<memory, table>>
  BY DEF AllocateTissue
<1>2. c \in CellIds /\ n \in Nat /\ n > 0 /\ Row(c, n) \subseteq Free
  BY MemoryAssumption, CellsForNat DEF Gaps
<1> DEFINE x == Block("TISSUE", c, n, bytes, 1)
<1>3. /\ x \in Blocks /\ x.kind = "TISSUE" /\ x.start = c /\ x.cells = n
      /\ x.size = bytes
  BY <1>2, BlockType, BlockFields
<1>4. held' = held \/ held' = held \union {x}
  BY <1>1 DEF HandOut
<1> HIDE DEF x
<1>5. TypeOK'
  BY <1>1, <1>2, <1>3, <1>4 DEF MemInv, TypeOK, Free
<1>6. Extent(x) = n
  BY <1>3 DEF Extent
<1> HIDE DEF n
<1>7. Whole'
  BY <1>2, <1>3, <1>4, <1>6 DEF MemInv, Whole
<1>8. Exclusive'
  <2>1. CASE held' = held
    BY <1>1, <2>1 DEF MemInv, Exclusive
  <2>2. CASE held' = held \union {x}
    BY <1>1, <1>2, <1>3, <2>2, TakeExclusive
  <2> QED
    BY <1>4, <2>1, <2>2
<1>9. RecordsAgree'
  BY <1>1, <1>3, <1>4, OtherRecords
<1> QED
  BY <1>5, <1>7, <1>8, <1>9 DEF MemInv

\* A purge leaves the memory a memory.
LEMMA PurgeType ==
    ASSUME MemInv, NEW c, NEW bytes, Purge(c, bytes)
    PROVE  memory' \in [Bytes -> Values \union {0}] /\ bitmap' \subseteq CellIds
BY DEF MemInv, TypeOK, Purge

\* bio_apoptosis keeps the invariant.
LEMMA ApoptosisInv == ASSUME MemInv, NEW b \in held, Apoptosis(b) PROVE MemInv'
<1>1. b \in Blocks /\ b.kind = "TISSUE" /\ b.cells = CellsFor(b.size)
  BY DEF MemInv, TypeOK, Whole, Extent, Apoptosis
<1>2. /\ Purge(b.start, b.size) /\ held' = held \ {b} /\ signal' = "NONE" /\ table' = table
  BY DEF Apoptosis
<1>3. Purged(b.start, b.size) \subseteq CellsOf(b)
  BY <1>1 DEF Purged, CellsOf
<1>4. bitmap \ CellsOf(b) \subseteq bitmap'
  BY <1>2, <1>3 DEF Purge
<1>5. TypeOK'
  BY <1>2, PurgeType DEF MemInv, TypeOK
<1>6. Exclusive' /\ Whole'
  BY <1>2, <1>4, DropExclusive
<1>7. RecordsAgree'
  BY <1>1, <1>2, OtherRecords
<1> QED
  BY <1>5, <1>6, <1>7 DEF MemInv

\* New data in a block's place is a block again, with the same cells.
LEMMA DataBlock ==
    ASSUME NEW b \in Blocks, NEW v \in Values, NEW f \in [DOMAIN b.data -> {v} \union Range(b.data)],
           NEW d, d = [b EXCEPT !.data = f]
    PROVE  /\ d \in Blocks /\ d.kind = b.kind /\ d.start = b.start /\ d.cells = b.cells
           /\ d.size = b.size /\ d.replicas = b.replicas /\ d.reads = b.reads
<1>1. PICK n \in Sizes \union {CellSize} : b.data \in [0 .. n - 1 -> Values \union {Unwritten}]
  BY DEF Blocks, Contents
<1>2. f \in [0 .. n - 1 -> Values \union {Unwritten}]
  BY <1>1 DEF Range
<1>3. f \in Contents
  BY <1>2 DEF Contents
<1> QED
  BY <1>3 DEF Blocks

\* A block is replaced by one with the same record.
LEMMA SwapRecords ==
    ASSUME MemInv, table' = table, NEW b \in held, NEW d, held' = (held \ {b}) \union {d},
           d.kind = b.kind, d.start = b.start, d.size = b.size,
           d.replicas = b.replicas, d.reads = b.reads
    PROVE  RecordsAgree'
<1>1. \A rec : Same(rec, b) <=> Same(rec, d)
  BY DEF Same
<1>2. \A i \in DOMAIN table : \E x \in held' : Same(table[i], x)
  <2> SUFFICES ASSUME NEW i \in DOMAIN table PROVE \E x \in held' : Same(table[i], x)
    OBVIOUS
  <2>1. PICK x \in held : Same(table[i], x)
    BY DEF MemInv, RecordsAgree
  <2>2. CASE x = b
    BY <1>1, <2>1, <2>2
  <2>3. CASE x # b
    BY <2>1, <2>3
  <2> QED
    BY <2>2, <2>3
<1>3. \A x \in held' : x.kind = "HEDGED" => \E i \in DOMAIN table : Same(table[i], x)
  <2> SUFFICES ASSUME NEW x \in held', x.kind = "HEDGED"
               PROVE  \E i \in DOMAIN table : Same(table[i], x)
    OBVIOUS
  <2>1. CASE x \in held
    BY <2>1 DEF MemInv, RecordsAgree
  <2>2. CASE x = d
    BY <1>1, <2>2 DEF MemInv, RecordsAgree
  <2> QED
    BY <2>1, <2>2
<1> QED
  BY <1>2, <1>3 DEF MemInv, RecordsAgree

\* A holder's write keeps the invariant.
LEMMA WriteInv == ASSUME MemInv, NEW b \in held, NEW v \in Values, Write(b, v) PROVE MemInv'
<1> DEFINE d == [b EXCEPT !.data = [k \in DOMAIN b.data |-> v]]
<1>1. b \in Blocks
  BY DEF MemInv, TypeOK
<1>f. [k \in DOMAIN b.data |-> v] \in [DOMAIN b.data -> {v} \union Range(b.data)]
  OBVIOUS
<1>2. /\ d \in Blocks /\ d.kind = b.kind /\ d.start = b.start /\ d.cells = b.cells
      /\ d.size = b.size /\ d.replicas = b.replicas /\ d.reads = b.reads
  BY <1>1, <1>f, DataBlock
<1>3. /\ held' = (held \ {b}) \union {d} /\ signal' = "NONE" /\ UNCHANGED <<bitmap, table>>
      /\ memory' \in [Bytes -> Values \union {0}]
  BY DEF Write, MemInv, TypeOK
<1> HIDE DEF d
<1>4. TypeOK'
  BY <1>2, <1>3 DEF MemInv, TypeOK
<1>5. Exclusive' /\ Whole'
  BY <1>2, <1>3, SwapExclusive
<1>6. RecordsAgree'
  BY <1>2, <1>3, SwapRecords
<1> QED
  BY <1>4, <1>5, <1>6 DEF MemInv

\* hedged_replicate_data keeps the invariant.
LEMMA ReplicateInv ==
    ASSUME MemInv, NEW b \in held, NEW v \in Values, NEW n \in Sizes, Replicate(b, v, n)
    PROVE  MemInv'
<1> DEFINE d == [b EXCEPT !.data = [k \in DOMAIN b.data |-> IF k < n THEN v ELSE b.data[k]]]
<1>1. b \in Blocks
  BY DEF MemInv, TypeOK
<1>f. [k \in DOMAIN b.data |-> IF k < n THEN v ELSE b.data[k]]
        \in [DOMAIN b.data -> {v} \union Range(b.data)]
  BY DEF Range
<1>2. /\ d \in Blocks /\ d.kind = b.kind /\ d.start = b.start /\ d.cells = b.cells
      /\ d.size = b.size /\ d.replicas = b.replicas /\ d.reads = b.reads
  BY <1>1, <1>f, DataBlock
<1>3. /\ held' = (held \ {b}) \union {d} /\ signal' = "NONE" /\ UNCHANGED <<bitmap, table>>
      /\ memory' \in [Bytes -> Values \union {0}]
  BY DEF Replicate, MemInv, TypeOK
<1> HIDE DEF d
<1>4. TypeOK'
  BY <1>2, <1>3 DEF MemInv, TypeOK
<1>5. Exclusive' /\ Whole'
  BY <1>2, <1>3, SwapExclusive
<1>6. RecordsAgree'
  BY <1>2, <1>3, SwapRecords
<1> QED
  BY <1>4, <1>5, <1>6 DEF MemInv

----------------------------------------------------------------------------
\* The record hedged_malloc appends agrees with the block it returns.
LEMMA AppendRecords ==
    ASSUME MemInv, NEW x, NEW rec, x.kind = "HEDGED", Same(rec, x),
           \A b \in held : b.start # x.start,
           held' = held \union {x}, table' = Append(table, rec)
    PROVE  RecordsAgree'
<1>1. table \in Seq(Records) /\ DOMAIN table = 1 .. Len(table) /\ Len(table) \in Nat
  BY DEF MemInv, TypeOK
<1>2. /\ DOMAIN table' = 1 .. Len(table) + 1
      /\ \A i \in DOMAIN table : table'[i] = table[i]
      /\ table'[Len(table) + 1] = rec
  BY <1>1
<1>3. \A i \in DOMAIN table : table[i].base # rec.base
  BY DEF MemInv, RecordsAgree, Same
<1>4. \A i \in DOMAIN table' : i \in DOMAIN table \/ i = Len(table) + 1
  BY <1>1, <1>2
<1>5. \A i, j \in DOMAIN table' : table'[i].base = table'[j].base => i = j
  BY <1>2, <1>3, <1>4 DEF MemInv, RecordsAgree
<1>6. \A i \in DOMAIN table' : \E b \in held' : Same(table'[i], b)
  BY <1>2, <1>4 DEF MemInv, RecordsAgree
<1>7. \A b \in held' : b.kind = "HEDGED" => \E i \in DOMAIN table' : Same(table'[i], b)
  <2> SUFFICES ASSUME NEW b \in held', b.kind = "HEDGED"
               PROVE  \E i \in DOMAIN table' : Same(table'[i], b)
    OBVIOUS
  <2>1. CASE b \in held
    <3>1. PICK i \in DOMAIN table : Same(table[i], b)
      BY <2>1 DEF MemInv, RecordsAgree
    <3>2. i \in DOMAIN table' /\ table'[i] = table[i]
      BY <1>1, <1>2
    <3> QED
      BY <3>1, <3>2
  <2>2. CASE b = x
    <3>1. Len(table) + 1 \in DOMAIN table'
      BY <1>1, <1>2
    <3> QED
      BY <1>2, <2>2, <3>1
  <2> QED
    BY <2>1, <2>2
<1> QED
  BY <1>5, <1>6, <1>7 DEF RecordsAgree

\* hedged_malloc keeps the invariant.
LEMMA HedgedMallocInv ==
    ASSUME MemInv, NEW bytes \in Sizes, NEW replicas \in Counts, HedgedMalloc(bytes, replicas)
    PROVE  MemInv'
<1> DEFINE n == CellsFor(bytes * replicas)
<1>0. /\ bytes \in Nat /\ replicas \in Nat /\ bytes * replicas \in Nat
      /\ MaxReplicas \in Nat /\ MaxAllocations \in Nat /\ MaxReads \in Nat
  BY MemoryAssumption
<1>1. PICK c \in Gaps(n) :
        /\ bitmap' = bitmap \union Row(c, n)
        /\ held' = held \union HandOut("HEDGED", c, n, bytes, replicas)
        /\ table' = IF Pointer(c) = Null THEN table
                    ELSE Append(table, [base |-> c, size |-> bytes,
                                        replicas |-> replicas, reads |-> 0])
  BY DEF HedgedMalloc
<1>2. /\ c \in CellIds /\ n \in Nat /\ n > 0 /\ Row(c, n) \subseteq Free
      /\ signal' = "NONE" /\ memory' = memory /\ Len(table) < MaxAllocations
      /\ replicas \in 1 .. MaxReplicas
  BY <1>0, CellsForNat DEF Gaps, HedgedMalloc, Admitted
<1> DEFINE x == Block("HEDGED", c, n, bytes, replicas)
           rec == [base |-> c, size |-> bytes, replicas |-> replicas, reads |-> 0]
<1>3. /\ x \in Blocks /\ x.kind = "HEDGED" /\ x.start = c /\ x.cells = n
      /\ x.size = bytes /\ x.replicas = replicas /\ x.reads = 0
  BY <1>0, <1>2, BlockType, BlockFields
<1>4. Same(rec, x) /\ rec \in Records
  BY <1>0, <1>2, <1>3 DEF Same, Records
<1>5. \/ held' = held /\ table' = table
      \/ held' = held \union {x} /\ table' = Append(table, rec)
  BY <1>1 DEF HandOut
<1> HIDE DEF x, rec
<1>6. TypeOK'
  <2>1. table' \in Seq(Records) /\ Len(table') <= MaxAllocations
    BY <1>0, <1>2, <1>4, <1>5 DEF MemInv, TypeOK
  <2> QED
    BY <1>1, <1>2, <1>3, <1>5, <2>1 DEF MemInv, TypeOK, Free
<1>7. Extent(x) = n
  BY <1>3 DEF Extent
<1> HIDE DEF n
<1>8. Whole'
  BY <1>2, <1>3, <1>5, <1>7 DEF MemInv, Whole
<1>9. Exclusive'
  <2>1. CASE held' = held
    BY <1>1, <2>1 DEF MemInv, Exclusive
  <2>2. CASE held' = held \union {x}
    BY <1>1, <1>2, <1>3, <2>2, TakeExclusive
  <2> QED
    BY <1>5, <2>1, <2>2
<1>10. RecordsAgree'
  <2>1. CASE held' = held /\ table' = table
    BY <2>1 DEF MemInv, RecordsAgree
  <2>2. CASE held' = held \union {x} /\ table' = Append(table, rec)
    <3>1. c \notin bitmap
      BY <1>2, MemoryAssumption DEF Row, Free, CellIds
    <3>2. \A b \in held : b.start \in bitmap
      <4> SUFFICES ASSUME NEW b \in held PROVE b.start \in bitmap
        OBVIOUS
      <4>1. b \in Blocks /\ b.cells > 0 /\ CellsOf(b) \subseteq bitmap
        BY DEF MemInv, TypeOK, Whole, Exclusive
      <4>2. b.start \in CellsOf(b)
        BY <4>1, StartHeld DEF Blocks
      <4> QED
        BY <4>1, <4>2
    <3> QED
      BY <1>3, <1>4, <2>2, <3>1, <3>2, AppendRecords
  <2> QED
    BY <1>5, <2>1, <2>2
<1> QED
  BY <1>6, <1>8, <1>9, <1>10 DEF MemInv

\* A record with one more read is a record.
LEMMA CountedRecord ==
    ASSUME NEW rec \in Records, rec.reads < MaxReads
    PROVE  [rec EXCEPT !.reads = @ + 1] \in Records
<1>1. rec.reads + 1 \in 0 .. MaxReads
  BY MemoryAssumption DEF Records
<1> QED
  BY <1>1 DEF Records

\* hedged_read keeps the invariant: it counts in the record of its own block.
LEMMA HedgedReadInv == ASSUME MemInv, NEW b \in held, HedgedRead(b) PROVE MemInv'
<1> DEFINE d == [b EXCEPT !.reads = @ + 1]
           n == Index(b.start)
<1>1. b \in Blocks /\ b.kind = "HEDGED" /\ b.reads < MaxReads /\ MaxReads \in Nat
  BY MemoryAssumption DEF MemInv, TypeOK, HedgedRead
<1>2. /\ d \in Blocks /\ d.kind = b.kind /\ d.start = b.start /\ d.cells = b.cells
      /\ d.size = b.size /\ d.replicas = b.replicas /\ d.reads = b.reads + 1
  BY <1>1 DEF Blocks
<1>3. /\ held' = (held \ {b}) \union {d} /\ signal' = "NONE" /\ UNCHANGED <<bitmap, memory>>
      /\ table' = [table EXCEPT ![n].reads = @ + 1]
  BY DEF HedgedRead
<1> HIDE DEF d
<1>4. /\ n \in DOMAIN table /\ Same(table[n], b)
      /\ \A i \in DOMAIN table : table[i].base = b.start => i = n
  BY <1>1, IndexFound
<1> HIDE DEF n
<1>5. table \in Seq(Records) /\ DOMAIN table = 1 .. Len(table) /\ table[n] \in Records
  BY <1>4 DEF MemInv, TypeOK
<1>6. [table[n] EXCEPT !.reads = @ + 1] \in Records
  <2>1. table[n].reads < MaxReads
    BY <1>1, <1>4 DEF Same
  <2> QED
    BY <1>5, <2>1, CountedRecord
<1>7. /\ table' \in Seq(Records) /\ Len(table') = Len(table) /\ DOMAIN table' = DOMAIN table
      /\ table'[n] = [table[n] EXCEPT !.reads = @ + 1]
      /\ \A i \in DOMAIN table : i # n => table'[i] = table[i]
  BY <1>3, <1>4, <1>5, <1>6
<1>8. TypeOK'
  BY <1>2, <1>3, <1>7 DEF MemInv, TypeOK
<1>9. Exclusive' /\ Whole'
  BY <1>2, <1>3, SwapExclusive
<1>10. Same(table'[n], d)
  BY <1>2, <1>4, <1>5, <1>7 DEF Same, Records
<1>11. \A i \in DOMAIN table : table'[i].base = table[i].base
  BY <1>5, <1>7 DEF Records
<1>12. \A i \in DOMAIN table' : \E x \in held' : Same(table'[i], x)
  <2> SUFFICES ASSUME NEW i \in DOMAIN table PROVE \E x \in held' : Same(table'[i], x)
    BY <1>7
  <2>1. CASE i = n
    BY <1>3, <1>10, <2>1
  <2>2. CASE i # n
    <3>1. PICK x \in held : Same(table[i], x)
      BY DEF MemInv, RecordsAgree
    <3>2. x # b
      BY <1>4, <2>2, <3>1 DEF Same
    <3> QED
      BY <1>3, <1>7, <2>2, <3>1, <3>2
  <2> QED
    BY <2>1, <2>2
<1>13. \A x \in held' : x.kind = "HEDGED" => \E i \in DOMAIN table' : Same(table'[i], x)
  <2> SUFFICES ASSUME NEW x \in held', x.kind = "HEDGED"
               PROVE  \E i \in DOMAIN table' : Same(table'[i], x)
    OBVIOUS
  <2>1. CASE x = d
    BY <1>4, <1>7, <1>10, <2>1
  <2>2. CASE x # d
    <3>1. x \in held /\ x # b
      BY <1>3, <2>2
    <3>2. PICK i \in DOMAIN table : Same(table[i], x)
      BY <3>1 DEF MemInv, RecordsAgree
    <3>3. i # n
      BY <1>4, <3>1, <3>2, StartsDiffer DEF Same
    <3> QED
      BY <1>7, <3>2, <3>3
  <2> QED
    BY <2>1, <2>2
<1>14. RecordsAgree'
  <2>1. \A i, j \in DOMAIN table' : table'[i].base = table'[j].base => i = j
    BY <1>7, <1>11 DEF MemInv, RecordsAgree
  <2> QED
    BY <1>12, <1>13, <2>1 DEF RecordsAgree
<1> QED
  BY <1>8, <1>9, <1>14 DEF MemInv

\* hedged_free moves the last record to the place of the one it drops.
LEMMA RemoveRecords ==
    ASSUME MemInv, NEW b \in held, b.kind = "HEDGED", held' = held \ {b},
           table' = Remove(Index(b.start))
    PROVE  table' \in Seq(Records) /\ Len(table') <= MaxAllocations /\ RecordsAgree'
<1> DEFINE n == Index(b.start)
           m == Len(table)
<1>1. /\ n \in DOMAIN table /\ Same(table[n], b)
      /\ \A i \in DOMAIN table : table[i].base = b.start => i = n
  BY IndexFound
<1>2. /\ table \in Seq(Records) /\ DOMAIN table = 1 .. m /\ m \in Nat /\ m <= MaxAllocations
      /\ \A i \in DOMAIN table : table[i] \in Records
  BY DEF MemInv, TypeOK
<1>3. table' = [j \in 1 .. m - 1 |-> IF j = n THEN table[m] ELSE table[j]]
  BY DEF Remove
<1> HIDE DEF n, m
<1>4. n \in 1 .. m /\ m - 1 \in Nat /\ m \in 1 .. m
  BY <1>1, <1>2
<1>5. \A j \in 1 .. m - 1 : (IF j = n THEN table[m] ELSE table[j]) \in Records
  BY <1>2, <1>4
<1>6. table' \in Seq(Records) /\ Len(table') = m - 1 /\ DOMAIN table' = 1 .. m - 1
  BY <1>3, <1>4, <1>5
<1>7. /\ \A j \in 1 .. m - 1 : j # n => table'[j] = table[j]
      /\ n \in 1 .. m - 1 => table'[n] = table[m]
  BY <1>3
\* Where a record of the new table was before.
<1>8. \A j \in 1 .. m - 1 : \E i \in 1 .. m :
        i # n /\ table'[j] = table[i] /\ i = (IF j = n THEN m ELSE j)
  BY <1>4, <1>7
<1>9. \A i, j \in DOMAIN table' : table'[i].base = table'[j].base => i = j
  <2> SUFFICES ASSUME NEW i \in 1 .. m - 1, NEW j \in 1 .. m - 1,
                      table'[i].base = table'[j].base
               PROVE  i = j
    BY <1>6
  <2>1. PICK k \in 1 .. m : table'[i] = table[k] /\ k = (IF i = n THEN m ELSE i)
    BY <1>8
  <2>2. PICK l \in 1 .. m : table'[j] = table[l] /\ l = (IF j = n THEN m ELSE j)
    BY <1>8
  <2>3. k = l
    BY <1>2, <2>1, <2>2 DEF MemInv, RecordsAgree
  <2> QED
    BY <1>4, <2>1, <2>2, <2>3
<1>10. \A j \in DOMAIN table' : \E x \in held' : Same(table'[j], x)
  <2> SUFFICES ASSUME NEW j \in 1 .. m - 1 PROVE \E x \in held' : Same(table'[j], x)
    BY <1>6
  <2>1. PICK i \in 1 .. m : i # n /\ table'[j] = table[i]
    BY <1>8
  <2>2. PICK x \in held : Same(table[i], x)
    BY <1>2 DEF MemInv, RecordsAgree
  <2>3. x # b
    BY <1>1, <1>2, <2>1, <2>2 DEF Same
  <2> QED
    BY <2>1, <2>2, <2>3
<1>11. \A x \in held' : x.kind = "HEDGED" => \E j \in DOMAIN table' : Same(table'[j], x)
  <2> SUFFICES ASSUME NEW x \in held, x # b, x.kind = "HEDGED"
               PROVE  \E j \in 1 .. m - 1 : Same(table'[j], x)
    BY <1>6
  <2>1. PICK i \in 1 .. m : Same(table[i], x)
    BY <1>2 DEF MemInv, RecordsAgree
  <2>2. i # n
    BY <1>1, <2>1, StartsDiffer DEF Same
  <2>3. CASE i = m
    BY <1>4, <1>7, <2>1, <2>2, <2>3
  <2>4. CASE i # m
    BY <1>4, <1>7, <2>1, <2>2, <2>4
  <2> QED
    BY <2>3, <2>4
<1>12. Len(table') <= MaxAllocations
  BY <1>2, <1>6, MemoryAssumption
<1> QED
  BY <1>6, <1>9, <1>10, <1>11, <1>12 DEF RecordsAgree

\* hedged_free keeps the invariant: the record it reads is its own block's.
LEMMA HedgedFreeInv == ASSUME MemInv, NEW b \in held, HedgedFree(b) PROVE MemInv'
<1>1. b \in Blocks /\ b.kind = "HEDGED" /\ b.cells = CellsFor(b.size * b.replicas)
  BY DEF MemInv, TypeOK, Whole, Extent, HedgedFree
<1>2. /\ Purge(b.start, FreedBytes(Record(b.start))) /\ held' = held \ {b}
      /\ signal' = "NONE" /\ table' = Remove(Index(b.start))
  BY DEF HedgedFree
<1>3. FreedBytes(Record(b.start)) = b.size * b.replicas
  BY <1>1, IndexFound DEF FreedBytes, Record, Same
<1>4. Purge(b.start, b.size * b.replicas)
  BY <1>2, <1>3
<1>5. Purged(b.start, b.size * b.replicas) \subseteq CellsOf(b)
  BY <1>1 DEF Purged, CellsOf
<1>6. bitmap \ CellsOf(b) \subseteq bitmap'
  BY <1>4, <1>5 DEF Purge
<1>7. table' \in Seq(Records) /\ Len(table') <= MaxAllocations /\ RecordsAgree'
  BY <1>1, <1>2, RemoveRecords
<1>8. memory' \in [Bytes -> Values \union {0}] /\ bitmap' \subseteq CellIds
  BY <1>4, PurgeType
<1>9. TypeOK'
  BY <1>2, <1>7, <1>8 DEF MemInv, TypeOK
<1>10. Exclusive' /\ Whole'
  BY <1>2, <1>6, DropExclusive
<1> QED
  BY <1>7, <1>9, <1>10 DEF MemInv

\* Every step keeps the invariant.
LEMMA NextMemInv == MemInv /\ [Next]_vars => MemInv'
<1> SUFFICES ASSUME MemInv, [Next]_vars PROVE MemInv'
  OBVIOUS
<1>1. CASE AllocateCell
  BY <1>1, AllocateCellInv
<1>2. CASE MapCell
  BY <1>2 DEF MapCell, MemInv, TypeOK, Whole, Exclusive, RecordsAgree
<1>3. CASE \E bytes \in Sizes : AllocateTissue(bytes)
  BY <1>3, AllocateTissueInv
<1>4. CASE \E bytes \in Sizes, replicas \in Counts : HedgedMalloc(bytes, replicas)
  BY <1>4, HedgedMallocInv
<1>5. CASE \E b \in held : FreeCell(b) \/ Apoptosis(b) \/ HedgedRead(b) \/ HedgedFree(b)
  BY <1>5, FreeCellInv, ApoptosisInv, HedgedReadInv, HedgedFreeInv
<1>6. CASE \E b \in held, v \in Values : Write(b, v)
  BY <1>6, WriteInv
<1>7. CASE \E b \in held, v \in Values, n \in Sizes : Replicate(b, v, n)
  BY <1>7, ReplicateInv
<1>8. CASE UNCHANGED vars
  BY <1>8 DEF vars, MemInv, TypeOK, Whole, Exclusive, RecordsAgree
<1> QED
  BY <1>1, <1>2, <1>3, <1>4, <1>5, <1>6, <1>7, <1>8 DEF Next

\* Whatever is allocated, written, replicated and given back, in any order: the state has
\* its type, no cell has two holders or can be handed out while it is held, and the table
\* that hedged_free takes its sizes from has exactly the records of the replicated blocks.
THEOREM MemorySafety == Spec => [](TypeOK /\ Exclusive /\ RecordsAgree)
<1>1. MemInv => TypeOK /\ Exclusive /\ RecordsAgree
  BY DEF MemInv
<1> QED
  BY <1>1, InitMemInv, NextMemInv, PTL DEF Spec

\* The table that hedged_free trusts has one record for each replicated block that is
\* held, with its address, its size and its number of replicas, and no other record.
THEOREM MemoryRecords == Spec => []RecordsAgree
BY MemorySafety, PTL

----------------------------------------------------------------------------
\* With the memory away from address 0, every cell has an address.
LEMMA NoNull == ASSUME ~ZeroBase, NEW c \in CellIds PROVE Pointer(c) # Null
BY MemoryAssumption DEF Pointer, Null, CellIds

\* A taken cell has a holder, in the form the steps below use.
LEMMA LeakForm == NoLeak <=> \A c \in bitmap : \E b \in held : c \in CellsOf(b)
BY DEF NoLeak

\* Cells taken for a block that is handed out are not lost.
LEMMA TakeNoLeak ==
    ASSUME NoLeak, NEW x, held' = held \union {x}, bitmap' = bitmap \union CellsOf(x)
    PROVE  NoLeak'
<1>1. \A c \in bitmap : \E b \in held : c \in CellsOf(b)
  BY LeakForm
<1>2. \A c \in bitmap' : \E b \in held' : c \in CellsOf(b)
  BY <1>1
<1> QED
  BY <1>2 DEF NoLeak

\* A block given back gives back all its cells.
LEMMA DropNoLeak ==
    ASSUME NoLeak, NEW b \in held, held' = held \ {b}, bitmap' \subseteq bitmap \ CellsOf(b)
    PROVE  NoLeak'
<1>1. \A c \in bitmap : \E d \in held : c \in CellsOf(d)
  BY LeakForm
<1>2. \A c \in bitmap' : \E d \in held' : c \in CellsOf(d)
  BY <1>1
<1> QED
  BY <1>2 DEF NoLeak

\* A block replaced by one with the same cells loses none.
LEMMA SwapNoLeak ==
    ASSUME NoLeak, NEW b \in held, NEW d, held' = (held \ {b}) \union {d}, bitmap' = bitmap,
           d.start = b.start, d.cells = b.cells
    PROVE  NoLeak'
<1>1. \A c \in bitmap : \E x \in held : c \in CellsOf(x)
  BY LeakForm
<1>2. CellsOf(d) = CellsOf(b)
  BY DEF CellsOf
<1>3. \A c \in bitmap' : \E x \in held' : c \in CellsOf(x)
  BY <1>1, <1>2
<1> QED
  BY <1>3 DEF NoLeak

\* The allocations leak nothing when every cell has an address.
LEMMA AllocationsNoLeak ==
    ASSUME ~ZeroBase, NoLeak,
           \/ AllocateCell
           \/ \E bytes \in Sizes : AllocateTissue(bytes)
           \/ \E bytes \in Sizes, replicas \in Counts : HedgedMalloc(bytes, replicas)
    PROVE  NoLeak'
<1> DEFINE handed(kind, c, n, bytes, replicas) ==
             /\ held' = held \union {Block(kind, c, n, bytes, replicas)}
             /\ bitmap' = bitmap \union Row(c, n)
<1>1. ASSUME NEW kind, NEW c, NEW n, NEW bytes, NEW replicas, handed(kind, c, n, bytes, replicas)
      PROVE  NoLeak'
  <2> DEFINE x == Block(kind, c, n, bytes, replicas)
  <2>1. CellsOf(x) = Row(c, n)
    BY BlockFields DEF CellsOf
  <2>2. held' = held \union {x} /\ bitmap' = bitmap \union CellsOf(x)
    BY <1>1, <2>1
  <2> HIDE DEF x
  <2> QED
    BY <2>2, TakeNoLeak
<1>2. CASE AllocateCell
  <2> DEFINE skipped == {c \in Free : c = Min(Free) /\ Pointer(c) = Null}
             taken   == {c \in Free \ skipped : c = Min(Free \ skipped)}
  <2>1. /\ bitmap' = bitmap \union skipped \union taken
        /\ held' = held \union {Block("CELL", c, 1, CellSize, 1) : c \in taken}
    BY <1>2 DEF AllocateCell
  <2>2. skipped = {}
    BY NoNull DEF Free
  <2>3. taken \subseteq CellIds /\ \A c \in taken : taken = {c}
    BY DEF Free
  <2> HIDE DEF skipped, taken
  <2>4. CASE taken = {}
    <3>1. bitmap' = bitmap /\ held' = held
      BY <2>1, <2>2, <2>4
    <3> QED
      BY <3>1 DEF NoLeak
  <2>5. CASE taken # {}
    <3>0. PICK c \in taken : TRUE
      BY <2>5
    <3>1. taken = {c} /\ c \in Int
      BY <2>3, <3>0 DEF CellIds
    <3>2. Row(c, 1) = {c}
      BY <3>1 DEF Row
    <3>3. handed("CELL", c, 1, CellSize, 1)
      BY <2>1, <2>2, <3>1, <3>2
    <3> QED
      BY <3>3, <1>1
  <2> QED
    BY <2>4, <2>5
<1>3. CASE \E bytes \in Sizes : AllocateTissue(bytes)
  <2>1. PICK bytes \in Sizes : AllocateTissue(bytes)
    BY <1>3
  <2>2. PICK c \in Gaps(CellsFor(bytes)) :
          /\ bitmap' = bitmap \union Row(c, CellsFor(bytes))
          /\ held' = held \union HandOut("TISSUE", c, CellsFor(bytes), bytes, 1)
    BY <2>1 DEF AllocateTissue
  <2>3. handed("TISSUE", c, CellsFor(bytes), bytes, 1)
    BY <2>2, NoNull DEF HandOut, Gaps
  <2> QED
    BY <2>3, <1>1
<1>4. CASE \E bytes \in Sizes, replicas \in Counts : HedgedMalloc(bytes, replicas)
  <2>1. PICK bytes \in Sizes, replicas \in Counts : HedgedMalloc(bytes, replicas)
    BY <1>4
  <2> DEFINE n == CellsFor(bytes * replicas)
  <2>2. PICK c \in Gaps(n) :
          /\ bitmap' = bitmap \union Row(c, n)
          /\ held' = held \union HandOut("HEDGED", c, n, bytes, replicas)
    BY <2>1 DEF HedgedMalloc
  <2>3. handed("HEDGED", c, n, bytes, replicas)
    BY <2>2, NoNull DEF HandOut, Gaps
  <2> QED
    BY <2>3, <1>1
<1> QED
  BY <1>2, <1>3, <1>4

\* Giving back a cell, a tissue or a replicated block leaves none of its cells taken.
LEMMA ReleasesNoLeak ==
    ASSUME MemInv, NoLeak, NEW b \in held, FreeCell(b) \/ Apoptosis(b) \/ HedgedFree(b)
    PROVE  NoLeak'
<1>1. b \in Blocks /\ bitmap \subseteq CellIds /\ b.cells = Extent(b) /\ held' = held \ {b}
  BY DEF MemInv, TypeOK, Whole, FreeCell, Apoptosis, HedgedFree
<1>2. CASE FreeCell(b)
  <2>1. b.cells = 1 /\ b.start \in Int
    BY <1>1, <1>2, MemoryAssumption DEF FreeCell, Extent, Blocks, CellIds
  <2>2. CellsOf(b) = {b.start}
    BY <2>1 DEF CellsOf, Row
  <2>3. bitmap' \subseteq bitmap \ CellsOf(b)
    BY <1>2, <2>2 DEF FreeCell
  <2> QED
    BY <1>1, <2>3, DropNoLeak
<1>3. ASSUME NEW bytes, Purge(b.start, bytes), b.cells = CellsFor(bytes) PROVE NoLeak'
  <2>1. CellsOf(b) \intersect CellIds = Purged(b.start, bytes)
    BY <1>3 DEF CellsOf, Purged
  <2>2. bitmap' = bitmap \ Purged(b.start, bytes)
    BY <1>3 DEF Purge
  <2>3. bitmap' \subseteq bitmap \ CellsOf(b)
    BY <1>1, <2>1, <2>2
  <2> QED
    BY <1>1, <2>3, DropNoLeak
<1>4. CASE Apoptosis(b)
  <2>1. Purge(b.start, b.size) /\ b.cells = CellsFor(b.size)
    BY <1>1, <1>4 DEF Apoptosis, Extent
  <2> QED
    BY <1>3, <2>1
<1>5. CASE HedgedFree(b)
  <2>1. b.kind = "HEDGED" /\ b.cells = CellsFor(b.size * b.replicas)
    BY <1>1, <1>5 DEF HedgedFree, Extent
  <2>2. FreedBytes(Record(b.start)) = b.size * b.replicas
    BY <2>1, IndexFound DEF FreedBytes, Record, Same
  <2>3. Purge(b.start, b.size * b.replicas)
    BY <1>5, <2>2 DEF HedgedFree
  <2> QED
    BY <1>3, <2>1, <2>3
<1> QED
  BY <1>2, <1>4, <1>5

\* Every step keeps every used cell held.
LEMMA NextNoLeak == ~ZeroBase /\ MemInv /\ NoLeak /\ [Next]_vars => NoLeak'
<1> SUFFICES ASSUME ~ZeroBase, MemInv, NoLeak, [Next]_vars PROVE NoLeak'
  OBVIOUS
<1>0. held \subseteq Blocks
  BY DEF MemInv, TypeOK
<1>1. CASE \/ AllocateCell
           \/ \E bytes \in Sizes : AllocateTissue(bytes)
           \/ \E bytes \in Sizes, replicas \in Counts : HedgedMalloc(bytes, replicas)
  BY <1>1, AllocationsNoLeak
<1>2. CASE MapCell \/ UNCHANGED vars
  BY <1>2 DEF MapCell, vars, NoLeak
<1>3. CASE \E b \in held : FreeCell(b) \/ Apoptosis(b) \/ HedgedFree(b)
  BY <1>3, ReleasesNoLeak
<1>4. CASE \E b \in held : HedgedRead(b)
  <2>1. PICK b \in held : HedgedRead(b)
    BY <1>4
  <2> DEFINE d == [b EXCEPT !.reads = @ + 1]
  <2>2. held' = (held \ {b}) \union {d} /\ bitmap' = bitmap
    BY <2>1 DEF HedgedRead
  <2>3. d.start = b.start /\ d.cells = b.cells
    BY <1>0 DEF Blocks
  <2> HIDE DEF d
  <2> QED
    BY <2>2, <2>3, SwapNoLeak
<1>5. CASE \E b \in held, v \in Values : Write(b, v)
  <2>1. PICK b \in held, v \in Values : Write(b, v)
    BY <1>5
  <2> DEFINE d == [b EXCEPT !.data = [k \in DOMAIN b.data |-> v]]
  <2>2. held' = (held \ {b}) \union {d} /\ bitmap' = bitmap
    BY <2>1 DEF Write
  <2>3. d.start = b.start /\ d.cells = b.cells
    BY <1>0 DEF Blocks
  <2> HIDE DEF d
  <2> QED
    BY <2>2, <2>3, SwapNoLeak
<1>6. CASE \E b \in held, v \in Values, n \in Sizes : Replicate(b, v, n)
  <2>1. PICK b \in held, v \in Values, n \in Sizes : Replicate(b, v, n)
    BY <1>6
  <2> DEFINE d == [b EXCEPT !.data = [k \in DOMAIN b.data |-> IF k < n THEN v ELSE b.data[k]]]
  <2>2. held' = (held \ {b}) \union {d} /\ bitmap' = bitmap
    BY <2>1 DEF Replicate
  <2>3. d.start = b.start /\ d.cells = b.cells
    BY <1>0 DEF Blocks
  <2> HIDE DEF d
  <2> QED
    BY <2>2, <2>3, SwapNoLeak
<1> QED
  BY <1>1, <1>2, <1>3, <1>4, <1>5, <1>6 DEF Next

\* With the memory away from address 0, no cell is ever lost: what the bitmap marks as
\* used is always in a block that a caller holds and can give back.
THEOREM MemoryKept == ASSUME ~ZeroBase PROVE Spec => []NoLeak
<1>1. Init => NoLeak
  BY DEF Init, NoLeak
<1>2. MemInv /\ NoLeak /\ [Next]_vars => NoLeak'
  BY NextNoLeak
<1> QED
  BY <1>1, <1>2, InitMemInv, NextMemInv, PTL DEF Spec

----------------------------------------------------------------------------
\* What a holder reads back.

\* Callers ask for fewer cells than cells_needed, a uint32_t, can count: beyond it
\* bio_allocate_neural_tissue returns a block smaller than what it was asked for.
Countable ==
    \A bytes \in Sizes, n \in Counts \union {1} :
        (bytes * n + CellSize - 1) \div CellSize < CellWord

\* The address of byte k of copy r of a block.
At(b, r, k) == b.start * CellSize + r * b.size + k

\* The copies of a block lie in its cells.
Fits(b) ==
    /\ DOMAIN b.data = 0 .. b.size - 1
    /\ b.replicas \in Nat \ {0}
    /\ b.size * b.replicas <= b.cells * CellSize
    /\ b.kind # "HEDGED" => b.replicas = 1

\* Every copy of a block, not only the one that hedged_read prefers, has its data.
Faithful(b, mem) ==
    \A k \in 0 .. b.size - 1, r \in 0 .. b.replicas - 1 :
        b.data[k] # Unwritten => mem[At(b, r, k)] = b.data[k]

CopyInv == \A b \in held : Fits(b) /\ Faithful(b, memory)

\* A number by its quotient and the rest.
LEMMA Quotient ==
    ASSUME NEW n \in Nat \ {0}, NEW a \in Int
    PROVE  /\ a \div n \in Int /\ a % n \in 0 .. n - 1
           /\ a = n * (a \div n) + (a % n)
OBVIOUS

\* Comparing numbers by their quotients.
LEMMA QuotientOrder ==
    ASSUME NEW n \in Nat \ {0}, NEW x \in Int, NEW y \in Int,
           NEW r \in 0 .. n - 1, n * x <= n * y + r
    PROVE  x <= y
<1> SUFFICES ASSUME x >= y + 1 PROVE FALSE
  OBVIOUS
<1>1. PICK d \in Nat : x = y + 1 + d
  <2>1. x - (y + 1) \in Nat /\ x = y + 1 + (x - (y + 1))
    OBVIOUS
  <2> QED
    BY <2>1
<1>2. n * (y + 1 + d) = n * y + n + n * d
  OBVIOUS
<1>3. n * y \in Int /\ n * d \in Nat
  OBVIOUS
<1> QED
  BY <1>1, <1>2, <1>3

\* The cell of a byte that lies in a row of cells.
LEMMA CellOfByte ==
    ASSUME NEW n \in Nat \ {0}, NEW c \in Nat, NEW w \in Nat, NEW o \in Nat, o < w * n
    PROVE  (c * n + o) \div n \in c .. c + w - 1
<1> DEFINE u == c * n + o
           q == u \div n
           r == u % n
<1>1. c * n \in Nat /\ u \in Int
  OBVIOUS
<1>2. q \in Int /\ r \in 0 .. n - 1 /\ u = n * q + r
  BY <1>1, Quotient
<1>3. n * c <= n * q + r
  <2>1. n * c = c * n
    OBVIOUS
  <2> QED
    BY <1>1, <1>2, <2>1 DEF u
<1> HIDE DEF q, r
<1>4. c <= q
  BY <1>2, <1>3, QuotientOrder
<1>5. n * q < n * (c + w)
  <2>1. n * (c + w) = c * n + w * n /\ c * n \in Nat /\ w * n \in Nat /\ n * q \in Int
    BY <1>2
  <2>2. n * q <= u
    BY <1>1, <1>2, <2>1
  <2> QED
    BY <1>1, <2>1, <2>2 DEF u
<1>6. q < c + w
  <2> SUFFICES ASSUME q >= c + w PROVE FALSE
    BY <1>2
  <2>1. PICK d \in Nat : q = c + w + d
    <3>1. q - (c + w) \in Nat /\ q = c + w + (q - (c + w))
      BY <1>2
    <3> QED
      BY <3>1
  <2>2. n * (c + w + d) = n * (c + w) + n * d /\ n * d \in Nat /\ n * (c + w) \in Nat
    OBVIOUS
  <2> QED
    BY <1>5, <2>1, <2>2
<1>7. q \in c .. c + w - 1
  BY <1>2, <1>4, <1>6
<1> QED
  BY <1>7 DEF q, u

\* The offset of byte k of copy r is inside the block.
LEMMA OffsetFits ==
    ASSUME NEW s \in Nat, NEW m \in Nat, NEW r \in 0 .. m - 1, NEW k \in 0 .. s - 1
    PROVE  r * s + k \in Nat /\ r * s + k < s * m
<1>1. PICK d \in Nat : m = r + 1 + d
  <2>1. m - (r + 1) \in Nat /\ m = r + 1 + (m - (r + 1))
    OBVIOUS
  <2> QED
    BY <2>1
<1>2. s * (r + 1 + d) = r * s + s + s * d /\ s * d \in Nat /\ r * s \in Nat
  OBVIOUS
<1> QED
  BY <1>1, <1>2

\* The offsets of different bytes of the data differ, whatever their copies.
LEMMA OffsetsDiffer ==
    ASSUME NEW s \in Nat, NEW r \in Nat, NEW q \in Nat, NEW k \in 0 .. s - 1,
           NEW j \in 0 .. s - 1, r * s + k = q * s + j
    PROVE  k = j
<1>0. s \in Nat \ {0}
  OBVIOUS
<1>1. s * r <= s * q + j
  <2>1. s * r = r * s /\ s * q = q * s /\ r * s \in Nat /\ q * s \in Nat
    OBVIOUS
  <2> QED
    BY <2>1
<1>2. s * q <= s * r + k
  <2>1. s * r = r * s /\ s * q = q * s /\ r * s \in Nat /\ q * s \in Nat
    OBVIOUS
  <2> QED
    BY <2>1
<1>3. r <= q /\ q <= r
  BY <1>0, <1>1, <1>2, QuotientOrder
<1>4. r = q
  BY <1>3
<1>5. r * s \in Nat
  OBVIOUS
<1> QED
  BY <1>4, <1>5

\* A byte of a cell is a byte of the memory.
LEMMA ByteOfCell ==
    ASSUME NEW n \in Nat \ {0}, NEW w \in Nat, NEW u \in Nat, u \div n \in 0 .. w - 1
    PROVE  u \in 0 .. w * n - 1
<1> DEFINE q == u \div n
           r == u % n
<1>1. q \in 0 .. w - 1 /\ r \in 0 .. n - 1 /\ u = n * q + r
  BY Quotient
<1> HIDE DEF q, r
<1>2. PICK d \in Nat : w = q + 1 + d
  <2>1. w - (q + 1) \in Nat /\ w = q + 1 + (w - (q + 1))
    BY <1>1
  <2> QED
    BY <2>1
<1>3. (q + 1 + d) * n = n * q + n + d * n /\ d * n \in Nat /\ n * q \in Nat
  BY <1>1
<1> QED
  BY <1>1, <1>2, <1>3

\* What a request takes is large enough for it.
LEMMA CellsSuffice ==
    ASSUME NEW x \in Nat, (x + CellSize - 1) \div CellSize < CellWord
    PROVE  x <= CellsFor(x) * CellSize
<1> DEFINE a == x + CellSize - 1
           q == a \div CellSize
           r == a % CellSize
<1>0. CellSize \in Nat \ {0} /\ CellWord \in Nat \ {0} /\ a \in Nat
  BY MemoryAssumption
<1>1. q \in Int /\ r \in 0 .. CellSize - 1 /\ a = CellSize * q + r
  BY <1>0, Quotient
<1>2. q >= 0
  <2>1. CellSize * 0 <= CellSize * q + r
    BY <1>0, <1>1
  <2> HIDE DEF q, r
  <2> QED
    BY <1>0, <1>1, <2>1, QuotientOrder
<1>3. (q % CellWord) = q
  <2> HIDE DEF q
  <2> QED
    BY <1>0, <1>1, <1>2 DEF q
<1>4. CellsFor(x) = q
  BY <1>3 DEF CellsFor
<1> HIDE DEF q, r
<1>5. q * CellSize = CellSize * q /\ q * CellSize \in Int
  BY <1>0, <1>1
<1>6. x <= q * CellSize
  BY <1>0, <1>1, <1>5 DEF a
<1> QED
  BY <1>4, <1>6

----------------------------------------------------------------------------
\* Every byte of every copy lies in a cell of the block.
LEMMA AtInCells ==
    ASSUME MemInv, NEW b \in held, Fits(b), NEW k \in 0 .. b.size - 1,
           NEW r \in 0 .. b.replicas - 1
    PROVE  At(b, r, k) \in Bytes /\ At(b, r, k) \div CellSize \in CellsOf(b)
<1>1. /\ b.start \in Nat /\ b.size \in Nat /\ b.cells \in Nat /\ b.replicas \in Nat
      /\ CellSize \in Nat \ {0} /\ Cells \in Nat
  BY MemoryAssumption DEF MemInv, TypeOK, Blocks, CellIds
<1> DEFINE o == r * b.size + k
<1>2. o \in Nat /\ o < b.size * b.replicas
  BY <1>1, OffsetFits
<1>3. At(b, r, k) = b.start * CellSize + o /\ At(b, r, k) \in Nat
  <2>1. b.start * CellSize \in Nat /\ r * b.size \in Nat
    BY <1>1
  <2> QED
    BY <2>1 DEF At
<1> HIDE DEF o
<1>4. o < b.cells * CellSize
  <2>1. b.size * b.replicas \in Nat /\ b.cells * CellSize \in Nat
    BY <1>1
  <2>2. b.size * b.replicas <= b.cells * CellSize
    BY DEF Fits
  <2> QED
    BY <1>2, <2>1, <2>2
<1>5. (b.start * CellSize + o) \div CellSize \in b.start .. b.start + b.cells - 1
  BY <1>1, <1>2, <1>4, CellOfByte
<1>6. At(b, r, k) \div CellSize \in CellsOf(b)
  BY <1>3, <1>5 DEF CellsOf, Row
<1>7. CellsOf(b) \subseteq 0 .. Cells - 1
  BY DEF MemInv, TypeOK, Exclusive, CellIds
<1>8. At(b, r, k) \in 0 .. Cells * CellSize - 1
  BY <1>1, <1>3, <1>6, <1>7, ByteOfCell
<1> QED
  BY <1>6, <1>8 DEF Bytes

\* What does not touch the cells of a block does not touch its data.
LEMMA StaysFaithful ==
    ASSUME MemInv, NEW b \in held, Fits(b), Faithful(b, memory), NEW mem,
           \A u \in Bytes : u \div CellSize \in CellsOf(b) => mem[u] = memory[u]
    PROVE  Faithful(b, mem)
<1> SUFFICES ASSUME NEW k \in 0 .. b.size - 1, NEW r \in 0 .. b.replicas - 1,
                    b.data[k] # Unwritten
             PROVE  mem[At(b, r, k)] = b.data[k]
  BY DEF Faithful
<1>1. At(b, r, k) \in Bytes /\ At(b, r, k) \div CellSize \in CellsOf(b)
  BY AtInCells
<1>2. memory[At(b, r, k)] = b.data[k]
  BY DEF Faithful
<1> QED
  BY <1>1, <1>2

\* What stays inside the cells of one block leaves the data of all others.
LEMMA OthersFaithful ==
    ASSUME MemInv, CopyInv, NEW b \in held, NEW mem,
           \A u \in Bytes : u \div CellSize \notin CellsOf(b) => mem[u] = memory[u]
    PROVE  \A d \in held \ {b} : Fits(d) /\ Faithful(d, mem)
<1> SUFFICES ASSUME NEW d \in held \ {b} PROVE Fits(d) /\ Faithful(d, mem)
  OBVIOUS
<1>1. CellsOf(d) \intersect CellsOf(b) = {}
  BY DEF MemInv, Exclusive
<1>2. Fits(d) /\ Faithful(d, memory)
  BY DEF CopyInv
<1>3. \A u \in Bytes : u \div CellSize \in CellsOf(d) => mem[u] = memory[u]
  BY <1>1
<1> QED
  BY <1>2, <1>3, StaysFaithful

\* A block that was just handed out has no data.
LEMMA FreshFaithful ==
    ASSUME NEW kind, NEW c, NEW n \in Nat, NEW bytes \in Nat, NEW replicas \in Nat \ {0},
           kind # "HEDGED" => replicas = 1, bytes * replicas <= n * CellSize, NEW mem
    PROVE  LET x == Block(kind, c, n, bytes, replicas) IN Fits(x) /\ Faithful(x, mem)
<1> DEFINE x == Block(kind, c, n, bytes, replicas)
<1>1. /\ x.kind = kind /\ x.start = c /\ x.cells = n /\ x.size = bytes
      /\ x.replicas = replicas /\ x.data = [k \in 0 .. bytes - 1 |-> Unwritten]
  BY DEF Block
<1> HIDE DEF x
<1>2. Fits(x)
  BY <1>1 DEF Fits
<1>3. Faithful(x, mem)
  BY <1>1 DEF Faithful
<1> QED
  BY <1>2, <1>3 DEF x

\* The allocations.
LEMMA AllocationsCopy ==
    ASSUME Countable, MemInv, CopyInv,
           \/ AllocateCell
           \/ \E bytes \in Sizes : AllocateTissue(bytes)
           \/ \E bytes \in Sizes, replicas \in Counts : HedgedMalloc(bytes, replicas)
    PROVE  CopyInv'
<1>0. CellSize \in Nat \ {0} /\ Sizes \subseteq Nat /\ Counts \subseteq Nat
  BY MemoryAssumption
<1>a. ASSUME NEW S, held' = held \union S, memory' = memory,
             \A x \in S : Fits(x) /\ Faithful(x, memory)
      PROVE  CopyInv'
  <2>1. \A x \in held' : Fits(x) /\ Faithful(x, memory')
    BY <1>a DEF CopyInv
  <2> QED
    BY <2>1 DEF CopyInv, Fits, Faithful, At
<1>1. CASE AllocateCell
  <2>1. PICK T : /\ held' = held \union {Block("CELL", c, 1, CellSize, 1) : c \in T}
                 /\ memory' = memory
    BY <1>1 DEF AllocateCell
  <2> DEFINE S == {Block("CELL", c, 1, CellSize, 1) : c \in T}
  <2>2. 1 * CellSize = CellSize /\ CellSize * 1 = CellSize
    BY <1>0
  <2>3. \A c \in T : LET x == Block("CELL", c, 1, CellSize, 1)
                     IN  Fits(x) /\ Faithful(x, memory)
    BY <1>0, <2>2, FreshFaithful
  <2>4. \A x \in S : Fits(x) /\ Faithful(x, memory)
    BY <2>3
  <2> HIDE DEF S
  <2>5. held' = held \union S
    BY <2>1 DEF S
  <2> QED
    BY <1>a, <2>1, <2>4, <2>5
<1>2. CASE \E bytes \in Sizes : AllocateTissue(bytes)
  <2>1. PICK bytes \in Sizes : AllocateTissue(bytes)
    BY <1>2
  <2> DEFINE n == CellsFor(bytes)
  <2>2. PICK c : /\ held' = held \union HandOut("TISSUE", c, n, bytes, 1)
                 /\ memory' = memory
    BY <2>1 DEF AllocateTissue
  <2>3. bytes \in Nat /\ bytes * 1 = bytes /\ n \in Nat
    BY <1>0, CellsForNat
  <2>4. (bytes * 1 + CellSize - 1) \div CellSize < CellWord
    BY DEF Countable
  <2>5. bytes * 1 <= n * CellSize
    BY <2>3, <2>4, CellsSuffice
  <2> HIDE DEF n
  <2>6. LET x == Block("TISSUE", c, n, bytes, 1) IN Fits(x) /\ Faithful(x, memory)
    BY <2>3, <2>5, FreshFaithful
  <2>7. \A x \in HandOut("TISSUE", c, n, bytes, 1) : Fits(x) /\ Faithful(x, memory)
    BY <2>6 DEF HandOut
  <2> QED
    BY <1>a, <2>2, <2>7
<1>3. CASE \E bytes \in Sizes, replicas \in Counts : HedgedMalloc(bytes, replicas)
  <2>1. PICK bytes \in Sizes, replicas \in Counts : HedgedMalloc(bytes, replicas)
    BY <1>3
  <2> DEFINE n == CellsFor(bytes * replicas)
  <2>2. PICK c : held' = held \union HandOut("HEDGED", c, n, bytes, replicas)
    BY <2>1 DEF HedgedMalloc
  <2>3. memory' = memory /\ replicas # 0
    BY <2>1 DEF HedgedMalloc, Admitted
  <2>4. bytes \in Nat /\ replicas \in Nat \ {0} /\ bytes * replicas \in Nat
    BY <1>0, <2>3
  <2>5. n \in Nat
    BY <2>4, CellsForNat
  <2>6. (bytes * replicas + CellSize - 1) \div CellSize < CellWord
    BY DEF Countable
  <2>7. bytes * replicas <= n * CellSize
    BY <2>4, <2>6, CellsSuffice
  <2> HIDE DEF n
  <2>8. LET x == Block("HEDGED", c, n, bytes, replicas) IN Fits(x) /\ Faithful(x, memory)
    BY <2>4, <2>5, <2>7, FreshFaithful
  <2>9. \A x \in HandOut("HEDGED", c, n, bytes, replicas) : Fits(x) /\ Faithful(x, memory)
    BY <2>8 DEF HandOut
  <2> QED
    BY <1>a, <2>2, <2>3, <2>9
<1> QED
  BY <1>1, <1>2, <1>3

\* Releasing a block: what is purged is its own.
LEMMA ReleasesCopy ==
    ASSUME MemInv, CopyInv, NEW b \in held, FreeCell(b) \/ Apoptosis(b) \/ HedgedFree(b)
    PROVE  CopyInv'
<1>1. held' = held \ {b}
  BY DEF FreeCell, Apoptosis, HedgedFree
<1>2. \A u \in Bytes : u \div CellSize \notin CellsOf(b) => memory'[u] = memory[u]
  <2>0. b \in Blocks /\ b.cells = Extent(b)
    BY DEF MemInv, TypeOK, Whole
  <2>1. CASE FreeCell(b)
    BY <2>1 DEF FreeCell
  <2>2. CASE Apoptosis(b)
    <3>1. b.cells = CellsFor(b.size) /\ Purge(b.start, b.size)
      BY <2>0, <2>2 DEF Apoptosis, Extent
    <3>2. Purged(b.start, b.size) \subseteq CellsOf(b)
      BY <3>1 DEF Purged, CellsOf
    <3> QED
      BY <3>1, <3>2 DEF Purge
  <2>3. CASE HedgedFree(b)
    <3>1. b.cells = CellsFor(b.size * b.replicas) /\ b.kind = "HEDGED"
      BY <2>0, <2>3 DEF HedgedFree, Extent
    <3>2. Purge(b.start, b.size * b.replicas)
      <4>1. FreedBytes(Record(b.start)) = b.size * b.replicas
        BY <3>1, IndexFound DEF FreedBytes, Record, Same
      <4> QED
        BY <2>3, <4>1 DEF HedgedFree
    <3>3. Purged(b.start, b.size * b.replicas) \subseteq CellsOf(b)
      BY <3>1 DEF Purged, CellsOf
    <3> QED
      BY <3>2, <3>3 DEF Purge
  <2> QED
    BY <2>1, <2>2, <2>3
<1>3. \A d \in held' : Fits(d) /\ Faithful(d, memory')
  BY <1>1, <1>2, OthersFaithful
<1> QED
  BY <1>3 DEF CopyInv, Fits, Faithful, At
\* A block is replaced by itself with new data, and nothing else is touched.
LEMMA SwapCopy ==
    ASSUME MemInv, CopyInv, NEW b \in held, NEW d, held' = (held \ {b}) \union {d},
           \A u \in Bytes : u \div CellSize \notin CellsOf(b) => memory'[u] = memory[u],
           Fits(d), Faithful(d, memory')
    PROVE  CopyInv'
<1>1. \A x \in held \ {b} : Fits(x) /\ Faithful(x, memory')
  BY OthersFaithful
<1>2. \A x \in held' : Fits(x) /\ Faithful(x, memory')
  BY <1>1
<1> QED
  BY <1>2 DEF CopyInv, Fits, Faithful, At

\* The same block with other data.
LEMMA NewData ==
    ASSUME NEW b \in Blocks, Fits(b), NEW f, DOMAIN f = DOMAIN b.data, NEW d,
           d = [b EXCEPT !.data = f]
    PROVE  /\ d.start = b.start /\ d.size = b.size /\ d.replicas = b.replicas
           /\ d.data = f /\ Fits(d)
<1>1. /\ d.start = b.start /\ d.size = b.size /\ d.replicas = b.replicas
      /\ d.cells = b.cells /\ d.kind = b.kind /\ d.data = f
  BY DEF Blocks
<1> QED
  BY <1>1 DEF Fits

\* A holder's write stays in its cells.
LEMMA WriteCopy ==
    ASSUME MemInv, CopyInv, NEW b \in held, NEW v \in Values, Write(b, v)
    PROVE  CopyInv'
<1> DEFINE f == [k \in DOMAIN b.data |-> v]
           d == [b EXCEPT !.data = f]
<1>1. b \in Blocks /\ Fits(b) /\ Faithful(b, memory)
  BY DEF MemInv, TypeOK, CopyInv
<1>2. b.replicas = 1 /\ DOMAIN b.data = 0 .. b.size - 1
  BY <1>1 DEF Fits, Write
<1>3. /\ held' = (held \ {b}) \union {d}
      /\ memory' = [u \in Bytes |-> IF u - b.start * CellSize \in 0 .. b.size - 1 THEN v
                                    ELSE memory[u]]
  BY <1>2 DEF Write
<1>4. /\ d.start = b.start /\ d.size = b.size /\ d.replicas = b.replicas
      /\ d.data = f /\ Fits(d)
  BY <1>1, NewData
<1> HIDE DEF d
<1>n. b.start * CellSize \in Nat /\ b.size \in Nat /\ CellSize \in Nat
  BY <1>1, MemoryAssumption DEF Blocks, CellIds
<1>5. \A k \in 0 .. b.size - 1 : At(b, 0, k) = b.start * CellSize + k
  BY <1>n DEF At
<1>6. \A k \in 0 .. b.size - 1 : /\ At(b, 0, k) \in Bytes
                                 /\ At(b, 0, k) \div CellSize \in CellsOf(b)
  <2>1. 0 \in 0 .. b.replicas - 1
    BY <1>2
  <2> QED
    BY <1>1, <2>1, AtInCells
<1>7. \A u \in Bytes : u \div CellSize \notin CellsOf(b) => memory'[u] = memory[u]
  <2> SUFFICES ASSUME NEW u \in Bytes, u \div CellSize \notin CellsOf(b)
               PROVE  u - b.start * CellSize \notin 0 .. b.size - 1
    BY <1>3
  <2>1. ASSUME NEW k \in 0 .. b.size - 1, u - b.start * CellSize = k PROVE FALSE
    <3>1. u = b.start * CellSize + k
      <4>1. u \in Int
        BY DEF Bytes
      <4> QED
        BY <1>n, <2>1, <4>1
    <3> QED
      BY <1>5, <1>6, <3>1
  <2> QED
    BY <2>1
<1>8. Faithful(d, memory')
  <2> SUFFICES ASSUME NEW k \in 0 .. d.size - 1, NEW r \in 0 .. d.replicas - 1
               PROVE  memory'[At(d, r, k)] = d.data[k]
    BY DEF Faithful
  <2>1. r = 0 /\ k \in 0 .. b.size - 1
    BY <1>2, <1>4
  <2>2. At(d, r, k) = At(b, 0, k)
    BY <1>4, <2>1 DEF At
  <2>3. At(b, 0, k) - b.start * CellSize = k
    BY <1>n, <1>5, <2>1
  <2>4. memory'[At(b, 0, k)] = v
    BY <1>3, <1>6, <2>1, <2>3
  <2>5. d.data[k] = v
    BY <1>2, <1>4, <2>1
  <2> QED
    BY <2>2, <2>4, <2>5
<1> QED
  BY <1>3, <1>4, <1>7, <1>8, SwapCopy

\* hedged_replicate_data writes the first n bytes of every copy and no other byte.
LEMMA ReplicateCopy ==
    ASSUME MemInv, CopyInv, NEW b \in held, NEW v \in Values, NEW n \in Sizes,
           Replicate(b, v, n)
    PROVE  CopyInv'
<1> DEFINE f == [k \in DOMAIN b.data |-> IF k < n THEN v ELSE b.data[k]]
           d == [b EXCEPT !.data = f]
           C == {At(b, r, k) : r \in 0 .. b.replicas - 1, k \in 0 .. n - 1}
<1>1. /\ b \in Blocks /\ Fits(b) /\ Faithful(b, memory) /\ b.kind = "HEDGED"
      /\ n \in Nat
  BY MemoryAssumption DEF MemInv, TypeOK, CopyInv, Replicate
<1>r. /\ Record(b.start).base = b.start /\ Record(b.start).size = b.size
      /\ Record(b.start).replicas = b.replicas
  BY <1>1, IndexFound DEF Record, Same
<1>2. DOMAIN b.data = 0 .. b.size - 1 /\ n <= b.size
  BY <1>1, <1>r DEF Fits, Replicate
<1>c. Copies(Record(b.start), n) = C
  BY <1>r DEF Copies, Place, At
<1>3. /\ held' = (held \ {b}) \union {d}
      /\ memory' = [u \in Bytes |-> IF u \in C THEN v ELSE memory[u]]
  BY <1>c DEF Replicate
<1>4. /\ d.start = b.start /\ d.size = b.size /\ d.replicas = b.replicas
      /\ d.data = f /\ Fits(d)
  BY <1>1, NewData
<1> HIDE DEF d
<1>n. /\ b.start * CellSize \in Nat /\ b.size \in Nat /\ CellSize \in Nat
      /\ b.replicas \in Nat
  BY <1>1, MemoryAssumption DEF Blocks, CellIds
<1>5. \A k \in 0 .. b.size - 1, r \in 0 .. b.replicas - 1 :
        At(b, r, k) \in Bytes /\ At(b, r, k) \div CellSize \in CellsOf(b)
  BY <1>1, AtInCells
<1>6. \A u \in C : u \div CellSize \in CellsOf(b)
  <2>1. \A k \in 0 .. n - 1 : k \in 0 .. b.size - 1
    BY <1>1, <1>2, <1>n
  <2> QED
    BY <1>5, <2>1
<1>7. \A u \in Bytes : u \div CellSize \notin CellsOf(b) => memory'[u] = memory[u]
  BY <1>3, <1>6
<1>8. Faithful(d, memory')
  <2> SUFFICES ASSUME NEW k \in 0 .. d.size - 1, NEW r \in 0 .. d.replicas - 1,
                      d.data[k] # Unwritten
               PROVE  memory'[At(d, r, k)] = d.data[k]
    BY DEF Faithful
  <2>1. /\ k \in 0 .. b.size - 1 /\ r \in 0 .. b.replicas - 1
        /\ At(d, r, k) = At(b, r, k)
    BY <1>4 DEF At
  <2>2. At(b, r, k) \in Bytes
    BY <1>5, <2>1
  <2>3. CASE k < n
    <3>1. At(b, r, k) \in C
      <4>1. k \in 0 .. n - 1
        BY <1>1, <2>1, <2>3
      <4> QED
        BY <2>1, <4>1
    <3>2. d.data[k] = v
      BY <1>2, <1>4, <2>1, <2>3
    <3> QED
      BY <1>3, <2>1, <2>2, <3>1, <3>2
  <2>4. CASE ~(k < n)
    <3>1. d.data[k] = b.data[k]
      BY <1>2, <1>4, <2>1, <2>4
    <3>2. At(b, r, k) \notin C
      <4> SUFFICES ASSUME NEW q \in 0 .. b.replicas - 1, NEW j \in 0 .. n - 1,
                          At(b, r, k) = At(b, q, j)
                   PROVE  FALSE
        OBVIOUS
      <4>1. r * b.size \in Nat /\ q * b.size \in Nat /\ j \in 0 .. b.size - 1
        BY <1>1, <1>2, <1>n, <2>1
      <4>2. r * b.size + k = q * b.size + j
        BY <1>n, <2>1, <4>1 DEF At
      <4>3. k = j
        BY <1>n, <2>1, <4>1, <4>2, OffsetsDiffer
      <4> QED
        BY <1>1, <2>4, <4>3
    <3>3. memory[At(b, r, k)] = b.data[k]
      BY <1>1, <2>1, <3>1 DEF Faithful
    <3> QED
      BY <1>3, <2>1, <2>2, <3>1, <3>2, <3>3
  <2> QED
    BY <2>3, <2>4
<1> QED
  BY <1>3, <1>4, <1>7, <1>8, SwapCopy

\* hedged_read changes a count.
LEMMA ReadCopy ==
    ASSUME MemInv, CopyInv, NEW b \in held, HedgedRead(b)
    PROVE  CopyInv'
<1> DEFINE d == [b EXCEPT !.reads = @ + 1]
<1>1. b \in Blocks /\ Fits(b) /\ Faithful(b, memory)
  BY DEF MemInv, TypeOK, CopyInv
<1>2. held' = (held \ {b}) \union {d} /\ memory' = memory
  BY DEF HedgedRead
<1>3. /\ d.start = b.start /\ d.size = b.size /\ d.replicas = b.replicas
      /\ d.cells = b.cells /\ d.kind = b.kind /\ d.data = b.data
  BY <1>1 DEF Blocks
<1> HIDE DEF d
<1>4. Fits(d) /\ Faithful(d, memory')
  BY <1>1, <1>2, <1>3 DEF Fits, Faithful, At
<1> QED
  BY <1>2, <1>4, SwapCopy

\* Every step keeps every copy of every block.
LEMMA NextCopyInv == Countable /\ MemInv /\ CopyInv /\ [Next]_vars => CopyInv'
<1> SUFFICES ASSUME Countable, MemInv, CopyInv, [Next]_vars PROVE CopyInv'
  OBVIOUS
<1>1. CASE \/ AllocateCell
           \/ \E bytes \in Sizes : AllocateTissue(bytes)
           \/ \E bytes \in Sizes, replicas \in Counts : HedgedMalloc(bytes, replicas)
  BY <1>1, AllocationsCopy
<1>2. CASE MapCell \/ UNCHANGED vars
  <2>1. held' = held /\ memory' = memory
    BY <1>2 DEF MapCell, vars
  <2> QED
    BY <2>1 DEF CopyInv, Fits, Faithful, At
<1>3. CASE \E b \in held : FreeCell(b) \/ Apoptosis(b) \/ HedgedFree(b)
  BY <1>3, ReleasesCopy
<1>4. CASE \E b \in held : HedgedRead(b)
  BY <1>4, ReadCopy
<1>5. CASE \E b \in held, v \in Values : Write(b, v)
  BY <1>5, WriteCopy
<1>6. CASE \E b \in held, v \in Values, n \in Sizes : Replicate(b, v, n)
  BY <1>6, ReplicateCopy
<1> QED
  BY <1>1, <1>2, <1>3, <1>4, <1>5, <1>6 DEF Next

----------------------------------------------------------------------------
\* Of some natural numbers one is the least.
LEMMA LeastOf ==
    ASSUME NEW S \in SUBSET Nat, S # {}
    PROVE  \E x \in S : \A y \in S : x <= y
<1> DEFINE R == OpToRel(<, Nat)
<1>1. IsWellFoundedOn(R, Nat)
  BY NatLessThanWellFounded
<1>2. \A x, y \in Nat : <<x, y>> \in R <=> x < y
  BY DEF OpToRel
<1> HIDE DEF R
<1>3. PICK x \in S : \A y \in S : ~(<<y, x>> \in R)
  BY <1>1, WFMin
<1>4. \A y \in S : x \in Nat /\ y \in Nat /\ ~(y < x)
  BY <1>2, <1>3
<1>5. \A y \in S : x <= y
  BY <1>4
<1> QED
  BY <1>5

\* The replica that hedged_read prefers is one of the block's.
LEMMA FastestExists ==
    ASSUME NEW n \in Nat \ {0}
    PROVE  Fastest(n) \in 0 .. n - 1
<1>1. \A r \in 0 .. n - 1 : Latency(r) \in Nat
  BY DEF Latency
<1> DEFINE L == {Latency(r) : r \in 0 .. n - 1}
<1>2. L \in SUBSET Nat /\ L # {}
  <2>1. 0 \in 0 .. n - 1
    OBVIOUS
  <2> QED
    BY <1>1, <2>1
<1>3. PICK l \in L : \A m \in L : l <= m
  BY <1>2, LeastOf
<1> DEFINE F == {r \in 0 .. n - 1 : Latency(r) = l}
<1>4. F \in SUBSET Nat /\ F # {}
  BY <1>3
<1>5. PICK r \in F : \A q \in F : r <= q
  BY <1>4, LeastOf
<1>6. \A q \in 0 .. n - 1 : Latency(r) < Latency(q) \/ (Latency(r) = Latency(q) /\ r <= q)
  <2> SUFFICES ASSUME NEW q \in 0 .. n - 1
               PROVE  Latency(r) < Latency(q) \/ (Latency(r) = Latency(q) /\ r <= q)
    OBVIOUS
  <2>1. Latency(r) = l /\ l <= Latency(q) /\ l \in Nat /\ Latency(q) \in Nat
    BY <1>1, <1>2, <1>3, <1>5
  <2>2. CASE Latency(q) = l
    BY <1>5, <2>1, <2>2
  <2>3. CASE Latency(q) # l
    BY <2>1, <2>3
  <2> QED
    BY <2>2, <2>3
<1>7. r \in 0 .. n - 1
  BY <1>5
<1> HIDE DEF L, F
<1> QED
  BY <1>6, <1>7 DEF Fastest

\* Whoever holds a block reads back what it last wrote into it, from the copy that
\* hedged_read prefers or directly, whatever the other holders write, give back and have
\* purged, in memories of every size: if no caller asks for more cells than cells_needed
\* can count.
THEOREM MemoryReadsBack == ASSUME Countable PROVE Spec => []ReadsBack
<1>1. Init => CopyInv
  BY DEF Init, CopyInv
<1>2. MemInv /\ CopyInv /\ [Next]_vars => CopyInv'
  BY NextCopyInv
<1>3. MemInv /\ CopyInv => ReadsBack
  <2> SUFFICES ASSUME MemInv, CopyInv, NEW b \in held, NEW k \in DOMAIN b.data,
                      b.data[k] # Unwritten
               PROVE  Reads(b, k) = b.data[k]
    BY DEF ReadsBack
  <2>1. b \in Blocks /\ Fits(b) /\ Faithful(b, memory)
    BY DEF MemInv, TypeOK, CopyInv
  <2>2. k \in 0 .. b.size - 1 /\ b.replicas \in Nat \ {0}
    BY <2>1 DEF Fits
  <2>3. CASE b.kind = "HEDGED"
    <3>1. /\ Record(b.start).base = b.start /\ Record(b.start).size = b.size
          /\ Record(b.start).replicas = b.replicas
      BY <2>3, IndexFound DEF Record, Same
    <3>2. Fastest(b.replicas) \in 0 .. b.replicas - 1
      BY <2>2, FastestExists
    <3>3. Reads(b, k) = memory[At(b, Fastest(b.replicas), k)]
      BY <2>3, <3>1 DEF Reads, Place, At
    <3> QED
      BY <2>1, <2>2, <3>2, <3>3 DEF Faithful
  <2>4. CASE b.kind # "HEDGED"
    <3>1. 0 \in 0 .. b.replicas - 1
      BY <2>2
    <3>2. b.start * CellSize \in Nat /\ 0 * b.size = 0 /\ k \in Int
      BY <2>1, <2>2, MemoryAssumption DEF Blocks, CellIds
    <3>3. Reads(b, k) = memory[At(b, 0, k)]
      BY <2>4, <3>2 DEF Reads, At
    <3> QED
      BY <2>1, <2>2, <3>1, <3>3 DEF Faithful
  <2> QED
    BY <2>3, <2>4
<1> QED
  BY <1>1, <1>2, <1>3, InitMemInv, NextMemInv, PTL DEF Spec
=============================================================================
