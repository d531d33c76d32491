----------------------------- MODULE BioMemory -----------------------------
(***************************************************************************)
(* The memory organ (memory-baremetal): the bitmap allocator of cells and  *)
(* contiguous tissue (bio_alloc.c) and, on top of it, the blocks kept in   *)
(* several replicas (hedged_malloc.c).                                     *)
(*                                                                         *)
(* A pointer is the index of the cell it points to.  Callers pass back     *)
(* what they hold, with the size they asked for; a pointer that the table  *)
(* of replicated blocks does not know is refused by every function of      *)
(* hedged_malloc.c without any effect.  Read latencies are left out of the *)
(* statistics, and the paging functions that only print.                   *)
(***************************************************************************)
EXTENDS Integers, Sequences, FiniteSetsExt

CONSTANTS
    Cells,          \* BITMAP_MAX_CELLS (102 400)
    CellSize,       \* CELL_SIZE (4096 bytes)
    CellWord,       \* cells_needed is a uint32_t: 2^32
    ZeroBase,       \* mem_base is 0, as it is until bio_mem_init: cell 0's address is NULL
    PressureShare,  \* the kernel is told when less than Cells / this are free (20)
    MaxReplicas,    \* HEDGED_MALLOC_REPLICA_COUNT (4)
    MaxAllocations, \* HEDGED_MALLOC_MAX_ALLOCATIONS (256)
    Sizes,          \* the sizes callers ask for, in bytes
    Counts,         \* the replica counts they ask for
    Values,         \* what they write
    MaxReads        \* bound on the reads of one block

ASSUME MemoryAssumption ==
    /\ Cells \in Nat /\ MaxReplicas \in Nat /\ MaxAllocations \in Nat /\ MaxReads \in Nat
    /\ CellSize \in Nat \ {0} /\ CellWord \in Nat \ {0} /\ PressureShare \in Nat \ {0}
    /\ ZeroBase \in BOOLEAN
    /\ Sizes \subseteq Nat /\ Counts \subseteq Nat /\ Values \subseteq Nat

VARIABLES
    bitmap,     \* cell_bitmap: the cells marked as used
    memory,     \* the bytes of the cells
    table,      \* allocations[0 .. allocation_count - 1]
    held,       \* the blocks that callers hold, and what they wrote into them
    signal      \* the globule pumped by the last call, if any

vars == <<bitmap, memory, table, held, signal>>

CellIds == 0 .. Cells - 1
Bytes == 0 .. Cells * CellSize - 1

Null == -1
Unwritten == -1

\* The address of a cell, as its caller sees it.
Pointer(c) == IF ZeroBase /\ c = 0 THEN Null ELSE c

----------------------------------------------------------------------------
\* The allocator.
Free == CellIds \ bitmap

CellsFor(bytes) == ((bytes + CellSize - 1) \div CellSize) % CellWord

Row(c, n) == c .. c + n - 1

\* Where n free cells in a row begin; none for n = 0.
Gaps(n) == {c \in CellIds : n > 0 /\ Row(c, n) \subseteq Free}

\* What a caller knows of the n cells from c on.
Block(kind, c, n, bytes, replicas) ==
    [kind |-> kind, start |-> c, cells |-> n, size |-> bytes, replicas |-> replicas,
     reads |-> 0, data |-> [k \in 0 .. bytes - 1 |-> Unwritten]]

\* A block is handed out at cell c, unless its address reads as NULL.
HandOut(kind, c, n, bytes, replicas) ==
    IF Pointer(c) = Null THEN {} ELSE {Block(kind, c, n, bytes, replicas)}

Pressed(free) == Cardinality(free) < Cells \div PressureShare

\* bio_allocate_cell: the scan stops taking cells once it has an address.
AllocateCell ==
    LET skipped == {c \in Free : c = Min(Free) /\ Pointer(c) = Null}
        left    == Free \ skipped
        taken   == {c \in left : c = Min(left)}
    IN  /\ bitmap' = bitmap \union skipped \union taken
        /\ held' = held \union {Block("CELL", c, 1, CellSize, 1) : c \in taken}
        /\ signal' = IF Pressed(left \ taken) THEN "PRESSURE" ELSE "NONE"
        /\ UNCHANGED <<memory, table>>

\* bio_free_cell, also what is left of bio_consolidate_memory, for one cell.
FreeCell(b) ==
    /\ b.kind = "CELL"
    /\ bitmap' = bitmap \ {b.start}
    /\ held' = held \ {b}
    /\ signal' = "NONE"
    /\ UNCHANGED <<memory, table>>

\* bio_allocate_neural_tissue: the first gap that is large enough.
AllocateTissue(bytes) ==
    \E c \in Gaps(CellsFor(bytes)) :
        /\ c = Min(Gaps(CellsFor(bytes)))
        /\ bitmap' = bitmap \union Row(c, CellsFor(bytes))
        /\ held' = held \union HandOut("TISSUE", c, CellsFor(bytes), bytes, 1)
        /\ signal' = "NONE"
        /\ UNCHANGED <<memory, table>>

\* Mutant: one cell more when the size is a multiple of the cell's.
PurgedGenerous(c, bytes) == Row(c, bytes \div CellSize + 1) \intersect CellIds

\* bio_purge_infected_tissue clears and frees these cells.
Purged(c, bytes) == Row(c, CellsFor(bytes)) \intersect CellIds

Purge(c, bytes) ==
    /\ bitmap' = bitmap \ Purged(c, bytes)
    /\ memory' = [u \in Bytes |-> IF u \div CellSize \in Purged(c, bytes) THEN 0 ELSE memory[u]]

\* bio_apoptosis of a tissue by its holder.
Apoptosis(b) ==
    /\ b.kind = "TISSUE"
    /\ Purge(b.start, b.size)
    /\ held' = held \ {b}
    /\ signal' = "NONE"
    /\ UNCHANGED table

\* bio_map_cell, of a cell inside the memory: it only tells the others.
MapCell ==
    /\ signal' = "MAPPED"
    /\ UNCHANGED <<bitmap, memory, table, held>>

----------------------------------------------------------------------------
\* The replicated blocks.

\* The record of a pointer: the functions search the table from the front.
Index(p) ==
    CHOOSE i \in DOMAIN table :
        table[i].base = p /\ \A j \in 1 .. i - 1 : table[j].base # p
Record(p) == table[Index(p)]

Admitted(replicas) == replicas # 0 /\ replicas <= MaxReplicas

\* hedged_malloc, where it does not return NULL before it asks for tissue.
HedgedMalloc(bytes, replicas) ==
    /\ Len(table) < MaxAllocations
    /\ Admitted(replicas)
    /\ \E c \in Gaps(CellsFor(bytes * replicas)) :
         /\ c = Min(Gaps(CellsFor(bytes * replicas)))
         /\ bitmap' = bitmap \union Row(c, CellsFor(bytes * replicas))
         /\ held' = held \union
                      HandOut("HEDGED", c, CellsFor(bytes * replicas), bytes, replicas)
         /\ table' = IF Pointer(c) = Null THEN table
                     ELSE Append(table, [base |-> c, size |-> bytes,
                                         replicas |-> replicas, reads |-> 0])
    /\ signal' = "NONE"
    /\ UNCHANGED memory

\* Byte k of replica r.
Place(rec, r, k) == rec.base * CellSize + r * rec.size + k

\* Mutant: the first replica is taken to be the data itself.
CopiesBut(rec, n) == {Place(rec, r, k) : r \in 1 .. rec.replicas - 1, k \in 0 .. n - 1}

\* The bytes that n bytes of data are copied to.
Copies(rec, n) == {Place(rec, r, k) : r \in 0 .. rec.replicas - 1, k \in 0 .. n - 1}

\* hedged_replicate_data.
Replicate(b, v, n) ==
    /\ b.kind = "HEDGED"
    /\ n <= Record(b.start).size
    /\ memory' = [u \in Bytes |-> IF u \in Copies(Record(b.start), n) THEN v ELSE memory[u]]
    /\ held' = (held \ {b}) \union
               {[b EXCEPT !.data = [k \in DOMAIN b.data |-> IF k < n THEN v ELSE b.data[k]]]}
    /\ signal' = "NONE"
    /\ UNCHANGED <<bitmap, table>>

\* simulate_replica_latency, and the replica that hedged_read prefers.
Latency(r) == 80 + ((r * 13579) % 120)
Fastest(n) ==
    CHOOSE r \in 0 .. n - 1 : \A q \in 0 .. n - 1 :
        Latency(r) < Latency(q) \/ (Latency(r) = Latency(q) /\ r <= q)

\* What hedged_read returns for byte k; the holder of other blocks reads directly.
Reads(b, k) ==
    IF b.kind = "HEDGED"
    THEN memory[Place(Record(b.start), Fastest(Record(b.start).replicas), k)]
    ELSE memory[b.start * CellSize + k]

\* hedged_read counts itself.
HedgedRead(b) ==
    /\ b.kind = "HEDGED"
    /\ b.reads < MaxReads
    /\ table' = [table EXCEPT ![Index(b.start)].reads = @ + 1]
    /\ held' = (held \ {b}) \union {[b EXCEPT !.reads = @ + 1]}
    /\ signal' = "NONE"
    /\ UNCHANGED <<bitmap, memory>>

\* Mutant: the size of one replica.
FreedBytesOfOne(rec) == rec.size

FreedBytes(rec) == rec.size * rec.replicas

\* Mutant: the last record is dropped, whichever is freed.
RemoveLast(i) == [j \in 1 .. Len(table) - 1 |-> table[j]]

\* The last record takes the place of the one removed.
Remove(i) == [j \in 1 .. Len(table) - 1 |-> IF j = i THEN table[Len(table)] ELSE table[j]]

\* hedged_free.
HedgedFree(b) ==
    /\ b.kind = "HEDGED"
    /\ Purge(b.start, FreedBytes(Record(b.start)))
    /\ table' = Remove(Index(b.start))
    /\ held' = held \ {b}
    /\ signal' = "NONE"

----------------------------------------------------------------------------
\* The holder of a cell or of a tissue writes all of it.
Write(b, v) ==
    /\ b.kind # "HEDGED"
    /\ memory' = [u \in Bytes |->
                    IF u - b.start * CellSize \in DOMAIN b.data THEN v ELSE memory[u]]
    /\ held' = (held \ {b}) \union {[b EXCEPT !.data = [k \in DOMAIN b.data |-> v]]}
    /\ signal' = "NONE"
    /\ UNCHANGED <<bitmap, table>>

\* bio_mem_init does not touch the memory.
Init ==
    /\ bitmap = {}
    /\ memory = [u \in Bytes |-> 0]
    /\ table = <<>>
    /\ held = {}
    /\ signal = "NONE"

Next ==
    \/ AllocateCell
    \/ MapCell
    \/ \E bytes \in Sizes : AllocateTissue(bytes)
    \/ \E bytes \in Sizes, replicas \in Counts : HedgedMalloc(bytes, replicas)
    \/ \E b \in held : FreeCell(b) \/ Apoptosis(b) \/ HedgedRead(b) \/ HedgedFree(b)
    \/ \E b \in held, v \in Values : Write(b, v)
    \/ \E b \in held, v \in Values, n \in Sizes : Replicate(b, v, n)

Spec == Init /\ [][Next]_vars

----------------------------------------------------------------------------
Contents == UNION {[0 .. n - 1 -> Values \union {Unwritten}] : n \in Sizes \union {CellSize}}
Blocks == [kind : {"CELL", "TISSUE", "HEDGED"}, start : CellIds, cells : Nat, size : Nat,
           replicas : Nat, reads : 0 .. MaxReads, data : Contents]
Records == [base : CellIds, size : Nat, replicas : 1 .. MaxReplicas, reads : 0 .. MaxReads]

\* Type invariant.
TypeOK ==
    /\ bitmap \subseteq CellIds
    /\ memory \in [Bytes -> Values \union {0}]
    /\ table \in Seq(Records)
    /\ Len(table) <= MaxAllocations
    /\ held \subseteq Blocks
    /\ signal \in {"NONE", "PRESSURE", "MAPPED"}

CellsOf(b) == Row(b.start, b.cells)

\* No two callers ever hold the same cell, and no cell that is held can be handed out
\* again, whichever of the three ways it was obtained and its neighbours given back.
Exclusive ==
    /\ \A b \in held : CellsOf(b) \subseteq bitmap
    /\ \A b, d \in held : b # d => CellsOf(b) \intersect CellsOf(d) = {}

\* Every used cell is held by somebody: what is given back is given back whole, and a
\* call that returns NULL has taken nothing (bio_alloc.c:100).
NoLeak == bitmap \subseteq UNION {CellsOf(b) : b \in held}

\* The table has one record for each replicated block and no other, with its own size,
\* replicas and reads, although freeing a block moves the record of another.
Same(rec, b) ==
    /\ b.kind = "HEDGED" /\ rec.base = b.start /\ rec.size = b.size
    /\ rec.replicas = b.replicas /\ rec.reads = b.reads
RecordsAgree ==
    /\ \A i, j \in DOMAIN table : table[i].base = table[j].base => i = j
    /\ \A i \in DOMAIN table : \E b \in held : Same(table[i], b)
    /\ \A b \in held : b.kind = "HEDGED" => \E i \in DOMAIN table : Same(table[i], b)

\* Whoever holds a block reads back what it last wrote there, from the replica that
\* hedged_read prefers, whatever the others write, free and purge.
ReadsBack ==
    \A b \in held : \A k \in DOMAIN b.data :
        b.data[k] # Unwritten => Reads(b, k) = b.data[k]
=============================================================================
