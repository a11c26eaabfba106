--------------------------- MODULE AttentionDecode ---------------------------
(* Split decode attention (src/cuda/attention.cu): the scan kernel divides    *)
(* the populated keys among partitions, one thread block per KV head and      *)
(* partition, and leaves partial results in a workspace; the merge kernel, one *)
(* block per query head, combines them.  A captured graph fixes how many      *)
(* blocks are launched; the control record says how many of them have work.   *)
(* A partial result is abstracted to the interval of keys it was made of.     *)
EXTENDS Integers, Sequences

CONSTANTS Capacity,     \* KV capacity of the session
          Tile,         \* keys staged together (64 in the code)
          Segment,      \* keys a partition should have at least (256)
          Waves,        \* partitions the device runs in two waves
          KvHeads,      \* KV heads (4)
          Group,        \* query heads that share a KV head (6)
          Stale         \* a partial result of an earlier launch

ASSUME AttentionAssumption ==
    /\ Capacity \in Nat \ {0} /\ Waves \in Nat \ {0}
    /\ Tile \in Nat \ {0} /\ Segment \in Nat \ {0} /\ Segment % Tile = 0
    /\ KvHeads \in Nat \ {0} /\ Group \in Nat \ {0}
    /\ Stale \notin [from : 0 .. Capacity, to : 0 .. Capacity]

VARIABLES
    phase,        \* what the stream executes
    populated,    \* keys the launched token sees
    segments,     \* partitions of the launch
    controlled,   \* the launch reads the control record
    waiting,      \* blocks of the scan that have not run
    partials,     \* the workspace
    merged        \* the partial results each query head was made of

vars == <<phase, populated, segments, controlled, waiting, partials, merged>>

Lower(a, b)   == IF a <= b THEN a ELSE b
Ceiling(a, b) == (a + b - 1) \div b

QueryHead == 0 .. KvHeads * Group - 1

\* attn_workspace_bytes_for_capacity: one slot per query head and segment.
Slot == 0 .. KvHeads * Group * Ceiling(Capacity, Segment) - 1

\* attention_partition_count, once per session.
Limit == Lower(Ceiling(Capacity, Segment), Waves)

\* Partitions for a number of keys: of the keys populated, or of a graph's bucket.
Partitions(keys) == Lower(Ceiling(keys, Segment), Limit)

\* Mutants: the last tile is not cut at the last key; the tiles that do not
\* divide evenly are dropped.
Interval_WholeTiles(keys, y, n) ==
    LET tiles == Ceiling(keys, Tile)
    IN  [from |-> ((tiles * y) \div n) * Tile, to |-> ((tiles * (y + 1)) \div n) * Tile]

Interval_EqualShares(keys, y, n) ==
    LET share == Ceiling(keys, Tile) \div n
    IN  [from |-> share * y * Tile, to |-> Lower(keys, share * (y + 1) * Tile)]

\* The keys partition y of n scans: whole tiles, shared out, up to the last key.
Interval(keys, y, n) ==
    LET tiles == Ceiling(keys, Tile)
    IN  [from |-> ((tiles * y) \div n) * Tile,
         to   |-> Lower(keys, ((tiles * (y + 1)) \div n) * Tile)]

\* What the kernels take the number of partitions to be.  Mutant: the number
\* launched, which a graph captured for its whole bucket.
Active_Launched == segments
Active == IF controlled THEN Partitions(populated) ELSE segments

\* Mutant: heads of one partition are stored together.
SlotOf_PartitionMajor(head, y) == y * KvHeads + head

SlotOf(head, y) == head * Active + y

Init == /\ phase = "idle" /\ populated = 0 /\ segments = 0 /\ controlled = FALSE
        /\ waiting = {} /\ partials = [s \in Slot |-> Stale]
        /\ merged = [q \in QueryHead |-> <<>>]

Launch(keys, count, control) ==
    /\ phase = "idle"
    /\ phase' = IF count = 0 THEN "merge" ELSE "scan"
    /\ populated' = keys /\ segments' = count /\ controlled' = control
    /\ waiting' = (0 .. KvHeads - 1) \X (0 .. count - 1)
    /\ partials' = [s \in Slot |-> Stale]
    /\ merged' = [q \in QueryHead |-> <<>>]

\* Submission::attention_core: eagerly, or in a graph captured for a bucket; and
\* launch_attention_scan on its own, with a number of partitions of the caller's.
LaunchEager(keys) == Launch(keys, Partitions(keys), FALSE)

LaunchReplay(keys, bucket) ==
    /\ keys > 0 /\ keys <= bucket
    /\ Launch(keys, Partitions(bucket), TRUE)

LaunchFixed(keys, count) == keys > 0 /\ Launch(keys, count, FALSE)

\* attention_mma_kernel<true>: blocks run in any order; one without a partition
\* returns.  Each writes the partial result of every query head of its group.
Writes(h, y) == IF y >= Active THEN {}
                ELSE {SlotOf(h * Group + c, y) : c \in 0 .. Group - 1}

ScanBlock(h, y) ==
    /\ phase = "scan" /\ <<h, y>> \in waiting
    /\ waiting' = waiting \ {<<h, y>>}
    /\ partials' = [s \in Slot |-> IF s \in Writes(h, y)
                                   THEN Interval(populated, y, Active)
                                   ELSE partials[s]]
    /\ phase' = IF waiting' = {} THEN "merge" ELSE "scan"
    /\ UNCHANGED <<populated, segments, controlled, merged>>

\* attention_merge_kernel, in partition order.
MergeBlock(q) ==
    /\ phase = "merge"
    /\ merged[q] = <<>>
    /\ merged' = [merged EXCEPT ![q] = [i \in 1 .. Active |-> partials[SlotOf(q, i - 1)]]]
    /\ UNCHANGED <<phase, populated, segments, controlled, waiting, partials>>

Finish == /\ phase = "merge"
          /\ \A q \in QueryHead : Len(merged[q]) = Active
          /\ phase' = "idle"
          /\ UNCHANGED <<populated, segments, controlled, waiting, partials, merged>>

Next == \/ \E keys \in 0 .. Capacity : LaunchEager(keys)
        \/ \E keys, bucket \in 1 .. Capacity : LaunchReplay(keys, bucket)
        \/ \E keys \in 1 .. Capacity, count \in 1 .. Limit : LaunchFixed(keys, count)
        \/ \E h \in 0 .. KvHeads - 1, y \in 0 .. Limit - 1 : ScanBlock(h, y)
        \/ \E q \in QueryHead : MergeBlock(q)
        \/ Finish

Spec == Init /\ [][Next]_vars

-----------------------------------------------------------------------------
\* Every variable has its type.
TypeOK ==
    LET result == [from : 0 .. Capacity, to : 0 .. Capacity] \cup {Stale}
    IN  /\ phase \in {"idle", "scan", "merge"}
        /\ populated \in 0 .. Capacity /\ segments \in 0 .. Limit
        /\ controlled \in BOOLEAN
        /\ waiting \subseteq (0 .. KvHeads - 1) \X (0 .. Limit - 1)
        /\ \A s \in Slot : partials[s] \in result
        /\ \A q \in QueryHead : merged[q] \in Seq(result)

\* The merge of a query head reads every populated key exactly once, in order,
\* and no partial result of another launch: whatever the bucket, the order of
\* the blocks, or the number of partitions.
MergeReadsEveryKeyOnce ==
    \A q \in QueryHead : merged[q] # <<>> =>
        LET n == Len(merged[q])
        IN  /\ \A i \in 1 .. n : merged[q][i] # Stale
            /\ merged[q][1].from = 0 /\ merged[q][n].to = populated
            /\ \A i \in 1 .. n - 1 : merged[q][i].to = merged[q][i + 1].from

\* A graph replay splits the keys exactly as an eager launch of the same token
\* would, so that the two are equal bit for bit.
ReplayMatchesEager ==
    controlled => \A q \in QueryHead : merged[q] # <<>> =>
        merged[q] = [i \in 1 .. Partitions(populated) |->
                        Interval(populated, i - 1, Partitions(populated))]

\* No two blocks of a launch write the same partial result, and none writes
\* outside the workspace.
BlocksAreDisjoint ==
    phase = "scan" =>
        \A a, b \in waiting : /\ Writes(a[1], a[2]) \subseteq Slot
                              /\ a # b => Writes(a[1], a[2]) \cap Writes(b[1], b[2]) = {}
=============================================================================
