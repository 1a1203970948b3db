---------------------------- MODULE DownloadPlan ----------------------------
(***************************************************************************)
(* computeOperations of downloadPlanBuilder: which ranges of the new file  *)
(* a differential download copies from the old file and which it requests. *)
(* One step plans one block of the new file.  A block is its checksum and  *)
(* size, and equal blocks have equal bytes; a checksum may come with two   *)
(* sizes, as the code allows for.                                          *)
(***************************************************************************)
EXTENDS Integers, SequencesExt

CONSTANTS
    Checksums,
    Sizes,        \* sizes of blocks
    Offsets,      \* where the blocks of a file may begin
    MaxOldBlocks, MaxNewBlocks  \* bounds on the blocks of a file

ASSUME PlanAssumption ==
    /\ Sizes \subseteq Nat \ {0}
    /\ Offsets \subseteq Nat
    /\ {MaxOldBlocks, MaxNewBlocks} \subseteq Nat

VARIABLES
    oldFile, newFile,  \* block maps: [offset, blocks]
    planned,           \* how many blocks of the new file are planned
    newOffset,         \* where the next one begins
    operations         \* [kind, start, end], end exclusive

planVars == <<oldFile, newFile, planned, newOffset, operations>>

Blocks == [checksum : Checksums, size : Sizes]
BlockMaps(n) == [offset : Offsets, blocks : UNION {[1..k -> Blocks] : k \in 0..n}]
Kinds == {"copy", "download"}

PlanInit ==
    /\ oldFile \in BlockMaps(MaxOldBlocks)
    /\ newFile \in BlockMaps(MaxNewBlocks)
    /\ planned = 0
    /\ newOffset = newFile.offset
    /\ operations = <<>>

\* The offset of the block numbered n of a file: that of its first block, and their sizes.
BlockOffset(f, n) ==
    LET offset[k \in 0..(n - 1)] == IF k = 0 THEN f.offset ELSE offset[k - 1] + f.blocks[k].size
    IN  offset[n - 1]

\* buildChecksumMap: the first block with a checksum stands for it.
BlocksOf(f, checksum) == {n \in DOMAIN f.blocks : f.blocks[n].checksum = checksum}
FirstOf(f, checksum) == Min(BlocksOf(f, checksum))

\* The old block of that checksum can be used if its size is the same.
ReusableByChecksum(b) == BlocksOf(oldFile, b.checksum) # {} \* mutant: any size
Reusable(b) ==
    /\ BlocksOf(oldFile, b.checksum) # {}
    /\ oldFile.blocks[FirstOf(oldFile, b.checksum)].size = b.size

\* The last operation grows if the range goes on where it ends.
Add(kind, start, size) ==
    LET n == Len(operations)
    IN  operations' = IF n > 0 /\ operations[n].kind = kind /\ operations[n].end = start
                      THEN [operations EXCEPT ![n].end = @ + size]
                      ELSE Append(operations, [kind |-> kind, start |-> start, end |-> start + size])

PlanBlock ==
    /\ planned < Len(newFile.blocks)
    /\ LET b == newFile.blocks[planned + 1] IN
       /\ IF Reusable(b)
          THEN Add("copy", BlockOffset(oldFile, FirstOf(oldFile, b.checksum)), b.size)
          ELSE Add("download", newOffset, b.size)
       /\ newOffset' = newOffset + b.size
    /\ planned' = planned + 1
    /\ UNCHANGED <<oldFile, newFile>>

PlanSpec == PlanInit /\ [][PlanBlock]_planVars

-----------------------------------------------------------------------------
\* What the plan means

BlockBytes(b) == [k \in 1..b.size |-> <<b.checksum, b.size, k>>]
FileBytes(f) == FlattenSeq([n \in DOMAIN f.blocks |-> BlockBytes(f.blocks[n])])
ByteAt(f, n) == IF n \in DOMAIN FileBytes(f) THEN FileBytes(f)[n] ELSE <<"none", 0, 0>>
RangeBytes(f, op) == [k \in 1..(op.end - op.start) |-> ByteAt(f, op.start - f.offset + k)]

Apply(ops) ==
    FlattenSeq([n \in DOMAIN ops |->
                   RangeBytes(IF ops[n].kind = "copy" THEN oldFile ELSE newFile, ops[n])])

\* The requested ranges ascend and leave a gap: one request can ask for all of them, and a
\* server that merges adjoining or overlapping ranges answers with the parts
\* DataSplitter expects.
RangesAscend ==
    \A m, n \in DOMAIN operations :
        m < n /\ operations[m].kind = "download" /\ operations[n].kind = "download"
            => operations[m].end < operations[n].start

(***************************************************************************)
(* Copying and downloading as planned rebuilds the new file, byte by byte, *)
(* however blocks were moved, repeated, dropped or resized; in particular  *)
(* the sizes add up and doDownload never reports a size mismatch.  And the *)
(* ranges to download suit one multipart request.                          *)
(***************************************************************************)
PlanRebuilds ==
    /\ Apply(operations) = SubSeq(FileBytes(newFile), 1, newOffset - newFile.offset)
    /\ RangesAscend
=============================================================================
