------------------------------- MODULE Chunks -------------------------------
(***************************************************************************)
(* The chunk arithmetic of vendored-from-bore/transfer.rs, which sender and *)
(* receiver each apply to the manifest on their own.  Offsets and lengths   *)
(* are u64; the number of a chunk, and the number of chunks, is a u32.      *)
(***************************************************************************)
EXTENDS Integers

CONSTANTS
    ChunkSize,   \* CHUNK_SIZE
    U32          \* 2^32, the number of values of a u32

ASSUME ChunkAssumption == ChunkSize \in Nat \ {0} /\ U32 \in Nat \ {0}

\* Forgets the last, short chunk (mutant).
BugFloorCount(size) == (size \div ChunkSize) % U32

\* size.div_ceil(CHUNK_SIZE) as u32: the cast keeps the low bits.
ChunkCountFor(size) == ((size + ChunkSize - 1) \div ChunkSize) % U32

Offset(index) == index * ChunkSize

\* size.saturating_sub(offset).min(CHUNK_SIZE)
ChunkLen(size, index) ==
    LET left == IF size > Offset(index) THEN size - Offset(index) ELSE 0
    IN IF left < ChunkSize THEN left ELSE ChunkSize

\* The byte b lies in the chunk.
InChunk(b, size, index) == Offset(index) <= b /\ b < Offset(index) + ChunkLen(size, index)

\* The sizes whose chunks a u32 can number.
Countable(size) == size <= (U32 - 1) * ChunkSize
=============================================================================
