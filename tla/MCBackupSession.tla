-------------------------- MODULE MCBackupSession --------------------------
(* Small instances of BackupSession for TLC.                               *)
EXTENDS BackupSession

Chunk(item, offset, len) == [op |-> "send_chunk", item |-> item, arg |-> offset, len |-> len]
ItemDone(item, total)    == [op |-> "finish_item", item |-> item, arg |-> total, len |-> 0]

\* An item of two chunks, the first of the largest legal size.
TwoChunks == <<Chunk(1, 0, 2), Chunk(1, 2, 1), ItemDone(1, 3)>>
\* An empty item (a chunk of no bytes), and a backend with nothing in it.
EmptyItem == <<Chunk(1, 0, 0), ItemDone(1, 0)>>
Nothing   == <<>>
\* A chunk one byte too large, after one that is fine.
TooLarge  == <<Chunk(1, 0, 2), Chunk(1, 2, 3)>>

\* Two items, interleaved.
TwoItems  == <<Chunk(1, 0, 1), Chunk(2, 0, 2), ItemDone(1, 1), Chunk(2, 2, 2), ItemDone(2, 4)>>

OnePayload    == {TwoChunks}
LegalPayloads == {TwoItems, TwoChunks, EmptyItem, Nothing}
MCPayloads    == {TwoItems, TwoChunks, EmptyItem, Nothing, TooLarge}
=============================================================================
