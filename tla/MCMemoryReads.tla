--------------------------- MODULE MCMemoryReads ----------------------------
(* A target of sixteen addresses and pointers of two bytes.                *)
EXTENDS MemoryReads

MCPointer == [k \in 0..1 |-> 1]

\* Between two writable regions, the second up to the last address, lie
\* read-only memory and the engine's own stack, wholly mapped or in part: the
\* regions begin and end inside pointers.  The bytes with value 1 make
\* pointers, in each region and over their borders, and one out of place.
MCReadOnly == 5..7
MCOwnStack == {8}
MCLayout(mapped, ones) ==
  [a \in 0..15 |-> IF a \notin mapped THEN -1 ELSE IF a \in ones THEN 1 ELSE 0]
MCLayouts ==
  {MCLayout((1..6) \union (9..15), {2, 3, 4, 5, 10, 11}),
   MCLayout((1..6) \union (9..15), {3, 4, 9, 10, 11, 14, 15}),
   MCLayout(1..15, 2..11)}

MCRanges == {<<0, 15>>, <<3, 12>>, <<9, 5>>}
MCOptions ==
  [maxResults : {1, 9}, maxScannedBytes : {5, 99}, chunkBytes : {3, 4}]
    \union {[maxResults |-> 9, maxScannedBytes |-> 99, chunkBytes |-> 1],
            [maxResults |-> 0, maxScannedBytes |-> 99, chunkBytes |-> 4]}
MCPages ==
  {[address |-> 5, length |-> 5, chunkSize |-> 2], [address |-> 9, length |-> 7, chunkSize |-> 4],
   [address |-> 13, length |-> 4, chunkSize |-> 2]}
=============================================================================
