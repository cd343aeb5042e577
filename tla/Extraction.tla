----------------------------- MODULE Extraction -----------------------------
(***************************************************************************)
(* services/extraction.py and services/library.py: how the text of a page  *)
(* is cut, into batches for the model and into chunks for the search.      *)
(*                                                                         *)
(* A block has an id and a size, its text being the positions 1 .. size; a *)
(* block of blanks has size 0.  A fragment is a stretch of a block.        *)
(***************************************************************************)
EXTENDS Integers, Sequences, SequencesExt

CONSTANTS
    MaxBlocks, MaxChars,    \* MAX_BLOCKS_PER_BATCH and MAX_BATCH_CHARS: 8 and 6000
    Overlap,                \* of the fragments of a long block: 200
    Window, Stride          \* of a chunk and between two: 2400 and 2200

ASSUME SizeAssumption ==
    /\ MaxBlocks \in Nat \ {0} /\ MaxChars \in Nat \ {0}
    /\ Overlap \in 0 .. MaxChars - 1
    /\ Stride \in Nat \ {0} /\ Window \in Nat /\ Stride <= Window

Smaller(a, b) == IF a < b THEN a ELSE b

Fragment(block, first, length) ==
    [block |-> block.id, from |-> first + 1, to |-> Smaller(first + length, block.size)]

Size(fragment) == fragment.to - fragment.from + 1

\* A block that is too long is cut into fragments that overlap, down to its end.
Fragments(block) ==
    LET step == MaxChars - Overlap
        further == IF block.size <= MaxChars THEN 0
                   ELSE (block.size - MaxChars + step - 1) \div step
    IN IF block.size = 0 THEN <<>>
       ELSE [k \in 1 .. further + 1 |-> Fragment(block, (k - 1) * step, MaxChars)]

\* _block_batches: a batch is closed before it gets more blocks or characters than allowed.
IsFull(batch, fragment) ==
    \/ Len(batch) >= MaxBlocks
    \/ FoldLeft(LAMBDA sum, f : sum + Size(f), Size(fragment), batch) > MaxChars

Extended(batches, fragment) ==
    IF batches = <<>> \/ IsFull(Last(batches), fragment)
    THEN Append(batches, <<fragment>>)
    ELSE Append(Front(batches), Append(Last(batches), fragment))

BlockBatches(blocks) ==
    LET fragments == FlattenSeq([i \in DOMAIN blocks |-> Fragments(blocks[i])])
        batches[n \in 0 .. Len(fragments)] ==
            IF n = 0 THEN <<>> ELSE Extended(batches[n - 1], fragments[n])
    IN batches[Len(fragments)]

\* index_document: windows that overlap, one from every stride.
Chunks(blocks) ==
    UNION {{Fragment(blocks[i], k * Stride, Window) : k \in 0 .. (blocks[i].size - 1) \div Stride} :
              i \in {j \in DOMAIN blocks : blocks[j].size > 0}}

Positions(fragments) ==
    UNION {{<<f.block, n>> : n \in f.from .. f.to} : f \in fragments}

AllPositions(blocks) == UNION {{<<b.id, n>> : n \in 1 .. b.size} : b \in blocks}
=============================================================================
