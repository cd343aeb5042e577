---------------------------- MODULE MCIngestion ----------------------------
(***************************************************************************)
(* A document of two pages for Ingestion, the second one scanned, and what *)
(* Extraction does with blocks of other sizes.                             *)
(***************************************************************************)
EXTENDS Ingestion

CONSTANTS s1, e1

\* A short block and one of blanks.
MCLayout == <<<<1, 0>>, <<>>>>

\* Blocks that fit, that are cut in fragments once and several times, and blank ones: the
\* batches and the windows leave out nothing of them, and no batch is longer than allowed.
ASSUME BlocksOfAnySize ==
    \A sizes \in [1 .. 3 -> {0, 1, 2, MaxChars, MaxChars + 1, 3 * MaxChars}] :
       LET blocks == [n \in 1 .. 3 |-> [id |-> n, size |-> sizes[n]]]
           batches == BlockBatches(blocks)
       IN /\ AllPositions(Range(blocks))
                = Positions(UNION {Range(batches[n]) : n \in DOMAIN batches})
          /\ AllPositions(Range(blocks)) = Positions(Chunks(blocks))
          /\ \A n \in DOMAIN batches :
                /\ Len(batches[n]) \in 1 .. MaxBlocks
                /\ FoldLeft(LAMBDA sum, f : sum + Size(f), 0, batches[n]) <= MaxChars
=============================================================================
