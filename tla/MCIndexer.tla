----------------------------- MODULE MCIndexer -----------------------------
(***************************************************************************)
(* An instance of Indexer for TLC: block 1 has the two pins of one         *)
(* transaction, block 2 has none, block 3 has one.                         *)
(***************************************************************************)
EXTENDS Indexer

CONSTANTS a1, a2, b1, txA, txB

MCBlocks == << <<a1, a2>>, <<>>, <<b1>> >>
MCTxPins == [t \in {txA, txB} |-> IF t = txA THEN <<a1, a2>> ELSE <<b1>>]
=============================================================================
