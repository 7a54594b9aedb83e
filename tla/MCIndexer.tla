----------------------------- MODULE MCIndexer ------------------------------
(***************************************************************************)
(* The pipeline on a chain of a few blocks, for TLC.                       *)
(***************************************************************************)
EXTENDS Indexer

\* The pass runs are about chains the queue cannot hold whole.
ASSUME LongChainAssumption == LongChain

=============================================================================
