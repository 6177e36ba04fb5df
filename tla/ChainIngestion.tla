--------------------------- MODULE ChainIngestion ---------------------------
(***************************************************************************)
(* The ingestion side that a filtered data stream observes: the canonical  *)
(* chain kept in storage (what StorageReader::canonical_block_id,          *)
(* highest_finalized_block and highest_accepted_block return) and the      *)
(* ordered channel of IngestionMessage values published to the stream.    *)
(*                                                                         *)
(* The chain tracker that drives this is not under src/ (only              *)
(* beaconchain/src/ingestion/mod.rs, which declares chain_tracker, is); its *)
(* actions are modelled from the spec (section 4.1).  The message type is  *)
(* the one the code matches on in handle_ingestion_message: Accepted and   *)
(* Finalized, no Invalidated variant.                                      *)
(*                                                                         *)
(* A block hash is abstracted to the reorganisation generation that        *)
(* produced the block: after the k-th reorganisation every new block       *)
(* carries hash k, so a cursor <<number, hash>> is never reused.           *)
(***************************************************************************)
EXTENDS Integers, Sequences

CONSTANTS
    MaxBlock,   \* highest block number the chain may reach
    MaxReorgs   \* how many reorganisations the provider may report

ASSUME ChainAssumption == MaxBlock \in Nat /\ MaxReorgs \in Nat

VARIABLES
    chain,   \* chain[n]: hash of the canonical block at height n (n <= head)
    head,    \* highest ingested (accepted) block number
    finNum,  \* highest finalized block number, -1 before any is finalized
    gen,     \* number of reorganisations so far; hash of new blocks
    msgs     \* IngestionMessage channel to the stream, in publication order

chainVars == <<chain, head, finNum, gen, msgs>>

Heights == 0..MaxBlock
Hashes == 0..MaxReorgs
Cursors == [number : Heights, hash : Hashes]

\* Option<GlobalBlockId>::None: number -1 so that "number + 1" is 0.
NoCursor == [number |-> -1, hash |-> 0]
OptCursors == Cursors \cup {NoCursor}

IngestionMessages == [type : {"accepted", "finalized"}, cursor : Cursors]

\* The canonical cursor at height n (n <= head).
Cursor(n) == [number |-> n, hash |-> chain[n]]

\* StorageReader::highest_finalized_block.
HighestFinalized == IF finNum >= 0 THEN Cursor(finNum) ELSE NoCursor

\* StorageReader::highest_accepted_block, unwrap_or(finalized) applied.
HighestAccepted == Cursor(head)

ChainTypeOK ==
    /\ chain \in [Heights -> Hashes]
    /\ head \in Heights
    /\ finNum \in -1..head
    /\ gen \in Hashes
    /\ msgs \in Seq(IngestionMessages)

ChainInit ==
    /\ chain = [n \in Heights |-> 0]
    /\ head = 0
    /\ finNum = -1
    /\ gen = 0
    /\ msgs = <<>>

\* The tracker appends the next block on top of the accepted head and
\* publishes Accepted(cursor).
AcceptBlock ==
    /\ head < MaxBlock
    /\ head' = head + 1
    /\ chain' = [chain EXCEPT ![head + 1] = gen]
    /\ msgs' = Append(msgs, [type |-> "accepted",
                             cursor |-> [number |-> head + 1, hash |-> gen]])
    /\ UNCHANGED <<finNum, gen>>

\* The provider reports a higher finalized block; the tracker publishes
\* Finalized(cursor).
FinalizeBlock(n) ==
    /\ n \in (finNum + 1)..head
    /\ finNum' = n
    /\ msgs' = Append(msgs, [type |-> "finalized", cursor |-> Cursor(n)])
    /\ UNCHANGED <<chain, head, gen>>

\* The provider's block at height k differs from the stored one: blocks
\* k.. are replaced, never at or below the finalized block.  With no
\* Invalidated variant the only message the stream gets is Accepted of the
\* new block.
Reorganize(k) ==
    /\ gen < MaxReorgs
    /\ k \in (finNum + 1)..head
    /\ k >= 1
    /\ gen' = gen + 1
    /\ head' = k
    /\ chain' = [chain EXCEPT ![k] = gen + 1]
    /\ msgs' = Append(msgs, [type |-> "accepted",
                             cursor |-> [number |-> k, hash |-> gen + 1]])
    /\ UNCHANGED finNum

IngestionNext ==
    \/ AcceptBlock
    \/ \E n \in Heights : FinalizeBlock(n)
    \/ \E k \in Heights : Reorganize(k)

=============================================================================
