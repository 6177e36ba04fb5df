--------------------------- MODULE FinalizedStream ---------------------------
(***************************************************************************)
(* What a filtered data stream promises its client about finalized data    *)
(* (spec 4.6 and the invariants of section 8), stated without batches,     *)
(* cursors or wakers: over the chain of ChainIngestion, the client is      *)
(* sent, as finalized, only blocks that are final and canonical and match  *)
(* the filter it configured, and what it was sent is never taken back.     *)
(* FilteredDataStream implements this specification with delivered the    *)
(* set of blocks sent in Finalized batches.                                *)
(***************************************************************************)
EXTENDS ChainIngestion

CONSTANT Filters   \* the filters a client may configure

VARIABLES
    delivered,  \* the blocks sent to the client as finalized
    filter      \* the filter of the client's current configuration

vars == <<chainVars, delivered, filter>>

\* Blocks at or below the finalized block whose version is canonical.
FinalBlocks == {c \in Cursors : c.number <= finNum /\ chain[c.number] = c.hash}

Init ==
    /\ ChainInit
    /\ delivered = {}
    /\ filter \in Filters

\* The client configures, or reconfigures, the stream.
Configure ==
    /\ filter' \in Filters
    /\ UNCHANGED <<chainVars, delivered>>

\* The stream takes the next ingestion message from its channel.
Consume ==
    /\ msgs # <<>>
    /\ msgs' = Tail(msgs)
    /\ UNCHANGED <<chain, head, finNum, gen, delivered, filter>>

\* The client is sent final blocks that match its filter.
SendFinal ==
    /\ delivered \subseteq delivered'
    /\ delivered' \subseteq delivered \cup (FinalBlocks \cap filter)
    /\ UNCHANGED <<chainVars, filter>>

Next ==
    \/ IngestionNext /\ UNCHANGED <<delivered, filter>>
    \/ Configure
    \/ Consume
    \/ SendFinal

Spec == Init /\ [][Next]_vars

=============================================================================
