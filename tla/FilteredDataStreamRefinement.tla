--------------------- MODULE FilteredDataStreamRefinement ---------------------
(***************************************************************************)
(* Proof that FilteredDataStream implements FinalizedStream, for every     *)
(* value of the constants.  The refinement mapping sends finalRecv to the  *)
(* abstract delivered set and keeps the chain, the channel and the filter. *)
(* It rests on the inductive invariant IInv of FilteredDataStreamProofs    *)
(* (a batch being walked holds final blocks only) and on WalkFilter (it    *)
(* holds blocks of the current filter only).                               *)
(***************************************************************************)
EXTENDS FilteredDataStreamProofs

USE ChainAssumption, StreamAssumption

\* The batch being walked holds only blocks that match the filter: the
\* filter cannot change during the walk, reconfiguration needs pc = "idle".
WalkFilter == pc = "walk" => bData \subseteq filter

LEMMA WalkFilterStep == WalkFilter /\ [Next]_vars => WalkFilter'
<1> SUFFICES ASSUME WalkFilter, [Next]_vars PROVE WalkFilter'
  OBVIOUS
<1>1. CASE IngestionNext /\ UNCHANGED streamVars
  BY <1>1 DEF WalkFilter, streamVars, batchVars
<1>2. CASE \E f \in Finalities, b \in BatchSizes, flt \in Filters,
             s \in StartCursors : ReconfigureDataStream(f, b, flt, s)
  BY <1>2 DEF ReconfigureDataStream, WalkFilter
<1>3. CASE HandleIngestionMessage
  BY <1>3 DEF HandleIngestionMessage, WalkFilter, batchVars
<1>4. CASE PollNext
  <2>1. pc' = "walk" => bData' = {}
    BY <1>4 DEF PollNext, AdvanceToNextBatch, StartFinalizedBatch,
       SendAcceptedBatch, batchVars
  <2>. QED
    BY <2>1 DEF WalkFilter
<1>5. CASE WalkStep
  <2>. DEFINE hit  == cur \in filter
              data == IF hit THEN bData \cup {cur} ELSE bData
  <2>1. pc = "walk" /\ filter' = filter
    BY <1>5 DEF WalkStep
  <2>2. pc' = "walk" => bData' = data
    BY <1>5 DEF WalkStep, data, hit
  <2>. QED
    BY <2>1, <2>2 DEF WalkFilter
<1>6. CASE UNCHANGED vars
  BY <1>6 DEF vars, streamVars, batchVars, WalkFilter
<1>. QED
  BY <1>1, <1>2, <1>3, <1>4, <1>5, <1>6 DEF Next, StreamNext

\* The initial state of the stream is an initial state of the abstract one.
LEMMA InitRefines == Init => Abstract!Init
BY DEF Init, StreamInit, ChainInit, Abstract!Init, Abstract!ChainInit, Heights,
   Abstract!Heights

\* A step of the chain is the same step of the abstract chain.
LEMMA IngestionRefines ==
    IngestionNext /\ UNCHANGED streamVars => Abstract!Next
<1> SUFFICES ASSUME IngestionNext, UNCHANGED streamVars PROVE Abstract!Next
  OBVIOUS
<1>1. UNCHANGED <<finalRecv, filter>>
  BY DEF streamVars
<1>2. Abstract!IngestionNext
  BY DEF IngestionNext, Abstract!IngestionNext, AcceptBlock, Abstract!AcceptBlock,
     FinalizeBlock, Abstract!FinalizeBlock, Reorganize, Abstract!Reorganize,
     Heights, Abstract!Heights, Cursor, Abstract!Cursor
<1>. QED
  BY <1>1, <1>2 DEF Abstract!Next

\* Every step of the stream is a step of the abstract stream or leaves the
\* abstract state unchanged.
LEMMA StepRefines ==
    IInv /\ WalkFilter /\ [Next]_vars => [Abstract!Next]_Abstract!vars
<1> SUFFICES ASSUME IInv, WalkFilter, [Next]_vars
             PROVE  [Abstract!Next]_Abstract!vars
  OBVIOUS
<1>1. CASE IngestionNext /\ UNCHANGED streamVars
  BY <1>1, IngestionRefines
<1>2. CASE \E f \in Finalities, b \in BatchSizes, flt \in Filters,
             s \in StartCursors : ReconfigureDataStream(f, b, flt, s)
  <2>1. PICK f \in Finalities, b \in BatchSizes, flt \in Filters,
             s \in StartCursors : ReconfigureDataStream(f, b, flt, s)
    BY <1>2
  <2>2. filter' \in Filters /\ UNCHANGED <<chainVars, finalRecv>>
    BY <2>1 DEF ReconfigureDataStream, IInv, TypeOK, clientVars
  <2>. QED
    BY <2>2 DEF Abstract!Next, Abstract!Configure, chainVars, Abstract!chainVars
<1>3. CASE HandleIngestionMessage
  <2>1. /\ msgs # <<>> /\ msgs' = Tail(msgs)
        /\ UNCHANGED <<chain, head, finNum, gen, finalRecv, filter>>
    BY <1>3 DEF HandleIngestionMessage, clientVars
  <2>. QED
    BY <2>1 DEF Abstract!Next, Abstract!Consume, Abstract!chainVars
<1>4. CASE PollNext
  <2>1. UNCHANGED <<chainVars, finalRecv, filter>>
    BY <1>4 DEF PollNext, AdvanceToNextBatch, StartFinalizedBatch,
       SendAcceptedBatch, clientVars
  <2>. QED
    BY <2>1 DEF Abstract!vars, chainVars, Abstract!chainVars
<1>5. CASE WalkStep
  <2>. DEFINE hit  == cur \in filter
              data == IF hit THEN bData \cup {cur} ELSE bData
  <2>1. UNCHANGED <<chainVars, filter>>
    BY <1>5 DEF WalkStep
  <2>2. finalRecv' = finalRecv \/ finalRecv' = finalRecv \cup data
    BY <1>5 DEF WalkStep, clientVars, data, hit
  <2>3. \A c \in data : Final(c)
    BY <1>5 DEF WalkStep, IInv, WalkFinal
  <2>4. data \subseteq filter
    BY <1>5 DEF WalkStep, WalkFilter
  <2>5. data \subseteq Abstract!FinalBlocks \cap filter
    BY <2>3, <2>4, CursorType DEF Final, Abstract!FinalBlocks, IInv, TypeOK,
       WalkFinal, Cursors, Heights
  <2>. QED
    BY <2>1, <2>2, <2>5 DEF Abstract!Next, Abstract!SendFinal, Abstract!vars,
       chainVars, Abstract!chainVars
<1>6. CASE UNCHANGED vars
  BY <1>6 DEF vars, streamVars, Abstract!vars, chainVars, Abstract!chainVars
<1>. QED
  BY <1>1, <1>2, <1>3, <1>4, <1>5, <1>6 DEF Next, StreamNext

(***************************************************************************)
(* The filtered data stream implements the finalized stream                *)
(* (ImplementsFinalizedStream is checked by run stream_finalized): its     *)
(* Finalized batches only ever add final, canonical blocks that match the  *)
(* client's filter.                                                        *)
(***************************************************************************)
THEOREM Refinement == Spec => ImplementsFinalizedStream
<1>1. Init => IInv /\ WalkFilter
  <2> SUFFICES ASSUME Init PROVE IInv /\ WalkFilter
    OBVIOUS
  <2>1. TypeOK
    BY TypeInit
  <2>. QED
    BY <2>1 DEF IInv, Init, StreamInit, ChainInit, RecvFinal, CurFinal,
       MsgsFinal, WalkFinal, WalkFilter
<1>2. IInv /\ WalkFilter /\ [Next]_vars => (IInv /\ WalkFilter)'
  BY IInvStep, WalkFilterStep
<1>3. Spec => [](IInv /\ WalkFilter)
  BY <1>1, <1>2, PTL DEF Spec
<1>4. Spec => Abstract!Init
  BY InitRefines, PTL DEF Spec
<1>5. [](IInv /\ WalkFilter) /\ [][Next]_vars => [][Abstract!Next]_Abstract!vars
  BY StepRefines, PTL
<1>. QED
  BY <1>3, <1>4, <1>5, PTL DEF Spec, ImplementsFinalizedStream, Abstract!Spec

=============================================================================
