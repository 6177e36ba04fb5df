---------------------- MODULE FilteredDataStreamProofs ----------------------
(***************************************************************************)
(* Proofs about FilteredDataStream for every value of the constants:       *)
(* type correctness, and that data sent as finalized stays final.          *)
(***************************************************************************)
EXTENDS FilteredDataStream, TLAPS

USE ChainAssumption, StreamAssumption

\* A canonical cursor is a cursor of the current chain.
LEMMA CursorType ==
    ASSUME chain \in [Heights -> Hashes], NEW n \in Heights
    PROVE  Cursor(n) \in Cursors
BY DEF Cursor, Cursors

\* Deliver keeps received a map to 0..2.
LEMMA DeliverType ==
    ASSUME received \in [Cursors -> 0..2], NEW data, Deliver(data)
    PROVE  received' \in [Cursors -> 0..2]
BY DEF Deliver

\* Wake keeps the two flags Boolean.
LEMMA WakeType ==
    ASSUME waker \in BOOLEAN, pollable \in BOOLEAN, Wake
    PROVE  waker' \in BOOLEAN /\ pollable' \in BOOLEAN
BY DEF Wake

-----------------------------------------------------------------------------
\* A step of the specification preserves TypeOK.
LEMMA TypeStep == TypeOK /\ [Next]_vars => TypeOK'
<1> SUFFICES ASSUME TypeOK, [Next]_vars PROVE TypeOK'
  OBVIOUS
<1>. USE DEF TypeOK, ChainTypeOK
<1>1. CASE AcceptBlock /\ UNCHANGED streamVars
  BY <1>1 DEF AcceptBlock, streamVars, IngestionMessages, Cursors, Heights,
             Hashes
<1>2. CASE \E n \in Heights : FinalizeBlock(n) /\ UNCHANGED streamVars
  BY <1>2, CursorType DEF FinalizeBlock, streamVars, IngestionMessages,
                          Heights
<1>3. CASE \E k \in Heights : Reorganize(k) /\ UNCHANGED streamVars
  BY <1>3 DEF Reorganize, streamVars, IngestionMessages, Cursors, Heights,
             Hashes
<1>4. CASE \E f \in Finalities, b \in BatchSizes, flt \in Filters,
              s \in StartCursors : ReconfigureDataStream(f, b, flt, s)
  <2>1. PICK f \in Finalities, b \in BatchSizes, flt \in Filters,
             s \in StartCursors : ReconfigureDataStream(f, b, flt, s)
    BY <1>4
  <2>2. HighestAccepted \in Cursors /\
        (HighestFinalized # NoCursor => HighestFinalized \in Cursors)
    BY CursorType DEF HighestAccepted, HighestFinalized, Heights
  <2>3. s \in OptCursors /\ s.number \in -1..MaxBlock
    BY DEF OptCursors, Cursors, NoCursor, Heights
  <2>4. CASE configured \/ HighestFinalized # NoCursor
    <3>1. /\ configured' = TRUE
          /\ IF configured THEN UNCHANGED <<finCur, accCur>>
                           ELSE finCur' = HighestFinalized /\ accCur' = HighestAccepted
          /\ finality' = f /\ batchSize' = b /\ filter' = flt
          /\ prev' = s /\ startNum' = s.number
          /\ received' = [c \in Cursors |-> 0]
          /\ Wake
          /\ UNCHANGED <<pc, batchVars, finalRecv, chainVars>>
          /\ reconfigs' = reconfigs + 1 /\ reconfigs < MaxReconfigs
      BY <2>1, <2>4 DEF ReconfigureDataStream
    <3>2. waker' \in BOOLEAN /\ pollable' \in BOOLEAN
      BY <3>1, WakeType
    <3>. QED
      BY <3>1, <3>2, <2>2, <2>3, <2>4 DEF batchVars, chainVars
  <2>5. CASE ~configured /\ HighestFinalized = NoCursor
    <3>1. UNCHANGED <<configured, finality, batchSize, filter, prev, finCur,
                       accCur, startNum, waker, pollable, pc, batchVars,
                       clientVars, chainVars>>
          /\ reconfigs' = reconfigs + 1 /\ reconfigs < MaxReconfigs
      BY <2>1, <2>5 DEF ReconfigureDataStream
    <3>. QED
      BY <3>1 DEF batchVars, clientVars, chainVars
  <2>. QED
    BY <2>4, <2>5
<1>5. CASE HandleIngestionMessage
  <2>1. Head(msgs) \in IngestionMessages /\ Tail(msgs) \in Seq(IngestionMessages)
    BY <1>5 DEF HandleIngestionMessage
  <2>2. waker' \in BOOLEAN /\ pollable' \in BOOLEAN
    BY <1>5, WakeType DEF HandleIngestionMessage
  <2>. QED
    BY <1>5, <2>1, <2>2 DEF HandleIngestionMessage, IngestionMessages,
                            batchVars, clientVars
<1>6. CASE PollNext
  <2>. DEFINE first == Cursor(NextNum)
  <2>1. NextNum \in 0..MaxBlock + 1
    BY DEF NextNum, OptCursors, Cursors, NoCursor, Heights
  <2>2. NextNum <= head => first \in Cursors
    BY <2>1, CursorType DEF Heights
  <2>3. /\ waker' = TRUE
        /\ UNCHANGED <<configured, finality, batchSize, filter, finCur, accCur,
                       startNum, reconfigs, chainVars>>
    BY <1>6 DEF PollNext
  <2>4. CASE ~configured /\ pollable' = FALSE
              /\ UNCHANGED <<prev, pc, batchVars, clientVars>>
    BY <2>3, <2>4 DEF batchVars, clientVars, chainVars
  <2>5. CASE NextNum > head /\ pollable' = FALSE
              /\ UNCHANGED <<prev, pc, batchVars, clientVars>>
    BY <2>3, <2>5 DEF batchVars, clientVars, chainVars
  <2>6. CASE configured /\ NextNum <= head /\ StartFinalizedBatch
    <3>1. CASE batchSize > 0 /\ pc' = "walk" /\ cur' = first /\ bLen' = 0
               /\ bData' = {} /\ bEnd' = NoCursor
               /\ UNCHANGED <<prev, pollable, clientVars>>
      BY <2>1, <2>2, <2>3, <2>6, <3>1 DEF clientVars, chainVars, OptCursors,
         NoCursor
    <3>2. CASE prev' = NoCursor /\ UNCHANGED <<pc, batchVars, pollable, clientVars>>
      BY <2>3, <3>2 DEF batchVars, clientVars, chainVars, OptCursors, NoCursor
    <3>. QED
      BY <2>6, <3>1, <3>2 DEF StartFinalizedBatch
  <2>7. CASE NextNum <= head /\ SendAcceptedBatch
    <3>1. prev' = first /\ UNCHANGED <<pc, batchVars, finalRecv>>
      BY <2>7 DEF SendAcceptedBatch
    <3>2. received' \in [Cursors -> 0..2] /\ pollable' \in BOOLEAN
      BY <2>7, DeliverType DEF SendAcceptedBatch
    <3>. QED
      BY <2>1, <2>2, <2>3, <2>7, <3>1, <3>2 DEF batchVars, chainVars, OptCursors
  <2>8. CASE NextNum <= head /\ NextNum > finCur.number /\ pollable' = FALSE
              /\ UNCHANGED <<prev, pc, batchVars, clientVars>>
    BY <2>3, <2>8 DEF batchVars, clientVars, chainVars
  <2>. QED
    BY <1>6, <2>4, <2>5, <2>6, <2>7, <2>8 DEF PollNext, AdvanceToNextBatch
<1>7. CASE WalkStep
  <2>. DEFINE hit  == cur \in filter
              len  == IF hit THEN bLen + 1 ELSE bLen
              data == IF hit THEN bData \cup {cur} ELSE bData
              end  == IF hit THEN cur ELSE bEnd
              nxt  == cur.number + 1
  <2>1. /\ pc = "walk" /\ configured /\ cur \in Cursors
        /\ UNCHANGED <<configured, finality, batchSize, filter, finCur, accCur,
                       startNum, waker, pollable, reconfigs, chainVars>>
    BY <1>7 DEF WalkStep
  <2>2. len \in Nat /\ data \subseteq Cursors /\ end \in OptCursors
    BY <2>1 DEF OptCursors
  <2>3. CASE nxt > head \/ nxt > finCur.number \/ len >= batchSize
    <3>1. /\ pc' = "idle" /\ prev' = end /\ Deliver(data)
          /\ finalRecv' = finalRecv \cup data
          /\ cur' = NoCursor /\ bLen' = 0 /\ bData' = {} /\ bEnd' = NoCursor
      BY <1>7, <2>3 DEF WalkStep
    <3>2. received' \in [Cursors -> 0..2]
      BY <3>1, DeliverType
    <3>. QED
      BY <2>1, <2>2, <3>1, <3>2 DEF chainVars, OptCursors
  <2>4. CASE ~(nxt > head \/ nxt > finCur.number \/ len >= batchSize)
    <3>1. /\ cur' = Cursor(nxt) /\ bLen' = len /\ bData' = data /\ bEnd' = end
          /\ UNCHANGED <<pc, prev, clientVars>>
      BY <1>7, <2>4 DEF WalkStep
    <3>2. nxt \in Heights
      BY <2>1, <2>4 DEF Cursors, Heights
    <3>3. Cursor(nxt) \in Cursors
      BY <3>2, CursorType
    <3>. QED
      BY <2>1, <2>2, <3>1, <3>3 DEF chainVars, clientVars
  <2>. QED
    BY <2>3, <2>4
<1>8. CASE UNCHANGED vars
  BY <1>8 DEF vars, chainVars, streamVars
<1>. QED
  BY <1>1, <1>2, <1>3, <1>4, <1>5, <1>6, <1>7, <1>8
     DEF Next, IngestionNext, StreamNext

\* The initial states are well typed.
LEMMA TypeInit == Init => TypeOK
<1> SUFFICES ASSUME Init PROVE TypeOK
  OBVIOUS
<1>1. ChainTypeOK
  BY DEF Init, ChainInit, ChainTypeOK, Heights, Hashes
<1>2. /\ finality \in Finalities
      /\ batchSize \in BatchSizes
      /\ filter \in Filters
  BY DEF Init, StreamInit
<1>3. /\ prev \in OptCursors /\ bEnd \in OptCursors
      /\ received \in [Cursors -> 0..2]
  BY DEF Init, StreamInit, OptCursors, NoCursor
<1>4. /\ startNum \in -1..MaxBlock
      /\ reconfigs \in 0..MaxReconfigs
      /\ bLen \in Nat
  BY DEF Init, StreamInit
<1>. QED
  BY <1>1, <1>2, <1>3, <1>4 DEF Init, StreamInit, TypeOK

\* Every reachable state is well typed (TypeOK is checked by run
\* stream_finalized).
THEOREM TypeCorrect == Spec => []TypeOK
<1>1. Init => TypeOK
  BY TypeInit
<1>2. QED
  BY <1>1, TypeStep, PTL DEF Spec

-----------------------------------------------------------------------------
(***************************************************************************)
(* Finalized data stays final.  FinalizedDataIsFinal is not inductive: the *)
(* stream's finalized_cursor, the Finalized messages still queued and the  *)
(* batch being walked must be final too, since each of them becomes sent   *)
(* data later.  A block is final when it is at or below the finalized      *)
(* block and still canonical.                                              *)
(***************************************************************************)
Final(c) == c.number \in 0..finNum /\ chain[c.number] = c.hash

MsgsFinal ==
    \A i \in 1..Len(msgs) :
        msgs[i].type = "finalized" => Final(msgs[i].cursor)

RecvFinal == \A c \in finalRecv : Final(c)

CurFinal == configured => Final(finCur)

WalkFinal ==
    pc = "walk" => /\ Final(cur)
                   /\ cur.number <= finCur.number
                   /\ \A c \in bData : Final(c)

IInv == TypeOK /\ RecvFinal /\ CurFinal /\ MsgsFinal /\ WalkFinal

\* Final depends on the chain and the finalized block only.
LEMMA FinalUnchanged ==
    ASSUME UNCHANGED <<chain, finNum>>
    PROVE  \A c : Final(c)' <=> Final(c)
BY DEF Final

\* An ingestion step never changes a final block: the chain changes only
\* above the finalized block and the finalized block only rises.
LEMMA FinalStable ==
    ASSUME ChainTypeOK, IngestionNext
    PROVE  \A c : Final(c) => Final(c)'
<1> SUFFICES ASSUME NEW c, Final(c) PROVE Final(c)'
  OBVIOUS
<1>1. CASE AcceptBlock
  BY <1>1 DEF AcceptBlock, Final, ChainTypeOK, Heights
<1>2. CASE \E n \in Heights : FinalizeBlock(n)
  BY <1>2 DEF FinalizeBlock, Final, ChainTypeOK, Heights
<1>3. CASE \E k \in Heights : Reorganize(k)
  BY <1>3 DEF Reorganize, Final, ChainTypeOK, Heights
<1>. QED
  BY <1>1, <1>2, <1>3 DEF IngestionNext

\* An ingestion step keeps every queued Finalized message final.
LEMMA MsgsFinalIngestion ==
    ASSUME ChainTypeOK, IngestionNext, MsgsFinal
    PROVE  MsgsFinal'
<1>1. PICK m : msgs' = Append(msgs, m)
                /\ (m.type = "finalized" => Final(m.cursor)')
  <2>1. CASE AcceptBlock
    BY <2>1 DEF AcceptBlock
  <2>2. CASE \E n \in Heights : FinalizeBlock(n)
    BY <2>2 DEF FinalizeBlock, Final, Cursor, ChainTypeOK, Heights
  <2>3. CASE \E k \in Heights : Reorganize(k)
    BY <2>3 DEF Reorganize
  <2>. QED
    BY <2>1, <2>2, <2>3 DEF IngestionNext
<1>2. Len(msgs') = Len(msgs) + 1 /\ msgs'[Len(msgs) + 1] = m
      /\ \A i \in 1..Len(msgs) : msgs'[i] = msgs[i]
  BY <1>1 DEF ChainTypeOK
<1> SUFFICES ASSUME NEW i \in 1..Len(msgs'), msgs'[i].type = "finalized"
             PROVE  Final(msgs[i].cursor)'
  BY DEF MsgsFinal
<1>3. CASE i \in 1..Len(msgs)
  <2>1. PICK c : c = msgs[i].cursor
    OBVIOUS
  <2>2. Final(c)
    BY <1>2, <1>3, <2>1 DEF MsgsFinal
  <2>3. Final(c)'
    BY <2>2, FinalStable
  <2>. QED
    BY <1>2, <1>3, <2>1, <2>3 DEF Final
<1>4. CASE i = Len(msgs) + 1
  BY <1>1, <1>2, <1>4 DEF Final
<1>. QED
  BY <1>2, <1>3, <1>4 DEF ChainTypeOK

\* A step of the specification preserves IInv.
LEMMA IInvStep == IInv /\ [Next]_vars => IInv'
<1> SUFFICES ASSUME IInv, [Next]_vars PROVE IInv'
  OBVIOUS
<1>1. TypeOK'
  BY TypeStep DEF IInv
<1>2. CASE IngestionNext /\ UNCHANGED streamVars
  <2>1. ChainTypeOK
    BY DEF IInv, TypeOK
  <2>2. \A c : Final(c) => Final(c)'
    BY <1>2, <2>1, FinalStable
  <2>3. MsgsFinal'
    BY <1>2, <2>1, MsgsFinalIngestion DEF IInv
  <2>4. UNCHANGED <<finalRecv, configured, finCur, pc, cur, bData>>
    BY <1>2 DEF streamVars
  <2>5. RecvFinal' /\ CurFinal' /\ WalkFinal'
    BY <2>2, <2>4 DEF IInv, RecvFinal, CurFinal, WalkFinal
  <2>. QED
    BY <1>1, <2>3, <2>5 DEF IInv
<1>3. CASE \E f \in Finalities, b \in BatchSizes, flt \in Filters,
              s \in StartCursors : ReconfigureDataStream(f, b, flt, s)
  <2>1. PICK f \in Finalities, b \in BatchSizes, flt \in Filters,
             s \in StartCursors : ReconfigureDataStream(f, b, flt, s)
    BY <1>3
  <2>2. UNCHANGED <<chain, finNum, msgs, pc, cur, bData, finalRecv>>
    BY <2>1 DEF ReconfigureDataStream, chainVars, clientVars, batchVars
  <2>3. \A c : Final(c)' <=> Final(c)
    BY <2>2, FinalUnchanged
  <2>4. PICK fc : fc = finCur'
    OBVIOUS
  <2>5. configured' => Final(fc)
    <3>1. CASE configured
      BY <2>1, <2>4, <3>1 DEF ReconfigureDataStream, IInv, CurFinal
    <3>2. CASE ~configured /\ HighestFinalized # NoCursor
      <4>1. fc = Cursor(finNum) /\ finNum >= 0
        BY <2>1, <2>4, <3>2 DEF ReconfigureDataStream, HighestFinalized
      <4>. QED
        BY <4>1 DEF Cursor, Final, IInv, TypeOK, ChainTypeOK
    <3>3. CASE ~configured /\ HighestFinalized = NoCursor
      BY <2>1, <3>3 DEF ReconfigureDataStream
    <3>. QED
      BY <3>1, <3>2, <3>3
  <2>6. CurFinal'
    BY <2>3, <2>4, <2>5 DEF CurFinal, Final
  <2>7. RecvFinal' /\ MsgsFinal' /\ WalkFinal'
    BY <2>1, <2>2, <2>3 DEF ReconfigureDataStream, IInv, RecvFinal, MsgsFinal,
       WalkFinal, Final
  <2>. QED
    BY <1>1, <2>6, <2>7 DEF IInv
<1>4. CASE HandleIngestionMessage
  <2>1. /\ msgs # <<>> /\ msgs' = Tail(msgs) /\ pc = "idle"
        /\ UNCHANGED <<chain, finNum, pc, finalRecv, configured>>
    BY <1>4 DEF HandleIngestionMessage, clientVars
  <2>2. msgs \in Seq(IngestionMessages)
    BY DEF IInv, TypeOK, ChainTypeOK
  <2>3. \A c : Final(c)' <=> Final(c)
    BY <2>1, FinalUnchanged
  <2>4. \A i \in 1..Len(msgs) :
           msgs[i].type = "finalized" => Final(msgs[i].cursor)
    BY DEF IInv, MsgsFinal
  <2>5. MsgsFinal'
    <3> SUFFICES ASSUME NEW i \in 1..Len(msgs'), msgs'[i].type = "finalized"
                 PROVE  Final(msgs[i].cursor)'
      BY DEF MsgsFinal
    <3>1. PICK c : c = msgs'[i].cursor
      OBVIOUS
    <3>2. c = msgs[i + 1].cursor /\ i + 1 \in 1..Len(msgs)
          /\ msgs[i + 1].type = "finalized"
      BY <2>1, <2>2, <3>1
    <3>3. Final(c)'
      BY <2>3, <2>4, <3>2
    <3>. QED
      BY <3>1, <3>3 DEF Final
  <2>6. CurFinal'
    <3>1. PICK fc : fc = finCur'
      OBVIOUS
    <3>2. configured => fc = finCur \/ (fc = msgs[1].cursor /\ msgs[1].type = "finalized")
      <4>1. Head(msgs) = msgs[1] /\ msgs[1] \in IngestionMessages
        BY <2>1, <2>2
      <4>2. msgs[1].type \in {"accepted", "finalized"}
        BY <4>1 DEF IngestionMessages
      <4>3. CASE msgs[1].type = "accepted"
        BY <1>4, <3>1, <4>1, <4>3 DEF HandleIngestionMessage
      <4>4. CASE msgs[1].type = "finalized"
        BY <1>4, <3>1, <4>1, <4>4 DEF HandleIngestionMessage
      <4>. QED
        BY <4>2, <4>3, <4>4
    <3>3. configured => Final(fc)
      BY <2>1, <2>2, <2>4, <3>2 DEF IInv, CurFinal
    <3>4. configured' => Final(fc)'
      BY <2>1, <2>3, <3>3
    <3>. QED
      BY <3>1, <3>4 DEF CurFinal, Final
  <2>7. RecvFinal' /\ WalkFinal'
    BY <2>1, <2>3 DEF IInv, RecvFinal, WalkFinal
  <2>. QED
    BY <1>1, <2>5, <2>6, <2>7 DEF IInv
<1>5. CASE PollNext
  <2>1. pc = "idle" /\ UNCHANGED <<chain, finNum, msgs, finCur, configured>>
    BY <1>5 DEF PollNext, chainVars
  <2>2. \A c : Final(c)' <=> Final(c)
    BY <2>1, FinalUnchanged
  <2>3. finalRecv' = finalRecv
    BY <1>5 DEF PollNext, AdvanceToNextBatch, StartFinalizedBatch,
       SendAcceptedBatch, clientVars
  <2>4. pc' = "walk" => /\ configured
                        /\ cur' = Cursor(NextNum)
                        /\ NextNum <= finCur.number
                        /\ bData' = {}
    BY <1>5 DEF PollNext, AdvanceToNextBatch, StartFinalizedBatch,
       SendAcceptedBatch, batchVars
  <2>5. NextNum \in Nat
    BY DEF NextNum, IInv, TypeOK, OptCursors, Cursors, NoCursor, Heights
  <2>6. WalkFinal'
    <3> SUFFICES ASSUME pc' = "walk"
                 PROVE  Final(cur)' /\ cur'.number <= finCur'.number
      BY <2>4 DEF WalkFinal
    <3>1. PICK c : c = cur'
      OBVIOUS
    <3>2. Final(finCur)
      BY <2>4 DEF IInv, CurFinal
    <3>3. c.number = NextNum /\ c.hash = chain[NextNum]
      BY <2>4, <3>1 DEF Cursor
    <3>4. NextNum \in 0..finNum
      BY <2>4, <2>5, <3>2 DEF Final, IInv, TypeOK, ChainTypeOK
    <3>5. Final(c)
      BY <3>3, <3>4 DEF Final
    <3>. QED
      BY <2>1, <2>2, <2>4, <3>1, <3>5 DEF Final, Cursor
  <2>7. RecvFinal' /\ CurFinal' /\ MsgsFinal'
    BY <2>1, <2>2, <2>3 DEF IInv, RecvFinal, CurFinal, MsgsFinal
  <2>. QED
    BY <1>1, <2>6, <2>7 DEF IInv
<1>6. CASE WalkStep
  <2>. DEFINE hit  == cur \in filter
              data == IF hit THEN bData \cup {cur} ELSE bData
              nxt  == cur.number + 1
              stop == \/ nxt > head \/ nxt > finCur.number
                      \/ (IF hit THEN bLen + 1 ELSE bLen) >= batchSize
  <2>1. pc = "walk" /\ UNCHANGED <<chain, finNum, msgs, finCur, configured>>
    BY <1>6 DEF WalkStep, chainVars
  <2>2. \A c : Final(c)' <=> Final(c)
    BY <2>1, FinalUnchanged
  <2>3. \A c \in data : Final(c)
    BY <2>1 DEF IInv, WalkFinal
  <2>4. MsgsFinal' /\ CurFinal'
    BY <2>1, <2>2 DEF IInv, MsgsFinal, CurFinal
  <2>5. CASE stop
    <3>1. pc' = "idle" /\ finalRecv' = finalRecv \cup data
      BY <1>6, <2>5 DEF WalkStep, stop, data, hit, nxt
    <3>2. RecvFinal' /\ WalkFinal'
      BY <2>2, <2>3, <3>1 DEF IInv, RecvFinal, WalkFinal
    <3>. QED
      BY <1>1, <2>4, <3>2 DEF IInv
  <2>6. CASE ~stop
    <3>1. pc' = "walk" /\ cur' = Cursor(nxt) /\ bData' = data
          /\ finalRecv' = finalRecv
      BY <1>6, <2>6 DEF WalkStep, clientVars, stop, data, hit, nxt
    <3>2. nxt \in 0..finNum /\ nxt <= finCur.number
      BY <2>1, <2>6 DEF stop, Final, IInv, CurFinal, WalkFinal, TypeOK, Cursors,
         Heights, ChainTypeOK
    <3>3. PICK c : c = cur'
      OBVIOUS
    <3>4. Final(c)
      BY <3>1, <3>2, <3>3 DEF Final, Cursor
    <3>5. WalkFinal'
      BY <2>1, <2>2, <2>3, <3>1, <3>2, <3>3, <3>4 DEF WalkFinal, Final, Cursor
    <3>6. RecvFinal'
      BY <2>2, <3>1 DEF IInv, RecvFinal
    <3>. QED
      BY <1>1, <2>4, <3>5, <3>6 DEF IInv
  <2>. QED
    BY <2>5, <2>6
<1>7. CASE UNCHANGED vars
  BY <1>1, <1>7 DEF vars, chainVars, streamVars, IInv, RecvFinal, CurFinal,
     MsgsFinal, WalkFinal, Final
<1>. QED
  BY <1>2, <1>3, <1>4, <1>5, <1>6, <1>7 DEF Next, StreamNext

\* Data sent as finalized stays final (FinalizedDataIsFinal is checked by
\* run stream_finalized): no reorganisation reported after a finalized
\* batch can replace a block of it.
THEOREM FinalizedFinal == Spec => []FinalizedDataIsFinal
<1>1. Init => IInv
  <2> SUFFICES ASSUME Init PROVE IInv
    OBVIOUS
  <2>1. TypeOK
    BY TypeInit
  <2>. QED
    BY <2>1 DEF IInv, Init, StreamInit, ChainInit, RecvFinal, CurFinal,
       MsgsFinal, WalkFinal
<1>2. IInv => FinalizedDataIsFinal
  BY DEF IInv, RecvFinal, FinalizedDataIsFinal, Final
<1>. QED
  BY <1>1, <1>2, IInvStep, PTL DEF Spec

=============================================================================
