--------------------- MODULE FilteredDataStreamNoMissed ---------------------
(***************************************************************************)
(* The client misses no finalized data (NoMissedData), proved for every    *)
(* value of the constants under the condition the code needs: the         *)
(* subscriber asks for finalized data only, or the chain never            *)
(* reorganises.  Without it the property fails (run stream_reorg_missed): *)
(* handle_ingestion_message never rewinds previous_iter_cursor, so an     *)
(* accepted block replaced by a reorganisation below the cursor is never  *)
(* sent.                                                                   *)
(***************************************************************************)
EXTENDS FilteredDataStreamProofs

USE ChainAssumption, StreamAssumption

\* Height n can no longer change in storage: it is at or below the
\* finalized block, or no reorganisation can happen and n is ingested.
Stable(n) == n <= finNum \/ (MaxReorgs = 0 /\ n <= head)

\* Every block of heights startNum+1..hi whose canonical version matches
\* the filter was sent in this configuration, or is in the set extra.
Covered(hi, extra) ==
    \A n \in (startNum + 1)..hi :
        Cursor(n) \in filter => received[Cursor(n)] >= 1 \/ Cursor(n) \in extra

\* Between two polls: the blocks up to previous_iter_cursor were sent, and
\* they can no longer be replaced.
IdleCovered ==
    configured /\ pc = "idle" =>
        /\ prev.number <= startNum \/ Stable(prev.number)
        /\ Covered(prev.number, {})

\* Inside the loop of send_finalized_batch: the blocks before the current
\* cursor were sent or are in the batch, and the batch end lies before it.
WalkCovered ==
    pc = "walk" => Covered(cur.number - 1, bData) /\ bEnd.number < cur.number

NMInv == IInv /\ IdleCovered /\ WalkCovered

\* The condition under which no finalized data is missed.
FinalizedOrNoReorgs == Finalities = {"finalized"} \/ MaxReorgs = 0

-----------------------------------------------------------------------------
\* Deliver never lowers a count and counts every delivered block.
LEMMA DeliverGrows ==
    ASSUME received \in [Cursors -> 0..2], NEW data, Deliver(data)
    PROVE  \A c \in Cursors : /\ received'[c] >= received[c]
                              /\ c \in data => received'[c] >= 1
BY DEF Deliver

\* An ingestion step never changes a stable height, which stays stable.
LEMMA StableStep ==
    ASSUME ChainTypeOK, IngestionNext, NEW n \in Heights, Stable(n)
    PROVE  Stable(n)' /\ chain'[n] = chain[n]
<1>1. CASE AcceptBlock
  BY <1>1 DEF AcceptBlock, Stable, ChainTypeOK, Heights
<1>2. CASE \E m \in Heights : FinalizeBlock(m)
  BY <1>2 DEF FinalizeBlock, Stable, ChainTypeOK, Heights
<1>3. CASE \E k \in Heights : Reorganize(k)
  BY <1>3 DEF Reorganize, Stable, ChainTypeOK, Heights, Hashes
<1>. QED
  BY <1>1, <1>2, <1>3 DEF IngestionNext

\* Covered is kept by a step that changes neither the configuration, nor
\* the counts, nor the canonical cursors of the heights it speaks of.
LEMMA CoveredFrame ==
    ASSUME NEW hi \in Int, NEW extra, Covered(hi, extra),
           UNCHANGED <<startNum, filter, received>>,
           \A n \in (startNum + 1)..hi : Cursor(n)' = Cursor(n)
    PROVE  Covered(hi, extra)'
BY DEF Covered

\* Covered for a range is Covered for a shorter one, with more extra.
LEMMA CoveredMono ==
    ASSUME NEW hi \in Int, NEW lo \in Int, lo <= hi, NEW extra, NEW more,
           extra \subseteq more, Covered(hi, extra)
    PROVE  Covered(lo, more)
BY DEF Covered

-----------------------------------------------------------------------------
\* The heights at or below a stable one are stable.
LEMMA StableDown ==
    ASSUME finNum \in Int, head \in Int,
           NEW m \in Int, NEW n \in Int, n <= m, Stable(m)
    PROVE  Stable(n)
BY DEF Stable

\* A chain step keeps IdleCovered and WalkCovered: the heights they speak
\* of are stable, so their canonical cursors do not change.
LEMMA NMIngestion ==
    ASSUME NMInv, IngestionNext, UNCHANGED streamVars
    PROVE  IdleCovered' /\ WalkCovered'
<1>1. TypeOK /\ ChainTypeOK
  BY DEF NMInv, IInv, TypeOK
<1>0. /\ finNum \in Int /\ head \in Int /\ startNum \in Int
      /\ finNum <= head /\ head <= MaxBlock /\ startNum >= -1
  BY <1>1 DEF ChainTypeOK, TypeOK, Heights
<1>2. UNCHANGED <<configured, pc, prev, startNum, filter, received, cur, bData,
                  bEnd>>
  BY DEF streamVars
<1>3. ASSUME NEW hi \in Int, NEW extra, Covered(hi, extra), Stable(hi)
      PROVE  Covered(hi, extra)'
  <2>1. SUFFICES \A n \in (startNum + 1)..hi : Cursor(n)' = Cursor(n)
    BY <1>2, <1>3, CoveredFrame
  <2> TAKE n \in (startNum + 1)..hi
  <2>2. Stable(n)
    BY <1>0, <1>3, StableDown
  <2>4. n \in Heights
    BY <1>0, <2>2 DEF Heights, Stable
  <2>3. chain'[n] = chain[n]
    BY <1>1, <2>2, <2>4, StableStep
  <2>. QED
    BY <2>3 DEF Cursor
<1>4. IdleCovered'
  <2> SUFFICES ASSUME configured, pc = "idle"
               PROVE  /\ prev.number <= startNum \/ Stable(prev.number)'
                      /\ Covered(prev.number, {})'
    BY <1>2 DEF IdleCovered
  <2>1. prev.number \in Int /\ startNum \in Int
    BY <1>1 DEF TypeOK, OptCursors, Cursors, NoCursor, Heights
  <2>2. CASE prev.number <= startNum
    BY <2>1, <2>2, <1>2 DEF Covered
  <2>3. CASE ~(prev.number <= startNum)
    <3>1. Stable(prev.number) /\ Covered(prev.number, {})
      BY <2>3 DEF NMInv, IdleCovered
    <3>2. prev.number \in Heights
      BY <1>1, <2>1, <2>3 DEF TypeOK, OptCursors, NoCursor, Cursors
    <3>3. PICK p \in Heights : p = prev.number
      BY <3>2
    <3>4. Stable(p)' /\ Covered(p, {})'
      BY <1>1, <2>1, <3>1, <3>3, <1>3, StableStep
    <3>. QED
      BY <1>2, <3>3, <3>4
  <2>. QED
    BY <2>2, <2>3
<1>5. WalkCovered'
  <2> SUFFICES ASSUME pc = "walk"
               PROVE  Covered(cur.number - 1, bData)'
    BY <1>2 DEF WalkCovered, NMInv
  <2>1. Final(cur) /\ cur \in Cursors
    BY <1>1 DEF NMInv, IInv, WalkFinal, TypeOK
  <2>2. Stable(cur.number - 1) /\ cur.number - 1 \in Int
    BY <1>0, <2>1 DEF Final, Stable, Cursors, Heights
  <2>3. PICK hi \in Int : hi = cur.number - 1
    BY <2>2
  <2>4. PICK bd : bd = bData
    OBVIOUS
  <2>5. Covered(hi, bd)'
    BY <2>2, <2>3, <2>4, <1>3 DEF NMInv, WalkCovered
  <2>. QED
    BY <1>2, <2>3, <2>4, <2>5
<1>. QED
  BY <1>4, <1>5

\* IdleCovered and WalkCovered depend on these variables only.
LEMMA NMFrame ==
    ASSUME IdleCovered, WalkCovered,
           UNCHANGED <<chain, head, finNum, configured, pc, prev, startNum,
                       filter, received, cur, bData, bEnd>>
    PROVE  IdleCovered' /\ WalkCovered'
BY DEF IdleCovered, WalkCovered, Covered, Stable, Cursor

\* reconfigure_data_stream starts the new configuration at its starting
\* cursor: nothing lies between the two yet.
LEMMA NMReconfigure ==
    ASSUME NMInv, NEW f \in Finalities, NEW b \in BatchSizes,
           NEW flt \in Filters, NEW s \in StartCursors,
           ReconfigureDataStream(f, b, flt, s)
    PROVE  IdleCovered' /\ WalkCovered'
<1>1. CASE configured \/ HighestFinalized # NoCursor
  <2>1. /\ prev' = s /\ startNum' = s.number /\ pc' = pc /\ pc = "idle"
    BY <1>1 DEF ReconfigureDataStream
  <2>2. s.number \in Int
    BY DEF OptCursors, Cursors, NoCursor, Heights
  <2>3. Covered(s.number, {})'
    BY <2>1, <2>2 DEF Covered
  <2>. QED
    BY <2>1, <2>2, <2>3 DEF IdleCovered, WalkCovered
<1>2. CASE ~configured /\ HighestFinalized = NoCursor
  <2>1. UNCHANGED <<chain, head, finNum, configured, pc, prev, startNum,
                    filter, received, cur, bData, bEnd>>
    BY <1>2 DEF ReconfigureDataStream, chainVars, batchVars, clientVars
  <2>. QED
    BY <2>1, NMFrame DEF NMInv
<1>. QED
  BY <1>1, <1>2

\* handle_ingestion_message only records a cursor and wakes the task.
LEMMA NMHandle ==
    ASSUME NMInv, HandleIngestionMessage
    PROVE  IdleCovered' /\ WalkCovered'
<1>1. UNCHANGED <<chain, head, finNum, configured, pc, prev, startNum,
                  filter, received, cur, bData, bEnd>>
  BY DEF HandleIngestionMessage, batchVars, clientVars
<1>. QED
  BY <1>1, NMFrame DEF NMInv

\* poll_next: a finalized batch starts where the covered range ends, a
\* batch size of 0 resets the cursor, and send_accepted_batch sends the
\* next block when it matches; that block is stable only because the
\* chain cannot reorganise when accepted data is asked for.
LEMMA NMPoll ==
    ASSUME FinalizedOrNoReorgs, NMInv, PollNext
    PROVE  IdleCovered' /\ WalkCovered'
<1>1. TypeOK
  BY DEF NMInv, IInv
<1>2. /\ pc = "idle"
      /\ UNCHANGED <<configured, filter, startNum, chain, head, finNum,
                     finality>>
  BY DEF PollNext, chainVars
<1>3. /\ prev.number \in -1..MaxBlock /\ startNum \in -1..MaxBlock
      /\ NextNum = prev.number + 1 /\ NextNum \in 0..MaxBlock + 1
      /\ finNum \in Int /\ head \in Int
  BY <1>1 DEF TypeOK, ChainTypeOK, NextNum, OptCursors, Cursors, NoCursor,
     Heights
<1>4. ASSUME UNCHANGED <<prev, pc, batchVars, clientVars>>
      PROVE  IdleCovered' /\ WalkCovered'
  BY <1>2, <1>4, NMFrame DEF NMInv, batchVars, clientVars
<1>5. CASE configured /\ NextNum <= head /\ NextNum <= finCur.number
           /\ batchSize > 0 /\ pc' = "walk" /\ cur' = Cursor(NextNum)
           /\ bLen' = 0 /\ bData' = {} /\ bEnd' = NoCursor
           /\ UNCHANGED <<prev, pollable, clientVars>>
  <2>1. Covered(prev.number, {})
    BY <1>2, <1>5 DEF NMInv, IdleCovered
  <2>2. PICK p \in Int : p = prev.number
    BY <1>3
  <2>3. Covered(p, {})'
    BY <1>2, <1>5, <2>1, <2>2, CoveredFrame DEF clientVars, Cursor
  <2>4. cur'.number - 1 = p /\ bEnd'.number < cur'.number
    BY <1>3, <1>5, <2>2 DEF Cursor, NoCursor
  <2>. QED
    BY <1>5, <2>3, <2>4 DEF IdleCovered, WalkCovered
<1>6. CASE prev' = NoCursor /\ UNCHANGED <<pc, batchVars, pollable, clientVars>>
  <2>1. prev'.number = -1 /\ pc' = "idle"
    BY <1>2, <1>6 DEF NoCursor
  <2>2. Covered(-1, {})'
    BY <1>2, <1>3 DEF Covered
  <2>. QED
    BY <1>2, <1>3, <2>1, <2>2 DEF IdleCovered, WalkCovered
<1>7. CASE configured /\ NextNum <= head /\ finality \in {"accepted", "pending"}
           /\ SendAcceptedBatch
  <2>1. PICK k \in 0..MaxBlock : k = NextNum
    BY <1>3, <1>7, <1>1 DEF TypeOK, ChainTypeOK, Heights
  <2>. DEFINE first == Cursor(k)
  <2>2. MaxReorgs = 0
    BY <1>1, <1>7 DEF FinalizedOrNoReorgs, TypeOK
  <2>3. first \in Cursors
    BY <1>1, <2>1, CursorType DEF TypeOK, ChainTypeOK, Heights
  <2>4. prev' = first /\ pc' = "idle"
    BY <1>2, <1>7, <2>1 DEF SendAcceptedBatch
  <2>5. /\ received' \in [Cursors -> 0..2]
        /\ \A c \in Cursors : received'[c] >= received[c]
        /\ first \in filter => received'[first] >= 1
    <3>1. CASE first \in filter
      <4>1. Deliver({first})
        BY <1>7, <2>1, <3>1 DEF SendAcceptedBatch
      <4>. QED
        BY <1>1, <2>3, <3>1, <4>1, DeliverGrows, DeliverType DEF TypeOK
    <3>2. CASE first \notin filter
      <4>1. UNCHANGED received
        BY <1>7, <2>1, <3>2 DEF SendAcceptedBatch
      <4>. QED
        BY <1>1, <3>2, <4>1 DEF TypeOK
    <3>. QED
      BY <3>1, <3>2
  <2>6. Stable(k)'
    BY <1>2, <1>7, <2>1, <2>2 DEF Stable
  <2>7. Covered(k, {})'
    <3> SUFFICES ASSUME NEW n \in (startNum + 1)..k, Cursor(n) \in filter
                 PROVE  received'[Cursor(n)] >= 1
      BY <1>2 DEF Covered, Cursor
    <3>1. n \in Heights /\ Cursor(n) \in Cursors
      BY <1>1, <1>3, <2>1, CursorType DEF TypeOK, ChainTypeOK, Heights
    <3>2. CASE n = k
      BY <2>5, <3>2
    <3>3. CASE n # k
      <4>1. n \in (startNum + 1)..prev.number
        BY <1>3, <2>1, <3>3
      <4>2. received[Cursor(n)] >= 1
        BY <1>2, <1>7, <4>1 DEF NMInv, IdleCovered, Covered
      <4>. QED
        BY <2>5, <3>1, <4>2, <1>1 DEF TypeOK
    <3>. QED
      BY <3>2, <3>3
  <2>8. prev'.number = k
    BY <2>4 DEF Cursor
  <2>. QED
    BY <1>2, <2>4, <2>6, <2>7, <2>8 DEF IdleCovered, WalkCovered
<1>. QED
  <2>1. CASE ~configured /\ pollable' = FALSE
             /\ UNCHANGED <<prev, pc, batchVars, clientVars>>
    BY <2>1, <1>4
  <2>2. CASE configured /\ AdvanceToNextBatch
    BY <2>2, <1>4, <1>5, <1>6, <1>7
       DEF AdvanceToNextBatch, StartFinalizedBatch
  <2>. QED
    BY <2>1, <2>2 DEF PollNext

\* One iteration of the loop of send_finalized_batch: the current block is
\* final, so it is its height's canonical cursor; it joins the batch when
\* it matches, and when the loop ends the whole batch is sent and
\* previous_iter_cursor becomes the batch end, at or before it.
LEMMA NMWalk ==
    ASSUME NMInv, WalkStep
    PROVE  IdleCovered' /\ WalkCovered'
<1>. DEFINE hit  == cur \in filter
            len  == IF hit THEN bLen + 1 ELSE bLen
            data == IF hit THEN bData \cup {cur} ELSE bData
            end  == IF hit THEN cur ELSE bEnd
            nxt  == cur.number + 1
<1>1. /\ TypeOK /\ pc = "walk" /\ configured /\ cur \in Cursors
      /\ Final(cur)
      /\ Covered(cur.number - 1, bData) /\ bEnd.number < cur.number
  BY DEF WalkStep, NMInv, IInv, WalkFinal, WalkCovered, TypeOK
<1>2. UNCHANGED <<configured, filter, startNum, chain, head, finNum>>
  BY DEF WalkStep, chainVars
<1>3. /\ cur = Cursor(cur.number) /\ cur.number \in 0..MaxBlock
      /\ cur.number <= finNum /\ startNum \in Int /\ finNum \in Int
      /\ bEnd.number \in Int
  BY <1>1 DEF Final, Cursor, Cursors, Heights, TypeOK, ChainTypeOK,
     OptCursors, NoCursor
<1>4. end.number <= cur.number /\ end.number \in Int
  <2>1. CASE hit
    BY <1>3, <2>1
  <2>2. CASE ~hit
    BY <1>1, <1>3, <2>2
  <2>. QED
    BY <2>1, <2>2
<1>5. Covered(cur.number, data)
  <2> SUFFICES ASSUME NEW n \in (startNum + 1)..cur.number, Cursor(n) \in filter
               PROVE  received[Cursor(n)] >= 1 \/ Cursor(n) \in data
    BY DEF Covered
  <2>1. CASE n = cur.number
    BY <1>3, <2>1
  <2>2. CASE n # cur.number
    BY <1>1, <1>3, <2>2 DEF Covered
  <2>. QED
    BY <2>1, <2>2
<1>6. CASE nxt > head \/ nxt > finCur.number \/ len >= batchSize
  <2>1. /\ pc' = "idle" /\ prev' = end /\ Deliver(data)
    BY <1>6 DEF WalkStep
  <2>2. /\ received' \in [Cursors -> 0..2]
        /\ \A c \in Cursors : received'[c] >= received[c]
                              /\ (c \in data => received'[c] >= 1)
    BY <1>1, <2>1, DeliverGrows, DeliverType DEF TypeOK
  <2>3. PICK e \in Int : e = end.number
    BY <1>4
  <2>4. Stable(e)'
    BY <1>2, <1>3, <1>4, <2>3 DEF Stable
  <2>5. Covered(e, {})'
    <3> SUFFICES ASSUME NEW n \in (startNum + 1)..e, Cursor(n) \in filter
                 PROVE  received'[Cursor(n)] >= 1
      BY <1>2 DEF Covered, Cursor
    <3>1. n \in (startNum + 1)..cur.number /\ Cursor(n) \in Cursors
      BY <1>1, <1>3, <1>4, <2>3, CursorType DEF TypeOK, ChainTypeOK, Heights
    <3>2. received[Cursor(n)] >= 1 \/ Cursor(n) \in data
      BY <1>5, <3>1 DEF Covered
    <3>. QED
      BY <1>1, <2>2, <3>1, <3>2 DEF TypeOK
  <2>. QED
    BY <1>1, <1>2, <2>1, <2>3, <2>4, <2>5 DEF IdleCovered, WalkCovered
<1>7. CASE ~(nxt > head \/ nxt > finCur.number \/ len >= batchSize)
  <2>1. /\ cur' = Cursor(nxt) /\ bData' = data /\ bEnd' = end
        /\ UNCHANGED <<pc, prev, received>>
    BY <1>7 DEF WalkStep, clientVars
  <2>2. cur'.number - 1 = cur.number /\ bEnd'.number < cur'.number
    BY <1>3, <1>4, <2>1 DEF Cursor
  <2>3. PICK h \in Int : h = cur.number
    BY <1>3
  <2>4. PICK d : d = data
    OBVIOUS
  <2>5. Covered(h, d)'
    BY <1>2, <1>5, <2>1, <2>3, <2>4, CoveredFrame DEF Cursor
  <2>. QED
    BY <1>1, <2>1, <2>2, <2>3, <2>4, <2>5 DEF IdleCovered, WalkCovered
<1>. QED
  BY <1>6, <1>7

-----------------------------------------------------------------------------
\* The initial state: not configured, and no walk.
LEMMA NMInit == Init => NMInv
<1> SUFFICES ASSUME Init PROVE NMInv
  OBVIOUS
<1>1. TypeOK
  BY TypeInit
<1>2. IInv
  BY <1>1 DEF IInv, Init, StreamInit, ChainInit, RecvFinal, CurFinal,
     MsgsFinal, WalkFinal
<1>. QED
  BY <1>2 DEF NMInv, IdleCovered, WalkCovered, Init, StreamInit

\* Every step keeps NMInv, when the subscriber is finalized-only or the
\* chain cannot reorganise.
LEMMA NMStep ==
    ASSUME FinalizedOrNoReorgs, NMInv, [Next]_vars
    PROVE  NMInv'
<1>1. IInv'
  BY IInvStep DEF NMInv
<1>2. IdleCovered' /\ WalkCovered'
  <2>1. CASE IngestionNext /\ UNCHANGED streamVars
    BY <2>1, NMIngestion
  <2>2. CASE \E f \in Finalities, b \in BatchSizes, flt \in Filters,
                s \in StartCursors : ReconfigureDataStream(f, b, flt, s)
    BY <2>2, NMReconfigure
  <2>3. CASE HandleIngestionMessage
    BY <2>3, NMHandle
  <2>4. CASE PollNext
    BY <2>4, NMPoll
  <2>5. CASE WalkStep
    BY <2>5, NMWalk
  <2>6. CASE UNCHANGED vars
    BY <2>6, NMFrame DEF NMInv, vars, streamVars, chainVars, batchVars,
       clientVars
  <2>. QED
    BY <2>1, <2>2, <2>3, <2>4, <2>5, <2>6 DEF Next, StreamNext
<1>. QED
  BY <1>1, <1>2 DEF NMInv

\* NMInv gives NoMissedData: between two polls every finalized block up to
\* previous_iter_cursor that matches the filter was sent.
LEMMA NMInvNoMissed == NMInv => NoMissedData
BY DEF NMInv, IdleCovered, Covered, NoMissedData

(***************************************************************************)
(* The client misses no finalized data (NoMissedData, checked by runs      *)
(* stream_finalized and stream_accepted) for every chain length, batch    *)
(* size, filter and starting cursor, when the subscriber asks for          *)
(* finalized data only or the chain never reorganises: every block that   *)
(* previous_iter_cursor passes in poll_next, send_finalized_batch and     *)
(* send_accepted_batch was sent when it matched, and stays canonical.     *)
(***************************************************************************)
THEOREM NoMissedFinalized == FinalizedOrNoReorgs => (Spec => []NoMissedData)
<1> SUFFICES ASSUME FinalizedOrNoReorgs PROVE Spec => []NoMissedData
  OBVIOUS
<1>1. NMInv /\ [Next]_vars => NMInv'
  BY NMStep
<1>. QED
  BY <1>1, NMInit, NMInvNoMissed, PTL DEF Spec

=============================================================================
