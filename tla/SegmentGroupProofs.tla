------------------------- MODULE SegmentGroupProofs -------------------------
(***************************************************************************)
(* Proofs about the segment group builder, for every segment size, group   *)
(* size, number of segments, storage errors and restarts: the builder's    *)
(* state stays well typed, no group blob name is ever written twice, and   *)
(* group blobs are put in block order.                                     *)
(***************************************************************************)
EXTENDS SegmentGroup, TLAPS

USE GroupAssumption

\* The first block of the i-th group blob written.
FirstOf(i) == written[i].first

(***************************************************************************)
(* The inductive invariant behind NoGroupOverwrite.  Group blobs are       *)
(* written in increasing order of first block, and everything that may    *)
(* become the first block of the next group lies above the last one:       *)
(* the open group's first block, the event in hand, and every segment the  *)
(* segment builder will flush.  A restart does not rewind the segment      *)
(* builder below its own next segment, because nextSeg is always the       *)
(* segment after the checkpoint.                                           *)
(***************************************************************************)
CountBound == segmentCount <= GroupSize - 1 + failures

NextAfterCheckpoint ==
    nextSeg = IF checkpoint = None THEN 0 ELSE checkpoint + 1

PendingIsCheckpoint == pending # None => pending = checkpoint

WrittenIncreasing ==
    \A i, j \in 1..Len(written) : i < j => FirstOf(i) < FirstOf(j)

WrittenBelowNext ==
    \A i \in 1..Len(written) : FirstOf(i) < nextSeg * SegmentSize

OpenGroupAbove ==
    segmentCount > 0 =>
        /\ firstBlockNumber < nextSeg * SegmentSize
        /\ \A i \in 1..Len(written) : FirstOf(i) < firstBlockNumber

PendingAbove ==
    pending # None =>
        \A i \in 1..Len(written) : FirstOf(i) < pending * SegmentSize

IInv ==
    /\ GroupTypeOK
    /\ CountBound
    /\ NextAfterCheckpoint
    /\ PendingIsCheckpoint
    /\ WrittenIncreasing
    /\ WrittenBelowNext
    /\ OpenGroupAbove
    /\ PendingAbove

\* The first block of a segment is its index times the segment size.
LEMMA SegmentStartOfSegment ==
    ASSUME NEW s \in Nat
    PROVE  SegmentStart(s * SegmentSize) = s * SegmentSize
BY DEF SegmentStart

LEMMA InitIInv == Init => IInv
BY DEF Init, IInv, GroupTypeOK, CountBound, NextAfterCheckpoint,
       PendingIsCheckpoint, WrittenIncreasing, WrittenBelowNext, OpenGroupAbove,
       PendingAbove, Segments, Blocks, None

\* What Accept makes of the open group's first block, when the invariant
\* holds and an event is in hand.
LEMMA AcceptFirst ==
    ASSUME IInv, pending # None, Accept(pending)
    PROVE  /\ firstBlockNumber' \in Blocks
           /\ firstBlockNumber' < nextSeg * SegmentSize
           /\ \A i \in 1..Len(written) : FirstOf(i) < firstBlockNumber'
<1>1. /\ pending \in Segments /\ pending = checkpoint /\ nextSeg = pending + 1
      /\ nextSeg \in 0..MaxSegments
  BY DEF IInv, GroupTypeOK, PendingIsCheckpoint, NextAfterCheckpoint, None,
         Segments
<1>2. CASE segmentCount = 0
  <2>1. firstBlockNumber' = pending * SegmentSize
    BY <1>1, <1>2, SegmentStartOfSegment DEF Accept, Segments
  <2>2. pending * SegmentSize \in Blocks /\ pending * SegmentSize < nextSeg * SegmentSize
    BY <1>1 DEF Segments, Blocks
  <2>. QED
    BY <2>1, <2>2 DEF IInv, PendingAbove
<1>3. CASE segmentCount # 0
  <2>1. firstBlockNumber' = firstBlockNumber
    BY <1>3 DEF Accept
  <2>2. segmentCount > 0
    BY <1>3 DEF IInv, GroupTypeOK
  <2>. QED
    BY <2>1, <2>2 DEF IInv, OpenGroupAbove, GroupTypeOK
<1>. QED
  BY <1>2, <1>3

\* The first blocks of the groups written are numbers.
LEMMA FirstsAreNumbers ==
    ASSUME GroupTypeOK
    PROVE  \A i \in 1..Len(written) : FirstOf(i) \in Nat
<1>1. \A i \in 1..Len(written) : written[i] \in Groups
  BY DEF GroupTypeOK
<1>2. Blocks \subseteq Nat
  BY DEF Blocks
<1>. QED
  BY <1>1, <1>2 DEF Groups, FirstOf

\* The segment builder flushing the next segment keeps the invariant: the
\* event it emits lies above every group written so far.
LEMMA FlushStep == IInv /\ FlushSegment => IInv'
<1> SUFFICES ASSUME IInv, FlushSegment PROVE IInv'
  OBVIOUS
<1>1. nextSeg \in 0..(MaxSegments - 1) /\ nextSeg' = nextSeg + 1
  BY DEF FlushSegment, IInv, GroupTypeOK
<1>2. nextSeg * SegmentSize <= nextSeg' * SegmentSize
  BY <1>1
<1>3. GroupTypeOK'
  BY <1>1 DEF IInv, GroupTypeOK, FlushSegment, Segments, builderVars
<1>4. (CountBound /\ NextAfterCheckpoint /\ PendingIsCheckpoint)'
  BY <1>1 DEF IInv, CountBound, NextAfterCheckpoint, PendingIsCheckpoint,
     FlushSegment, builderVars, None
<1>5. written' = written /\ builderVars' = builderVars
  BY DEF FlushSegment
<1>6. WrittenIncreasing' /\ WrittenBelowNext'
  <2>1. WrittenIncreasing'
    BY <1>5 DEF IInv, WrittenIncreasing, FirstOf
  <2>2. \A i \in 1..Len(written) : FirstOf(i)' = FirstOf(i)
    BY <1>5 DEF FirstOf
  <2>3. WrittenBelowNext'
    <3> SUFFICES ASSUME NEW i \in 1..Len(written)
                 PROVE  FirstOf(i)' < nextSeg' * SegmentSize
      BY <1>5 DEF WrittenBelowNext
    <3>1. FirstOf(i) \in Nat /\ FirstOf(i) < nextSeg * SegmentSize
      BY FirstsAreNumbers DEF IInv, WrittenBelowNext
    <3>. QED
      BY <1>1, <1>2, <2>2, <3>1
  <2>. QED
    BY <2>1, <2>3
<1>8. OpenGroupAbove'
  <2>1. firstBlockNumber \in Nat
    BY DEF IInv, GroupTypeOK, Blocks
  <2>2. UNCHANGED <<firstBlockNumber, segmentCount, written>>
    BY <1>5 DEF builderVars
  <2>. QED
    BY <1>1, <1>2, <2>1, <2>2 DEF IInv, OpenGroupAbove, FirstOf
<1>7. PendingAbove'
  BY DEF IInv, WrittenBelowNext, PendingAbove, FirstOf, FlushSegment
<1>. QED
  BY <1>3, <1>4, <1>6, <1>7, <1>8 DEF IInv

\* A restart keeps the invariant: the segment builder resumes at the
\* segment after its checkpoint, which is the segment it would flush next.
LEMMA RestartStep == IInv /\ Restart => IInv'
<1> SUFFICES ASSUME IInv, Restart PROVE IInv'
  OBVIOUS
<1>1. nextSeg' = nextSeg
  BY DEF Restart, IInv, NextAfterCheckpoint
<1>2. GroupTypeOK' /\ CountBound'
  BY <1>1 DEF IInv, GroupTypeOK, CountBound, Restart, Blocks, None
<1>3. (NextAfterCheckpoint /\ PendingIsCheckpoint /\ OpenGroupAbove
       /\ PendingAbove)'
  BY <1>1 DEF IInv, NextAfterCheckpoint, PendingIsCheckpoint, OpenGroupAbove,
     PendingAbove, Restart
<1>4. (WrittenIncreasing /\ WrittenBelowNext)'
  BY <1>1 DEF IInv, WrittenIncreasing, WrittenBelowNext, FirstOf, Restart
<1>. QED
  BY <1>2, <1>3, <1>4 DEF IInv

(***************************************************************************)
(* handle_segment_event keeps the invariant, in each of its three          *)
(* outcomes: the count raised below group_size, the group flushed, or the  *)
(* storage call failing with the count raised and the event kept.  The     *)
(* group it writes starts at the open group's first block, above every     *)
(* group written before (AcceptFirst).                                     *)
(***************************************************************************)
LEMMA HandleStep == IInv /\ HandleSegmentEvent => IInv'
<1> SUFFICES ASSUME IInv, HandleSegmentEvent PROVE IInv'
  OBVIOUS
<1>1. /\ pending # None /\ Accept(pending)
      /\ UNCHANGED <<nextSeg, checkpoint, restarts>>
  BY DEF HandleSegmentEvent
<1>2. /\ firstBlockNumber' \in Blocks
      /\ firstBlockNumber' < nextSeg * SegmentSize
      /\ \A i \in 1..Len(written) : FirstOf(i) < firstBlockNumber'
  BY <1>1, AcceptFirst
<1>3. /\ pending \in Segments /\ handled' = handled \cup {pending}
      /\ segmentCount \in Nat /\ failures \in 0..MaxFailures
  BY <1>1 DEF IInv, GroupTypeOK, Accept, None, Segments
<1>. DEFINE group == [first |-> firstBlockNumber', count |-> segmentCount + 1]
<1>4. CASE /\ segmentCount + 1 < GroupSize
           /\ segmentCount' = segmentCount + 1
           /\ pending' = None
           /\ UNCHANGED <<written, failures>>
  <2>1. GroupTypeOK' /\ CountBound'
    BY <1>1, <1>2, <1>3, <1>4 DEF IInv, GroupTypeOK, CountBound, None
  <2>2. (NextAfterCheckpoint /\ PendingIsCheckpoint /\ PendingAbove)'
    BY <1>1, <1>4 DEF IInv, NextAfterCheckpoint, PendingIsCheckpoint,
       PendingAbove
  <2>3. (WrittenIncreasing /\ WrittenBelowNext)'
    BY <1>1, <1>4 DEF IInv, WrittenIncreasing, WrittenBelowNext, FirstOf
  <2>4. OpenGroupAbove'
    BY <1>1, <1>2, <1>4 DEF OpenGroupAbove, FirstOf
  <2>. QED
    BY <2>1, <2>2, <2>3, <2>4 DEF IInv
<1>5. CASE /\ ~(segmentCount + 1 < GroupSize)
           /\ written' = Append(written, group)
           /\ segmentCount' = 0
           /\ pending' = None
           /\ UNCHANGED failures
  <2>1. group \in Groups
    BY <1>2, <1>3 DEF Groups
  <2>2. written \in Seq(Groups)
    BY DEF IInv, GroupTypeOK
  <2>3. /\ Len(written') = Len(written) + 1
        /\ \A i \in 1..Len(written) : written'[i] = written[i]
        /\ written'[Len(written) + 1] = group
    BY <1>5, <2>1, <2>2
  <2>4. GroupTypeOK' /\ CountBound'
    BY <1>1, <1>2, <1>3, <1>5, <2>1, <2>2 DEF IInv, GroupTypeOK, CountBound
  <2>5. (NextAfterCheckpoint /\ PendingIsCheckpoint /\ PendingAbove
         /\ OpenGroupAbove)'
    BY <1>1, <1>5 DEF IInv, NextAfterCheckpoint, PendingIsCheckpoint,
       PendingAbove, OpenGroupAbove
  <2>6. WrittenIncreasing'
    <3> SUFFICES ASSUME NEW i \in 1..Len(written'), NEW j \in 1..Len(written'),
                        i < j
                 PROVE  FirstOf(i)' < FirstOf(j)'
      BY DEF WrittenIncreasing
    <3>1. CASE j <= Len(written)
      BY <2>3, <3>1 DEF IInv, WrittenIncreasing, FirstOf
    <3>2. CASE j = Len(written) + 1
      BY <1>2, <2>3, <3>2 DEF FirstOf
    <3>. QED
      BY <2>3, <3>1, <3>2
  <2>7. WrittenBelowNext'
    <3> SUFFICES ASSUME NEW i \in 1..Len(written')
                 PROVE  FirstOf(i)' < nextSeg' * SegmentSize
      BY DEF WrittenBelowNext
    <3>1. CASE i <= Len(written)
      BY <1>1, <2>3, <3>1 DEF IInv, WrittenBelowNext, FirstOf
    <3>2. CASE i = Len(written) + 1
      BY <1>1, <1>2, <2>3, <3>2 DEF FirstOf
    <3>. QED
      BY <2>3, <3>1, <3>2
  <2>. QED
    BY <2>4, <2>5, <2>6, <2>7 DEF IInv
<1>6. CASE /\ ~(segmentCount + 1 < GroupSize)
           /\ failures < MaxFailures
           /\ failures' = failures + 1
           /\ segmentCount' = segmentCount + 1
           /\ UNCHANGED <<pending, written>>
  <2>1. GroupTypeOK' /\ CountBound'
    BY <1>1, <1>2, <1>3, <1>6 DEF IInv, GroupTypeOK, CountBound
  <2>2. (NextAfterCheckpoint /\ PendingIsCheckpoint /\ PendingAbove)'
    BY <1>1, <1>6 DEF IInv, NextAfterCheckpoint, PendingIsCheckpoint,
       PendingAbove, FirstOf
  <2>3. (WrittenIncreasing /\ WrittenBelowNext)'
    BY <1>1, <1>6 DEF IInv, WrittenIncreasing, WrittenBelowNext, FirstOf
  <2>4. OpenGroupAbove'
    BY <1>1, <1>2, <1>6 DEF OpenGroupAbove, FirstOf
  <2>. QED
    BY <2>1, <2>2, <2>3, <2>4 DEF IInv
<1>7. \/ /\ segmentCount + 1 < GroupSize
         /\ segmentCount' = segmentCount + 1
         /\ pending' = None
         /\ UNCHANGED <<written, failures>>
      \/ /\ ~(segmentCount + 1 < GroupSize)
         /\ written' = Append(written, group)
         /\ segmentCount' = 0
         /\ pending' = None
         /\ UNCHANGED failures
      \/ /\ ~(segmentCount + 1 < GroupSize)
         /\ failures < MaxFailures
         /\ failures' = failures + 1
         /\ segmentCount' = segmentCount + 1
         /\ UNCHANGED <<pending, written>>
  BY Zenon DEF HandleSegmentEvent, group
<1>. QED
  BY <1>4, <1>5, <1>6, <1>7

LEMMA IInvStep == IInv /\ [Next]_vars => IInv'
<1> SUFFICES ASSUME IInv, [Next]_vars PROVE IInv'
  OBVIOUS
<1>1. CASE FlushSegment
  BY <1>1, FlushStep
<1>2. CASE HandleSegmentEvent
  BY <1>2, HandleStep
<1>3. CASE Restart
  BY <1>3, RestartStep
<1>4. CASE UNCHANGED vars
  BY <1>4 DEF vars, IInv, GroupTypeOK, CountBound, NextAfterCheckpoint,
     PendingIsCheckpoint, WrittenIncreasing, WrittenBelowNext, OpenGroupAbove,
     PendingAbove, FirstOf
<1>. QED
  BY <1>1, <1>2, <1>3, <1>4 DEF Next

\* The inductive invariant gives the absence of overwrites: the groups
\* written have strictly increasing first blocks.
LEMMA IInvNoOverwrite == IInv => NoGroupOverwrite
<1> SUFFICES ASSUME IInv, NEW i \in 1..Len(written), NEW j \in 1..Len(written),
                    i # j
             PROVE  written[i].first # written[j].first
  BY DEF NoGroupOverwrite
<1>1. i < j \/ j < i
  OBVIOUS
<1>2. FirstOf(i) \in Nat /\ FirstOf(j) \in Nat
  BY FirstsAreNumbers DEF IInv
<1>. QED
  BY <1>1, <1>2 DEF IInv, WrittenIncreasing, FirstOf

\* The inductive invariant holds in every reachable state of the builder
\* and its segment supply.
THEOREM GroupInvariant == Spec => []IInv
BY InitIInv, IInvStep, PTL DEF Spec

(***************************************************************************)
(* The builder's state stays well typed (GroupTypeOK, checked by run       *)
(* group_faults): in particular segment_count never exceeds group_size - 1 *)
(* plus the storage errors met, however the caller retries.                *)
(***************************************************************************)
THEOREM GroupTypeCorrect == Spec => []GroupTypeOK
BY GroupInvariant, PTL DEF IInv

(***************************************************************************)
(* No group blob name is written twice (NoGroupOverwrite, checked by run   *)
(* group_faults), for every segment size, group size and number of         *)
(* storage errors and restarts: handle_segment_event and flush write       *)
(* groups in increasing order of first block.                              *)
(***************************************************************************)
THEOREM NoOverwrite == Spec => []NoGroupOverwrite
BY GroupInvariant, IInvNoOverwrite, PTL

-----------------------------------------------------------------------------
\* handle_segment_event either keeps the written groups or appends the
\* open group, completed by the event in hand.
LEMMA HandleAppends == IInv /\ HandleSegmentEvent => AppendsInOrder
<1> SUFFICES ASSUME IInv, HandleSegmentEvent PROVE AppendsInOrder
  OBVIOUS
<1>. DEFINE group == [first |-> firstBlockNumber', count |-> segmentCount + 1]
<1>1. \A i \in 1..Len(written) : FirstOf(i) < firstBlockNumber'
  BY AcceptFirst DEF HandleSegmentEvent
<1>2. written' = written \/ written' = Append(written, group)
  BY Zenon DEF HandleSegmentEvent
<1>3. CASE written' = Append(written, group)
  <2>1. written \in Seq(Groups)
    BY DEF IInv, GroupTypeOK
  <2>2. Len(written') = Len(written) + 1 /\ written'[Len(written')] = group
    BY <1>3, <2>1
  <2>. QED
    BY <1>1, <1>3, <2>2 DEF AppendsInOrder, FirstOf
<1>. QED
  BY <1>2, <1>3 DEF AppendsInOrder

\* Every step from a state of IInv puts groups in order.
LEMMA AppendsStep == IInv /\ [Next]_vars => [AppendsInOrder]_vars
<1> SUFFICES ASSUME IInv, [Next]_vars PROVE [AppendsInOrder]_vars
  OBVIOUS
<1>1. CASE HandleSegmentEvent
  BY <1>1, HandleAppends
<1>2. CASE FlushSegment \/ Restart \/ UNCHANGED vars
  BY <1>2 DEF FlushSegment, Restart, vars, AppendsInOrder
<1>. QED
  BY <1>1, <1>2 DEF Next

(***************************************************************************)
(* Group blobs are put in block order (GroupsPutInOrder, checked by run    *)
(* group_faults) for every segment size, group size and number of storage *)
(* errors and restarts: each put appends one group starting after every   *)
(* earlier one, because flush resets segment_count and the segment        *)
(* builder resumes after its checkpoint.                                   *)
(***************************************************************************)
THEOREM PutInOrder == Spec => GroupsPutInOrder
<1>1. Spec => []IInv
  BY GroupInvariant
<1>. QED
  BY <1>1, AppendsStep, PTL DEF Spec, GroupsPutInOrder

=============================================================================
