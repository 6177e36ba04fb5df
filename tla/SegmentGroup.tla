---------------------------- MODULE SegmentGroup ----------------------------
(***************************************************************************)
(* The segment group builder of src/dna/starknet/src/segment/group_builder *)
(* .rs, fed by the segment builder that flushes one segment after another  *)
(* (that builder is not in this repository and is modelled from the       *)
(* specification, section 4.3, with its checkpoint of section 6).          *)
(*                                                                         *)
(* A segment is named by its index s; its first block is s * SegmentSize.  *)
(* The caller hands the builder one SegmentEvent::Flushed at a time and,   *)
(* as the specification says of transient I/O errors, hands the same       *)
(* event again when handle_segment_event returns an error.  A restart      *)
(* loses the builder's memory; the segment builder resumes after the last  *)
(* segment it checkpointed.                                                *)
(***************************************************************************)
EXTENDS Integers, Sequences

CONSTANTS SegmentSize,  \* options.segment_size
          GroupSize,    \* options.group_size
          MaxSegments,  \* segments the chain provides in a run
          MaxFailures,  \* storage errors a run may meet
          MaxRestarts   \* process restarts a run may meet

ASSUME GroupAssumption ==
    /\ SegmentSize \in Nat \ {0}
    /\ GroupSize \in Nat \ {0}
    /\ MaxSegments \in Nat
    /\ MaxFailures \in Nat
    /\ MaxRestarts \in Nat

None == -1

VARIABLES
    nextSeg,          \* next segment the segment builder flushes
    checkpoint,       \* last_flushed_segment in the meta store (None at first)
    pending,          \* the Flushed event the caller is handing over, or None
    firstBlockNumber, \* SegmentGroupBuilder.first_block_number
    segmentCount,     \* SegmentGroupBuilder.segment_count
    written,          \* group blobs put to storage, in order: [first, count]
    handled,          \* segments whose event the builder accepted (history)
    failures, restarts

builderVars == <<firstBlockNumber, segmentCount>>
vars == <<nextSeg, checkpoint, pending, firstBlockNumber, segmentCount,
          written, handled, failures, restarts>>

Segments == 0..(MaxSegments - 1)
Blocks == 0..(MaxSegments * SegmentSize)
Groups == [first : Blocks, count : Nat]

\* u64::segment_start: the first block of the segment holding block n.
SegmentStart(n) == n - (n % SegmentSize)

\* The segments a group blob points at.
GroupSegments(g) == {s \in Segments :
                        /\ s * SegmentSize >= g.first
                        /\ s * SegmentSize < g.first + g.count * SegmentSize}

GroupTypeOK ==
    /\ nextSeg \in 0..MaxSegments
    /\ checkpoint \in Segments \cup {None}
    /\ pending \in Segments \cup {None}
    /\ firstBlockNumber \in Blocks
    /\ segmentCount \in 0..(GroupSize - 1 + MaxFailures)
    /\ written \in Seq(Groups)
    /\ handled \subseteq Segments
    /\ failures \in 0..MaxFailures
    /\ restarts \in 0..MaxRestarts

Init ==
    /\ nextSeg = 0
    /\ checkpoint = None
    /\ pending = None
    /\ firstBlockNumber = 0
    /\ segmentCount = 0
    /\ written = <<>>
    /\ handled = {}
    /\ failures = 0
    /\ restarts = 0

(***************************************************************************)
(* The segment builder writes the segment's blobs, checkpoints it and      *)
(* emits SegmentEvent::Flushed (spec 4.3 steps 1-3 and section 6).  It     *)
(* waits while the previous event is still being handed over.              *)
(***************************************************************************)
FlushSegment ==
    /\ pending = None
    /\ nextSeg < MaxSegments
    /\ pending' = nextSeg
    /\ checkpoint' = nextSeg
    /\ nextSeg' = nextSeg + 1
    /\ UNCHANGED <<builderVars, written, handled, failures, restarts>>

(***************************************************************************)
(* handle_segment_event on a Flushed event.  The count is raised before    *)
(* the storage calls; if storage.writer or writer.put fails the error is   *)
(* returned with the count already raised and the caller keeps the event.  *)
(* flush resets the count and first block only after the put succeeded.    *)
(***************************************************************************)
Accept(s) ==
    LET start == SegmentStart(s * SegmentSize) IN
    /\ firstBlockNumber' = IF segmentCount = 0 THEN start ELSE firstBlockNumber
    /\ handled' = handled \cup {s}

\* Mutant: flush does not reset segment_count.
HandleSegmentEventNoReset ==
    /\ pending # None
    /\ Accept(pending)
    /\ IF segmentCount + 1 < GroupSize
          THEN /\ segmentCount' = segmentCount + 1
               /\ pending' = None
               /\ UNCHANGED <<written, failures>>
          ELSE \/ /\ written' = Append(written, [first |-> firstBlockNumber',
                                                  count |-> segmentCount + 1])
                  /\ segmentCount' = segmentCount + 1
                  /\ pending' = None
                  /\ UNCHANGED failures
                  \* flush also sets first_block_number to 0: the next
                  \* event overwrites it, as segment_count is then 0
               \/ /\ failures < MaxFailures
                  /\ failures' = failures + 1
                  /\ segmentCount' = segmentCount + 1
                  /\ UNCHANGED <<pending, written>>
    /\ UNCHANGED <<nextSeg, checkpoint, restarts>>

\* Mutant: the group is flushed one segment late.
HandleSegmentEventLate ==
    /\ pending # None
    /\ Accept(pending)
    /\ IF segmentCount + 1 <= GroupSize
          THEN /\ segmentCount' = segmentCount + 1
               /\ pending' = None
               /\ UNCHANGED <<written, failures>>
          ELSE \/ /\ written' = Append(written, [first |-> firstBlockNumber',
                                                  count |-> segmentCount + 1])
                  /\ segmentCount' = 0
                  /\ pending' = None
                  /\ UNCHANGED failures
                  \* flush also sets first_block_number to 0: the next
                  \* event overwrites it, as segment_count is then 0
               \/ /\ failures < MaxFailures
                  /\ failures' = failures + 1
                  /\ segmentCount' = segmentCount + 1
                  /\ UNCHANGED <<pending, written>>
    /\ UNCHANGED <<nextSeg, checkpoint, restarts>>

HandleSegmentEvent ==
    /\ pending # None
    /\ Accept(pending)
    /\ IF segmentCount + 1 < GroupSize
          THEN /\ segmentCount' = segmentCount + 1
               /\ pending' = None
               /\ UNCHANGED <<written, failures>>
          ELSE \/ /\ written' = Append(written, [first |-> firstBlockNumber',
                                                  count |-> segmentCount + 1])
                  /\ segmentCount' = 0
                  /\ pending' = None
                  /\ UNCHANGED failures
                  \* flush also sets first_block_number to 0: the next
                  \* event overwrites it, as segment_count is then 0
               \/ /\ failures < MaxFailures
                  /\ failures' = failures + 1
                  /\ segmentCount' = segmentCount + 1
                  /\ UNCHANGED <<pending, written>>
    /\ UNCHANGED <<nextSeg, checkpoint, restarts>>

(***************************************************************************)
(* A process restart: SegmentGroupBuilder::new starts with count 0, the    *)
(* event in hand is lost, and the segment builder resumes at the segment   *)
(* after its checkpoint (spec section 8, scenario 6).                      *)
(***************************************************************************)
Restart ==
    /\ restarts < MaxRestarts
    /\ restarts' = restarts + 1
    /\ firstBlockNumber' = 0
    /\ segmentCount' = 0
    /\ pending' = None
    /\ nextSeg' = IF checkpoint = None THEN 0 ELSE checkpoint + 1
    /\ UNCHANGED <<checkpoint, written, handled, failures>>

Next == FlushSegment \/ HandleSegmentEvent \/ Restart

Spec == Init /\ [][Next]_vars

-----------------------------------------------------------------------------
(* Properties *)

(***************************************************************************)
(* No group blob is put twice under one name: a group is named from its    *)
(* first block (format_segment_group_name), and flush must leave the       *)
(* builder ready to start a new group, whatever storage errors and         *)
(* restarts happened before.                                               *)
(***************************************************************************)
NoGroupOverwrite ==
    \A i, j \in 1..Len(written) : i # j => written[i].first # written[j].first

(***************************************************************************)
(* Group blobs are put in block order: a step of handle_segment_event,    *)
(* of the segment builder or a restart either puts nothing or appends one  *)
(* group that starts after every group put before it, whatever storage     *)
(* errors the caller retried and restarts happened in between.             *)
(***************************************************************************)
AppendsInOrder ==
    \/ written' = written
    \/ /\ Len(written') = Len(written) + 1
       /\ written' = Append(written, written'[Len(written')])
       /\ \A i \in 1..Len(written) :
             written[i].first < written'[Len(written')].first

GroupsPutInOrder == [][AppendsInOrder]_vars

(***************************************************************************)
(* The groups written, and the group the builder has open, partition the   *)
(* segments it was handed: every handled segment is in exactly one of      *)
(* them, and no group points at a segment it was never handed.  This is   *)
(* what the count kept across handle_segment_event calls must achieve.     *)
(***************************************************************************)
OpenGroup == [first |-> firstBlockNumber, count |-> segmentCount]

GroupsPartitionSegments ==
    /\ \A s \in handled :
          \/ /\ \E i \in 1..Len(written) : s \in GroupSegments(written[i])
             /\ \A i, j \in 1..Len(written) :
                   s \in GroupSegments(written[i]) \cap GroupSegments(written[j])
                      => i = j
             /\ s \notin GroupSegments(OpenGroup)
          \/ /\ \A i \in 1..Len(written) : s \notin GroupSegments(written[i])
             /\ s \in GroupSegments(OpenGroup)
    /\ \A i \in 1..Len(written) : GroupSegments(written[i]) \subseteq handled

(***************************************************************************)
(* Every group blob covers exactly group_size segments and starts at a     *)
(* group boundary, so that group/{first} can be found from any block       *)
(* number (spec 4.4 and section 8, scenario 1).                            *)
(***************************************************************************)
GroupsAligned ==
    \A i \in 1..Len(written) :
        /\ written[i].count = GroupSize
        /\ written[i].first % (SegmentSize * GroupSize) = 0

=============================================================================
