------------------------- MODULE FilteredDataStream -------------------------
(***************************************************************************)
(* FilteredDataStream (starknet/src/stream/filtered.rs) composed with the  *)
(* ingestion it reads from (ChainIngestion).  One subscriber: per-stream   *)
(* state is owned by its task and streams do not interact.                 *)
(*                                                                         *)
(* poll_next, handle_ingestion_message and reconfigure_data_stream take    *)
(* &mut self, so they never overlap each other; ingestion runs in another  *)
(* task and interleaves with every step, including the iterations of the   *)
(* loop in send_finalized_batch, each of which reads storage afresh.       *)
(* That loop is therefore one action per iteration (WalkStep, pc = "walk").*)
(*                                                                         *)
(* The subscriber's view is kept in two history variables: received[c]     *)
(* counts (saturating at 2) how often the data of block c was sent since   *)
(* the last reconfiguration, finalRecv is every block sent as finalized.   *)
(***************************************************************************)
EXTENDS ChainIngestion

CONSTANTS
    Finalities,    \* DataFinality values a client may request
    BatchSizes,    \* batch sizes a client may request
    Filters,       \* filters: the set of block cursors whose data matches
    StartCursors,  \* starting cursors a client may request
    MaxReconfigs   \* how many reconfigurations a client may send

ASSUME StreamAssumption ==
    /\ Finalities \subseteq {"finalized", "accepted", "pending"} /\ Finalities # {}
    /\ BatchSizes \subseteq Nat /\ BatchSizes # {}
    /\ Filters \subseteq SUBSET Cursors /\ Filters # {}
    /\ StartCursors \subseteq OptCursors
    /\ MaxReconfigs \in Nat

VARIABLES
    configured,  \* inner.is_some()
    finality,    \* inner.data_finality
    batchSize,   \* inner.batch_size
    filter,      \* inner.filter
    prev,        \* inner.previous_iter_cursor
    finCur,      \* inner.finalized_cursor
    accCur,      \* inner.accepted_cursor
    startNum,    \* number of the starting cursor of this configuration
    waker,       \* self.waker.is_some()
    pollable,    \* the task is scheduled: the executor will call poll_next
    pc,          \* "idle", or "walk" inside the send_finalized_batch loop
    cur,         \* current_cursor of the loop
    bLen,        \* batch.len()
    bData,       \* the blocks whose data is in batch
    bEnd,        \* batch_end_cursor
    received,    \* client: times each block's data was sent, this configuration
    finalRecv,   \* client: blocks ever sent with finality Finalized
    reconfigs    \* reconfigurations so far (bound)

streamVars == <<configured, finality, batchSize, filter, prev, finCur, accCur,
                startNum, waker, pollable, pc, cur, bLen, bData, bEnd,
                received, finalRecv, reconfigs>>
vars == <<chainVars, streamVars>>

batchVars == <<cur, bLen, bData, bEnd>>
clientVars == <<received, finalRecv>>

-----------------------------------------------------------------------------
\* Mutant: the first block after the previous cursor is skipped.
NextNumSkip == prev.number + 2

\* next_block_number: previous_iter_cursor.number + 1, or 0 (NoCursor is -1).
NextNum == prev.number + 1

\* The client receives the data of the blocks in data.
Deliver(data) ==
    received' = [c \in Cursors |->
                    IF c \in data THEN IF received[c] < 2 THEN received[c] + 1
                                                          ELSE 2
                                  ELSE received[c]]

\* FilteredDataStream::wake: take the waker and wake the task.
Wake ==
    IF waker THEN pollable' = TRUE /\ waker' = FALSE
             ELSE UNCHANGED <<pollable, waker>>

-----------------------------------------------------------------------------
TypeOK ==
    /\ ChainTypeOK
    /\ configured \in BOOLEAN
    /\ finality \in Finalities
    /\ batchSize \in BatchSizes
    /\ filter \in Filters
    /\ prev \in OptCursors
    /\ configured => finCur \in Cursors /\ accCur \in Cursors
    /\ startNum \in -1..MaxBlock
    /\ waker \in BOOLEAN
    /\ pollable \in BOOLEAN
    /\ pc \in {"idle", "walk"}
    /\ pc = "walk" => configured /\ cur \in Cursors
    /\ bLen \in Nat
    /\ bData \subseteq Cursors
    /\ bEnd \in OptCursors
    /\ received \in [Cursors -> 0..2]
    /\ finalRecv \subseteq Cursors
    /\ reconfigs \in 0..MaxReconfigs

StreamInit ==
    /\ configured = FALSE
    \* not read before the first reconfiguration
    /\ finality = CHOOSE f \in Finalities : TRUE
    /\ batchSize = CHOOSE b \in BatchSizes : TRUE
    /\ filter = CHOOSE flt \in Filters : TRUE
    /\ prev = NoCursor
    /\ finCur = NoCursor
    /\ accCur = NoCursor
    /\ startNum = -1
    /\ waker = FALSE
    /\ pollable = TRUE
    /\ pc = "idle"
    /\ cur = NoCursor
    /\ bLen = 0
    /\ bData = {}
    /\ bEnd = NoCursor
    /\ received = [c \in Cursors |-> 0]
    /\ finalRecv = {}
    /\ reconfigs = 0

Init == ChainInit /\ StreamInit

-----------------------------------------------------------------------------
\* Mutant: a stream never configured is configured from an empty storage.
ReconfigureDataStreamUnchecked(f, b, flt, s) ==
    /\ pc = "idle"
    /\ reconfigs < MaxReconfigs
    /\ reconfigs' = reconfigs + 1
    /\ configured' = TRUE
    /\ IF configured THEN UNCHANGED <<finCur, accCur>>
                     ELSE finCur' = HighestFinalized /\ accCur' = HighestAccepted
    /\ finality' = f /\ batchSize' = b /\ filter' = flt
    /\ prev' = s /\ startNum' = s.number
    /\ received' = [c \in Cursors |-> 0]
    /\ Wake
    /\ UNCHANGED <<pc, batchVars, finalRecv, chainVars>>

\* reconfigure_data_stream: keep the previous configuration's cursors, or
\* read them from storage (error NoFinalizedBlockIngested if none).
ReconfigureDataStream(f, b, flt, s) ==
    /\ pc = "idle"
    /\ reconfigs < MaxReconfigs
    /\ reconfigs' = reconfigs + 1
    /\ \/ /\ configured \/ HighestFinalized # NoCursor
          /\ configured' = TRUE
          /\ IF configured
                THEN UNCHANGED <<finCur, accCur>>
                ELSE /\ finCur' = HighestFinalized
                     /\ accCur' = HighestAccepted
          /\ finality' = f
          /\ batchSize' = b
          /\ filter' = flt
          /\ prev' = s
          /\ startNum' = s.number
          /\ received' = [c \in Cursors |-> 0]
          /\ Wake
          /\ UNCHANGED <<pc, batchVars, finalRecv, chainVars>>
       \/ /\ ~configured
          /\ HighestFinalized = NoCursor
          /\ UNCHANGED <<configured, finality, batchSize, filter, prev, finCur,
                         accCur, startNum, waker, pollable, pc, batchVars,
                         clientVars, chainVars>>

\* Mutant: the message is recorded but the waiting task is not woken.
HandleIngestionMessageNoWake ==
    /\ pc = "idle"
    /\ msgs # <<>>
    /\ msgs' = Tail(msgs)
    /\ LET m == Head(msgs) IN
       IF configured
         THEN IF m.type = "accepted"
                THEN accCur' = m.cursor /\ UNCHANGED finCur
                ELSE finCur' = m.cursor /\ UNCHANGED accCur
         ELSE UNCHANGED <<finCur, accCur>>
    /\ UNCHANGED <<waker, pollable>>
    /\ UNCHANGED <<chain, head, finNum, gen, configured, finality, batchSize,
                   filter, prev, startNum, pc, batchVars, clientVars, reconfigs>>

\* handle_ingestion_message: record the cursor and wake; dropped while
\* the stream is not configured.
HandleIngestionMessage ==
    /\ pc = "idle"
    /\ msgs # <<>>
    /\ msgs' = Tail(msgs)
    /\ LET m == Head(msgs) IN
       IF configured
         THEN /\ IF m.type = "accepted"
                    THEN accCur' = m.cursor /\ UNCHANGED finCur
                    ELSE finCur' = m.cursor /\ UNCHANGED accCur
              /\ Wake
         ELSE UNCHANGED <<finCur, accCur, waker, pollable>>
    /\ UNCHANGED <<chain, head, finNum, gen, configured, finality, batchSize,
                   filter, prev, startNum, pc, batchVars, clientVars, reconfigs>>

\* send_accepted_batch: a single block; previous_iter_cursor advances even
\* when the filter has no data for it, and then the poll returns Pending.
SendAcceptedBatch ==
    LET first == Cursor(NextNum) IN
    /\ prev' = first
    /\ IF first \in filter
          THEN Deliver({first}) /\ UNCHANGED pollable
          ELSE pollable' = FALSE /\ UNCHANGED received
    /\ UNCHANGED <<pc, batchVars, finalRecv>>

\* Mutant: the loop is never entered, as if batch_size were 0.
StartFinalizedBatchNoLoop ==
    /\ prev' = NoCursor
    /\ UNCHANGED <<pc, batchVars, pollable, clientVars>>

\* send_finalized_batch, up to its loop: walk from first_cursor.  With a
\* batch_size of 0 the loop is not entered: the batch is sent empty, with
\* no end cursor, and previous_iter_cursor becomes None.
StartFinalizedBatch ==
    \/ /\ batchSize > 0
       /\ pc' = "walk"
       /\ cur' = Cursor(NextNum)
       /\ bLen' = 0
       /\ bData' = {}
       /\ bEnd' = NoCursor
       /\ UNCHANGED <<prev, pollable, clientVars>>
    \/ /\ batchSize = 0
       /\ prev' = NoCursor
       /\ UNCHANGED <<pc, batchVars, pollable, clientVars>>

\* advance_to_next_batch.
AdvanceToNextBatch ==
    \/ /\ NextNum > head
       /\ pollable' = FALSE
       /\ UNCHANGED <<prev, pc, batchVars, clientVars>>
    \/ /\ NextNum <= head
       /\ NextNum <= finCur.number
       /\ StartFinalizedBatch
    \/ /\ NextNum <= head
       /\ NextNum > finCur.number
       /\ finality \in {"accepted", "pending"}
       /\ SendAcceptedBatch
    \/ /\ NextNum <= head
       /\ NextNum > finCur.number
       /\ finality = "finalized"
       /\ pollable' = FALSE
       /\ UNCHANGED <<prev, pc, batchVars, clientVars>>

\* poll_next: register the waker; Pending when not configured, otherwise
\* advance.  Ready keeps the task scheduled (the consumer polls again).
PollNext ==
    /\ pc = "idle"
    /\ pollable
    /\ waker' = TRUE
    /\ \/ /\ ~configured
          /\ pollable' = FALSE
          /\ UNCHANGED <<prev, pc, batchVars, clientVars>>
       \/ configured /\ AdvanceToNextBatch
    /\ UNCHANGED <<configured, finality, batchSize, filter, finCur, accCur,
                   startNum, reconfigs, chainVars>>

\* Mutant: the walk does not stop at the finalized cursor.
WalkStepPastFinalized ==
    /\ pc = "walk"
    /\ LET hit  == cur \in filter
           len  == IF hit THEN bLen + 1 ELSE bLen
           data == IF hit THEN bData \cup {cur} ELSE bData
           end  == IF hit THEN cur ELSE bEnd
           nxt  == cur.number + 1
       IN IF nxt > head \/ len >= batchSize
            THEN /\ pc' = "idle"
                 /\ prev' = end
                 /\ Deliver(data)
                 /\ finalRecv' = finalRecv \cup data
                 /\ cur' = NoCursor /\ bLen' = 0 /\ bData' = {} /\ bEnd' = NoCursor
            ELSE /\ cur' = Cursor(nxt)
                 /\ bLen' = len
                 /\ bData' = data
                 /\ bEnd' = end
                 /\ UNCHANGED <<pc, prev, clientVars>>
    /\ UNCHANGED <<configured, finality, batchSize, filter, finCur, accCur,
                   startNum, waker, pollable, reconfigs, chainVars>>

\* One iteration of the while loop of send_finalized_batch, with the
\* return that follows it when the loop ends.
WalkStep ==
    /\ pc = "walk"
    /\ LET hit  == cur \in filter
           len  == IF hit THEN bLen + 1 ELSE bLen
           data == IF hit THEN bData \cup {cur} ELSE bData
           end  == IF hit THEN cur ELSE bEnd
           nxt  == cur.number + 1
       IN IF nxt > head \/ nxt > finCur.number \/ len >= batchSize
            THEN /\ pc' = "idle"
                 /\ prev' = end
                 /\ Deliver(data)
                 /\ finalRecv' = finalRecv \cup data
                 /\ cur' = NoCursor /\ bLen' = 0 /\ bData' = {} /\ bEnd' = NoCursor
            ELSE /\ cur' = Cursor(nxt)
                 /\ bLen' = len
                 /\ bData' = data
                 /\ bEnd' = end
                 /\ UNCHANGED <<pc, prev, clientVars>>
    /\ UNCHANGED <<configured, finality, batchSize, filter, finCur, accCur,
                   startNum, waker, pollable, reconfigs, chainVars>>

StreamNext ==
    \/ \E f \in Finalities, b \in BatchSizes, flt \in Filters, s \in StartCursors :
          ReconfigureDataStream(f, b, flt, s)
    \/ HandleIngestionMessage
    \/ PollNext
    \/ WalkStep

Next ==
    \/ IngestionNext /\ UNCHANGED streamVars
    \/ StreamNext

\* The executor polls a woken task and the server loop drains the
\* ingestion channel; the chain and the client may stop at any time.
Spec ==
    /\ Init
    /\ [][Next]_vars
    /\ WF_vars(PollNext)
    /\ WF_vars(WalkStep)
    /\ SF_vars(HandleIngestionMessage)

-----------------------------------------------------------------------------
(***************************************************************************)
(* Properties.                                                             *)
(***************************************************************************)

\* The abstract view of the stream: the blocks sent as finalized.
Abstract == INSTANCE FinalizedStream WITH delivered <- finalRecv

(***************************************************************************)
(* The stream implements FinalizedStream: every step of the chain, of the  *)
(* client and of the stream (handle_ingestion_message, poll_next and each  *)
(* iteration of send_finalized_batch) is a step of the abstract stream or *)
(* leaves its view unchanged, so a Finalized batch only ever adds final,  *)
(* canonical blocks that match the filter configured when it was walked.  *)
(***************************************************************************)
ImplementsFinalizedStream == Abstract!Spec

\* Data sent as finalized is final: every block the client received in a
\* Finalized batch (send_finalized_batch) is still canonical and at or
\* below the finalized block, whatever reorganisations happened since.
FinalizedDataIsFinal ==
    \A c \in finalRecv : c.number <= finNum /\ chain[c.number] = c.hash

\* The client misses no finalized data: every finalized block between the
\* starting cursor and previous_iter_cursor whose canonical version matches
\* the filter was sent in this configuration (advance_to_next_batch,
\* send_finalized_batch, send_accepted_batch).
NoMissedData ==
    configured /\ pc = "idle" =>
        \A n \in (startNum + 1)..prev.number :
            n <= finNum /\ Cursor(n) \in filter => received[Cursor(n)] >= 1

\* No lost wake-up on finalized data: when finalized blocks are waiting to
\* be sent, poll_next is eventually called (handle_ingestion_message and
\* reconfigure_data_stream must wake the task registered by poll_next).
FinalizedWorkEventuallyPolled ==
    (configured /\ pc = "idle" /\ NextNum <= finCur.number) ~> pollable

(***************************************************************************)
(* Every finalized block whose canonical version matches the filter and   *)
(* lies after the starting cursor is eventually sent, unless the client    *)
(* reconfigures first.  This is what the finalized loop of                 *)
(* send_finalized_batch, the waking in handle_ingestion_message and the    *)
(* reset of previous_iter_cursor after a batch must achieve together;      *)
(* r is the configuration the obligation belongs to.                       *)
(***************************************************************************)
FinalizedDataEventuallySent ==
    \A c \in Cursors, r \in 0..MaxReconfigs :
        (/\ configured /\ reconfigs = r /\ c \in filter
         /\ startNum < c.number /\ c.number <= finNum /\ chain[c.number] = c.hash)
            ~> (received[c] >= 1 \/ reconfigs # r)

\* The spec (8, boundary behaviours): a block whose data does not match
\* must still advance the subscriber, so the data of a block is never sent
\* twice in one configuration (send_finalized_batch sets
\* previous_iter_cursor to batch_end_cursor).
NoRedelivery == \A c \in Cursors : received[c] <= 1

=============================================================================
