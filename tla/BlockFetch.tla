----------------------------- MODULE BlockFetch -----------------------------
(***************************************************************************)
(* BlockBuilder::block_by_number_with_backoff and latest_block_with_backoff *)
(* (src/starknet/src/block_builder.rs): fetch_block classifies the          *)
(* gateway's answer as success, transient or permanent error, and          *)
(* backoff::future::retry sleeps and calls it again after a transient one  *)
(* until the exponential backoff built in BlockBuilder::new gives up.      *)
(*                                                                         *)
(* Time is counted in units of 5 s.  The backoff is the one of the backoff *)
(* crate: a randomized interval in [interval/2, 3*interval/2] (randomi-    *)
(* zation factor 0.5, abstracted to its two ends and its middle), the      *)
(* interval doubled up to max_interval (60 s, the crate's default), and no *)
(* further retry once the elapsed time exceeds max_elapsed_time.           *)
(***************************************************************************)
EXTENDS Integers

CONSTANTS Errors,       \* the provider errors client.get_block may return
          BlockNumbers, \* the block numbers the gateway may report
          RequestTimes  \* how long one get_block call may take (units)

\* The errors the gateway provider reports.
AllErrors == {"rateLimited", "starknetError", "other"}

\* An optional field of the gateway's block that is absent, and an absent
\* block number.
None == "none"
NoNumber == -1

(***************************************************************************)
(* The gateway's sn_types::Block, abstracted to the fields the conversions *)
(* test or default: block_hash, block_number and state_root are optional   *)
(* (a pending block has no hash nor number), and the status.  Hashes and   *)
(* roots are one value each: nothing here compares two of them.            *)
(***************************************************************************)
GatewayBlocks == [hash : {"hash", None}, number : BlockNumbers \cup {NoNumber},
                  root : {"root", None}, status : {"pending", "accepted"}]

\* What client.get_block may return: a block, or Err of a provider error.
Answers == GatewayBlocks \cup [error : Errors]

ASSUME FetchAssumption ==
    /\ Errors \subseteq AllErrors
    /\ BlockNumbers \subseteq Nat /\ 0 \notin BlockNumbers
    /\ RequestTimes \subseteq Nat
    \* a get_block call has a longest duration (the HTTP client's timeout)
    /\ \E t \in RequestTimes : \A u \in RequestTimes : u <= t

InitialInterval == 2     \* with_initial_interval(Duration::from_secs(10))
Multiplier == 2          \* with_multiplier(2.0)
MaxInterval == 12        \* the crate's default max_interval, 60 s
MaxElapsed == 60         \* with_max_elapsed_time(Some(60 * 5 s))

\* A bound on the model's clock, in the guards: a retry ends before it
\* (FetchTypeOK), since no sleep starts after MaxElapsed.
MaxRequestTime == CHOOSE t \in RequestTimes : \A u \in RequestTimes : u <= t

\* The longest randomized interval: max_interval plus half of it.
MaxSleep == MaxInterval + MaxInterval \div 2

TimeBound == MaxElapsed + MaxSleep + 2 * MaxRequestTime

VARIABLES
    phase,     \* "request", "sleep", "ok" or "error"
    error,     \* the error fetch_block returned last ("none" before)
    elapsed,   \* time since the retry started
    interval,  \* ExponentialBackoff.current_interval
    sleepFor,  \* the randomized interval being slept
    cancelled, \* ct.is_cancelled()
    block,     \* the core::Block the fetch returned (NoBlock before)
    pending    \* what fetch_pending_block returned last (NoBlock: Ok(None))

vars == <<phase, error, elapsed, interval, sleepFor, cancelled, block, pending>>

\* The core::Block the two conversions build: an absent hash stays absent
\* (Option<BlockHash>), the number and the state root are plain values.
Blocks == [hash : {"hash", None}, number : BlockNumbers \cup {0},
           root : {"root", "empty"}]

\* No block.
NoBlock == [hash |-> None, number |-> NoNumber, root |-> None]

FetchTypeOK ==
    /\ phase \in {"request", "sleep", "ok", "error"}
    /\ error \in AllErrors \cup {"unexpectedPendingBlock", "none"}
    /\ elapsed \in 0..TimeBound
    /\ interval \in InitialInterval..MaxInterval
    /\ sleepFor \in 0..MaxSleep
    /\ cancelled \in BOOLEAN
    /\ block \in Blocks \cup {NoBlock}
    /\ pending \in Blocks \cup {NoBlock}

Init ==
    /\ phase = "request"
    /\ error = "none"
    /\ elapsed = 0
    /\ interval = InitialInterval
    /\ sleepFor = 0
    /\ cancelled = FALSE
    /\ block = NoBlock
    /\ pending = NoBlock

(***************************************************************************)
(* TryFrom<sn_types::Block> for Block: a missing block_hash, block_number  *)
(* or state_root is UnexpectedPendingBlock; the sequencer address and the  *)
(* version default when absent, the rest is copied.                        *)
(***************************************************************************)
Convertible(b) == b.hash # None /\ b.number # NoNumber /\ b.root # None

AsBlock(b) == [hash |-> b.hash, number |-> b.number, root |-> b.root]

(***************************************************************************)
(* TryFrom<sn_types::Block> for PendingBlock, which cannot fail: the hash  *)
(* stays optional, the number defaults to 0 (the code's comment: "should   *)
(* use next block number") and the state root to empty bytes.              *)
(***************************************************************************)
AsPendingBlock(b) ==
    [hash   |-> b.hash,
     number |-> IF b.number = NoNumber THEN 0 ELSE b.number,
     root   |-> IF b.root = None THEN "empty" ELSE b.root]

\* fetch_block: which answers are transient, to be retried.
Transient(err) == err = "rateLimited" /\ ~cancelled

\* ExponentialBackoff::next_backoff: None once max_elapsed_time is passed.
Randomized(i) == {i - i \div 2, i, i + i \div 2}

\* Mutant: the interval keeps doubling past max_interval.
NextIntervalUncapped(i) == i * Multiplier

NextInterval(i) == IF i * Multiplier >= MaxInterval THEN MaxInterval
                                                    ELSE i * Multiplier

\* fetch_block given a block: the converted block, or UnexpectedPendingBlock
\* as a permanent error.
GotBlock(ans) ==
    \/ /\ Convertible(ans)
       /\ phase' = "ok" /\ block' = AsBlock(ans)
       /\ UNCHANGED <<error, interval, sleepFor>>
    \/ /\ ~Convertible(ans)
       /\ phase' = "error" /\ error' = "unexpectedPendingBlock"
       /\ UNCHANGED <<interval, sleepFor, block>>

\* Mutant: the backoff has no max_elapsed_time.
RequestNoDeadline(ans, d) ==
    /\ phase = "request"
    /\ elapsed + d <= TimeBound
    /\ elapsed' = elapsed + d
    /\ IF ans \in GatewayBlocks
         THEN GotBlock(ans)
         ELSE /\ error' = ans.error /\ UNCHANGED block
              /\ IF Transient(ans.error)
                   THEN /\ phase' = "sleep"
                        /\ sleepFor' \in Randomized(interval)
                        /\ interval' = NextInterval(interval)
                   ELSE phase' = "error" /\ UNCHANGED <<interval, sleepFor>>
    /\ UNCHANGED <<cancelled, pending>>

(***************************************************************************)
(* One call of fetch_block, and the retry's reaction to its result: a     *)
(* block converts (TryFrom) or fails as UnexpectedPendingBlock; a rate     *)
(* limit is transient unless the token is cancelled; a StarkNet error and  *)
(* any other provider error are permanent.                                 *)
(***************************************************************************)
Request(ans, d) ==
    /\ phase = "request"
    /\ elapsed + d <= TimeBound
    /\ elapsed' = elapsed + d
    /\ IF ans \in GatewayBlocks
         THEN GotBlock(ans)
         ELSE /\ error' = ans.error /\ UNCHANGED block
              /\ IF Transient(ans.error) /\ elapsed' <= MaxElapsed
                   THEN /\ phase' = "sleep"
                        /\ sleepFor' \in Randomized(interval)
                        /\ interval' = NextInterval(interval)
                   ELSE phase' = "error" /\ UNCHANGED <<interval, sleepFor>>
    /\ UNCHANGED <<cancelled, pending>>

\* The retry future sleeps the interval; cancellation does not wake it.
Sleep ==
    /\ phase = "sleep"
    /\ elapsed + sleepFor <= TimeBound
    /\ elapsed' = elapsed + sleepFor
    /\ phase' = "request"
    /\ UNCHANGED <<error, interval, sleepFor, cancelled, block, pending>>

\* The process-wide cancellation token is triggered.
Cancel ==
    /\ ~cancelled
    /\ cancelled' = TRUE
    /\ UNCHANGED <<phase, error, elapsed, interval, sleepFor, block, pending>>

(***************************************************************************)
(* fetch_pending_block, called by ingestion besides the fetch: one         *)
(* get_block(Pending) without retry; an error, or a block whose status is  *)
(* not Pending, is Ok(None); a pending block is converted as PendingBlock. *)
(***************************************************************************)
FetchPendingBlock(ans) ==
    /\ pending' = IF ans \in GatewayBlocks /\ ans.status = "pending"
                    THEN AsPendingBlock(ans)
                    ELSE NoBlock
    /\ UNCHANGED <<phase, error, elapsed, interval, sleepFor, cancelled, block>>

Next ==
    \/ \E ans \in Answers, d \in RequestTimes : Request(ans, d)
    \/ Sleep
    \/ Cancel
    \/ \E ans \in Answers : FetchPendingBlock(ans)

\* The retry future is polled by the runtime whenever it can make progress.
Spec == Init /\ [][Next]_vars
        /\ WF_vars(\E ans \in Answers, d \in RequestTimes : Request(ans, d))
        /\ WF_vars(Sleep)

-----------------------------------------------------------------------------
(* Properties *)

(***************************************************************************)
(* A fetch always ends, with a block or an error, however long the gateway *)
(* keeps rate-limiting: the exponential backoff's max_elapsed_time bounds  *)
(* the retry of block_by_number_with_backoff.                              *)
(***************************************************************************)
FetchEnds == <>(phase \in {"ok", "error"})

(***************************************************************************)
(* The retry of block_by_number_with_backoff stays within its time budget: *)
(* a sleep starts only before max_elapsed_time and lasts at most one       *)
(* randomized max_interval, so no get_block call starts later than        *)
(* max_elapsed_time plus that interval.  This needs both the deadline     *)
(* check of the backoff and the cap of the interval in BlockBuilder::new. *)
(***************************************************************************)
RetryWithinBudget ==
    /\ phase = "sleep" => elapsed + sleepFor <= MaxElapsed + MaxSleep
    /\ phase = "request" => elapsed <= MaxElapsed + MaxSleep

(***************************************************************************)
(* A fetch fails on a transient provider error (a transport error or a     *)
(* rate limit) only after the backoff budget is spent or the token is      *)
(* cancelled: the specification (4.1, 4.2, section 7) says transient I/O   *)
(* errors are retried with exponential backoff and never surfaced.         *)
(***************************************************************************)
TransientErrorsRetried ==
    phase = "error" /\ error \in {"rateLimited", "other"}
        => elapsed > MaxElapsed \/ cancelled

=============================================================================
