-------------------------- MODULE BlockFetchProofs --------------------------
(***************************************************************************)
(* Proofs about BlockFetch for every set of errors, block numbers and     *)
(* request durations: type correctness, the time budget of the retry, and *)
(* that the model's clock bound never disables a step of the code.        *)
(***************************************************************************)
EXTENDS BlockFetch, TLAPS

USE FetchAssumption

\* The longest request duration is one of them and bounds them all.
LEMMA MaxRequestTimeFacts ==
    /\ MaxRequestTime \in RequestTimes
    /\ \A u \in RequestTimes : u <= MaxRequestTime
BY DEF MaxRequestTime

\* The randomized intervals of an interval within the cap are at most
\* MaxSleep.
LEMMA RandomizedBound ==
    ASSUME NEW i \in InitialInterval..MaxInterval
    PROVE  Randomized(i) \subseteq 0..MaxSleep
BY DEF Randomized, MaxSleep, InitialInterval, MaxInterval

\* next_backoff keeps the interval between the initial one and the cap.
LEMMA NextIntervalBound ==
    ASSUME NEW i \in InitialInterval..MaxInterval
    PROVE  NextInterval(i) \in InitialInterval..MaxInterval
BY DEF NextInterval, InitialInterval, MaxInterval, Multiplier

\* Both conversions build a core::Block.
LEMMA ConversionType ==
    ASSUME NEW b \in GatewayBlocks
    PROVE  /\ Convertible(b) => AsBlock(b) \in Blocks
           /\ AsPendingBlock(b) \in Blocks
BY DEF GatewayBlocks, Convertible, AsBlock, AsPendingBlock, Blocks, None,
   NoNumber

-----------------------------------------------------------------------------
\* A step keeps FetchTypeOK.
LEMMA FetchTypeStep == FetchTypeOK /\ [Next]_vars => FetchTypeOK'
<1> SUFFICES ASSUME FetchTypeOK, [Next]_vars PROVE FetchTypeOK'
  OBVIOUS
<1>1. TimeBound \in Nat
  BY MaxRequestTimeFacts DEF TimeBound, MaxElapsed, MaxSleep, MaxInterval
<1>2. CASE \E ans \in Answers, d \in RequestTimes : Request(ans, d)
  <2>1. PICK ans \in Answers, d \in RequestTimes : Request(ans, d)
    BY <1>2
  <2>2. elapsed' \in 0..TimeBound /\ UNCHANGED <<cancelled, pending>>
    BY <1>1, <2>1 DEF Request, FetchTypeOK
  <2>3. CASE ans \in GatewayBlocks
    <3>1. GotBlock(ans)
      BY <2>1, <2>3 DEF Request
    <3>. QED
      BY <2>2, <2>3, <3>1, ConversionType DEF GotBlock, FetchTypeOK, AllErrors
  <2>4. CASE ans \notin GatewayBlocks
    <3>1. ans \in [error : Errors] /\ error' = ans.error /\ UNCHANGED block
      BY <2>1, <2>4 DEF Request, Answers
    <3>2. error' \in AllErrors
      BY <3>1
    <3>3. \/ /\ phase' = "sleep"
             /\ sleepFor' \in Randomized(interval)
             /\ interval' = NextInterval(interval)
          \/ phase' = "error" /\ UNCHANGED <<interval, sleepFor>>
      BY <2>1, <2>4 DEF Request
    <3>4. interval \in InitialInterval..MaxInterval
      BY DEF FetchTypeOK
    <3>. QED
      BY <2>2, <3>1, <3>2, <3>3, <3>4, RandomizedBound, NextIntervalBound
         DEF FetchTypeOK
  <2>. QED
    BY <2>3, <2>4
<1>3. CASE Sleep
  BY <1>1, <1>3 DEF Sleep, FetchTypeOK
<1>4. CASE Cancel
  BY <1>4 DEF Cancel, FetchTypeOK
<1>5. CASE \E ans \in Answers : FetchPendingBlock(ans)
  <2>1. PICK ans \in Answers : FetchPendingBlock(ans)
    BY <1>5
  <2>2. ans \in GatewayBlocks => AsPendingBlock(ans) \in Blocks
    BY ConversionType
  <2>. QED
    BY <2>1, <2>2 DEF FetchPendingBlock, FetchTypeOK
<1>6. CASE UNCHANGED vars
  BY <1>6 DEF vars, FetchTypeOK
<1>. QED
  BY <1>2, <1>3, <1>4, <1>5, <1>6 DEF Next

\* The initial state is well typed.
LEMMA FetchTypeInit == Init => FetchTypeOK
<1> SUFFICES ASSUME Init PROVE FetchTypeOK
  OBVIOUS
<1>1. TimeBound \in Nat
  BY MaxRequestTimeFacts DEF TimeBound, MaxElapsed, MaxSleep, MaxInterval
<1>2. elapsed \in 0..TimeBound /\ interval \in InitialInterval..MaxInterval
      /\ sleepFor \in 0..MaxSleep
  BY <1>1 DEF Init, InitialInterval, MaxInterval, MaxSleep
<1>3. block \in Blocks \cup {NoBlock} /\ pending \in Blocks \cup {NoBlock}
  BY DEF Init
<1>. QED
  BY <1>2, <1>3 DEF Init, FetchTypeOK

(***************************************************************************)
(* Every reachable state of the fetch is well typed (FetchTypeOK is       *)
(* checked by run fetch_backoff): in particular the interval of the      *)
(* exponential backoff never exceeds the crate's default max_interval,    *)
(* however often the gateway rate-limits.                                  *)
(***************************************************************************)
THEOREM FetchTypeCorrect == Spec => []FetchTypeOK
<1>. QED
  BY FetchTypeInit, FetchTypeStep, PTL DEF Spec

-----------------------------------------------------------------------------
\* RetryWithinBudget is inductive together with the types.
BudgetInv == FetchTypeOK /\ RetryWithinBudget

\* A step keeps the retry within its budget.
LEMMA BudgetStep == BudgetInv /\ [Next]_vars => BudgetInv'
<1> SUFFICES ASSUME BudgetInv, [Next]_vars PROVE BudgetInv'
  OBVIOUS
<1>1. FetchTypeOK /\ FetchTypeOK'
  BY FetchTypeStep DEF BudgetInv
<1>2. elapsed \in Nat /\ sleepFor \in 0..MaxSleep
      /\ interval \in InitialInterval..MaxInterval
  BY <1>1 DEF FetchTypeOK
<1>3. CASE \E ans \in Answers, d \in RequestTimes : Request(ans, d)
  <2>1. PICK ans \in Answers, d \in RequestTimes : Request(ans, d)
    BY <1>3
  <2>2. CASE ans \in GatewayBlocks
    BY <1>1, <2>1, <2>2 DEF Request, GotBlock, RetryWithinBudget, BudgetInv
  <2>3. CASE ans \notin GatewayBlocks
    <3>1. \/ /\ phase' = "sleep" /\ elapsed' <= MaxElapsed
             /\ sleepFor' \in Randomized(interval)
          \/ phase' = "error"
      BY <2>1, <2>3 DEF Request
    <3>2. Randomized(interval) \subseteq 0..MaxSleep
      BY <1>2, RandomizedBound
    <3>3. elapsed' \in Nat
      BY <1>1 DEF FetchTypeOK
    <3>. QED
      BY <1>1, <3>1, <3>2, <3>3 DEF RetryWithinBudget, BudgetInv, MaxElapsed,
         MaxSleep, MaxInterval
  <2>. QED
    BY <2>2, <2>3
<1>4. CASE Sleep
  BY <1>1, <1>2, <1>4 DEF Sleep, RetryWithinBudget, BudgetInv
<1>5. CASE Cancel \/ \E ans \in Answers : FetchPendingBlock(ans)
  <2>1. UNCHANGED <<phase, elapsed, sleepFor>>
    BY <1>5 DEF Cancel, FetchPendingBlock
  <2>. QED
    BY <1>1, <2>1 DEF RetryWithinBudget, BudgetInv
<1>6. CASE UNCHANGED vars
  BY <1>1, <1>6 DEF vars, RetryWithinBudget, BudgetInv
<1>. QED
  BY <1>3, <1>4, <1>5, <1>6 DEF Next

\* The initial state is within the budget.
LEMMA BudgetInit == Init => BudgetInv
BY FetchTypeInit DEF Init, BudgetInv, RetryWithinBudget, MaxElapsed, MaxSleep,
   MaxInterval

(***************************************************************************)
(* The retry of block_by_number_with_backoff stays within its time budget  *)
(* (RetryWithinBudget, checked by run fetch_backoff) for every set of     *)
(* request durations: the deadline check of the backoff stops the sleeps  *)
(* after max_elapsed_time, and the interval cap bounds each sleep.        *)
(***************************************************************************)
THEOREM WithinBudget == Spec => []RetryWithinBudget
BY BudgetInit, BudgetStep, PTL DEF Spec, BudgetInv

\* The clock bound of the model does not disable Request or Sleep in any
\* reachable state: each of their guards on elapsed holds whenever the
\* phase enables them.
ClockGuardsOpen ==
    /\ phase = "request" => \A d \in RequestTimes : elapsed + d <= TimeBound
    /\ phase = "sleep" => elapsed + sleepFor <= TimeBound

(***************************************************************************)
(* The bound TimeBound that keeps the model finite never cuts a behaviour *)
(* of the code: block_by_number_with_backoff ends (FetchEnds) because of  *)
(* the backoff's deadline, not because the model's clock ran out.         *)
(***************************************************************************)
THEOREM ClockBoundNeverBinds == Spec => []ClockGuardsOpen
<1>1. BudgetInv => ClockGuardsOpen
  <2> SUFFICES ASSUME BudgetInv PROVE ClockGuardsOpen
    OBVIOUS
  <2>1. elapsed \in Nat /\ sleepFor \in Nat /\ MaxRequestTime \in Nat
        /\ \A u \in RequestTimes : u \in Nat /\ u <= MaxRequestTime
    BY MaxRequestTimeFacts DEF BudgetInv, FetchTypeOK, MaxSleep, MaxInterval
  <2>. QED
    BY <2>1 DEF BudgetInv, RetryWithinBudget, ClockGuardsOpen, TimeBound,
       MaxElapsed, MaxSleep, MaxInterval
<1>. QED
  BY <1>1, BudgetInit, BudgetStep, PTL DEF Spec

=============================================================================
