----------------------------- MODULE RetryStrategy -----------------------------
(***************************************************************************)
(* qsfs's RetryStrategy (src/client/RetryStrategy.cpp): ShouldRetry and   *)
(* CalculateDelayBeforeNextRetry, and the retry loop of a client call     *)
(* that consults them (spec sections 4.4 and 7; the loop itself is in     *)
(* QSClient, outside src/).  The strategy's two fields come from the      *)
(* options (GetCustomRetryStrategy), so the model starts from every       *)
(* retry count up to a bound and every scale factor of a small set.       *)
(***************************************************************************)
EXTENDS Naturals, Sequences

CONSTANTS
  RetryBound,  \* largest retry count the options are given
  Scales       \* scale factors the strategy may be built with

ASSUME RetryBound \in Nat /\ Scales \subseteq Nat \ {0}

(* What a call to the object store may end with.                          *)
Outcomes == {"ok", "retryable", "permanent"}

VARIABLES
  strategy,   \* m_maxRetryTimes and m_scaleFactor
  attempted,  \* retries made so far (attemptedRetryTimes)
  delays,     \* the delays slept before each retry, in order
  calls,      \* calls issued
  result      \* the outcome of the last call, or "none" while running

vars == <<strategy, attempted, delays, calls, result>>

TypeOK ==
  /\ strategy \in [maxRetryTimes : 0..RetryBound, scaleFactor : Scales]
  /\ attempted \in 0..RetryBound
  /\ delays \in Seq(Nat)
  /\ calls \in 0..RetryBound + 1
  /\ result \in Outcomes \cup {"none"}

Init ==
  /\ strategy \in [maxRetryTimes : 0..RetryBound, scaleFactor : Scales]
  /\ attempted = 0 /\ delays = <<>> /\ calls = 0 /\ result = "none"

(* Mutant of ShouldRetry: the bound tested with > instead of >=.       *)
ShouldRetryPastBound(err, n) == IF n > strategy.maxRetryTimes THEN FALSE
                                ELSE err = "retryable"

(* RetryStrategy::ShouldRetry: never once m_maxRetryTimes retries were   *)
(* made; otherwise as the error says (a transient error is retryable).   *)
ShouldRetry(err, n) == IF n >= strategy.maxRetryTimes THEN FALSE
                       ELSE err = "retryable"

(* RetryStrategy::CalculateDelayBeforeNextRetry: 0 before the first      *)
(* retry, (1 << n) * m_scaleFactor after it.  The product stays far below*)
(* 2^32 for the retry counts of the model.                               *)
CalculateDelayBeforeNextRetry(n) ==
  IF n = 0 THEN 0 ELSE 2^n * strategy.scaleFactor

(* One call and the loop's decision: stop on success or on an error not  *)
(* to be retried, or sleep the delay and retry.                          *)
Call ==
  /\ result = "none"
  /\ calls' = calls + 1
  /\ \E err \in Outcomes :
       IF err # "ok" /\ ShouldRetry(err, attempted)
       THEN /\ delays' = Append(delays, CalculateDelayBeforeNextRetry(attempted))
            /\ attempted' = attempted + 1
            /\ UNCHANGED result
       ELSE /\ result' = err
            /\ UNCHANGED <<attempted, delays>>
  /\ UNCHANGED strategy

(* The call returned its last outcome; nothing further happens.          *)
Returned == result # "none" /\ UNCHANGED vars

Next == Call \/ Returned

Spec == Init /\ [][Next]_vars

=============================================================================
