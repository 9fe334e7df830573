--------------------------- MODULE MCCircuitBreaker ---------------------------
(* An instance of CircuitBreaker for TLC, and for FileStoreProofs: behind the   *)
(* name Breaker its definitions do not clash with the file store's.             *)

CONSTANTS Presigns, Others, Threshold, Recovery, Permits, MaxAttempts, MaxFailures
VARIABLES state, failures, since, permits, pc, attempts, healthy

Breaker == INSTANCE CircuitBreaker

ASSUME BreakerConstantsOK == Breaker!ConstantsOK

BreakerSpec == Breaker!Spec
FairBreaker == Breaker!FairSpec

\* The breaker is closed exactly while fewer than failure_threshold failures
\* are counted (file_controller.py:86-113).
ClosedBelowThreshold == Breaker!ClosedBelowThreshold

\* Every way out of a guarded call gives the semaphore's permit back
\* (file_controller.py:541-565).
PermitsConserved == Breaker!PermitsConserved

\* Once storage answers for good, the breaker closes for good.
ClosesAfterRecovery == Breaker!ClosesAfterRecovery
=============================================================================
