---------------------------- MODULE CircuitBreaker ----------------------------
(***************************************************************************)
(* The storage circuit breaker of one worker process and the calls it      *)
(* guards: presigning an upload (behind UPLOAD_SEMAPHORE), and HEAD and    *)
(* download links (not behind it).  A call enters the breaker under its    *)
(* lock, runs the storage function without the lock, and reports under the *)
(* lock again; nothing is awaited while the lock is held, so entering and  *)
(* reporting are single steps.                                             *)
(***************************************************************************)
EXTENDS Naturals, FiniteSets

CONSTANTS
  Presigns,     \* calls of _generate_presigned_url in progress
  Others,       \* calls of _verify_and_prepare_document, generate_download_url_v2
  Threshold,    \* failure_threshold
  Recovery,     \* recovery_timeout
  Permits,      \* PARALLEL_LIMIT
  MaxAttempts,  \* max_attempts of async_retry
  MaxFailures   \* bound: how far failure_count is followed

\* What is assumed of the constants; MCCircuitBreaker, which declares them, says so.
ConstantsOK ==
  /\ Presigns \cap Others = {}
  /\ IsFiniteSet(Presigns)
  /\ Threshold \in Nat \ {0}
  /\ Recovery \in Nat
  /\ Permits \in Nat \ {0}
  /\ MaxAttempts \in Nat
  /\ MaxFailures \in Nat

Calls == Presigns \cup Others

VARIABLES
  state,        \* "closed", "open" or "half-open"
  failures,     \* failure_count
  since,        \* time since last_failure_time, followed up to Recovery + 1
  permits,      \* free permits of UPLOAD_SEMAPHORE
  pc,           \* where each call is, or how it ended
  attempts,     \* history: how often each call ran its storage function
  healthy       \* whether storage answers

vars == <<state, failures, since, permits, pc, attempts, healthy>>

Ended == {"returned", "failed", "missing", "refused"}

TypeOK ==
  /\ state \in {"closed", "open", "half-open"}
  /\ failures \in Nat
  /\ since \in 0..(Recovery + 1)
  /\ permits \in 0..Permits
  /\ pc \in [Calls -> {"idle", "queued", "entering", "running"} \cup Ended]
  /\ attempts \in [Calls -> Nat]
  /\ healthy \in BOOLEAN

Init ==
  /\ state = "closed"
  /\ failures = 0
  /\ since = 0
  /\ permits = Permits
  /\ pc = [c \in Calls |-> "idle"]
  /\ attempts = [c \in Calls |-> 0]
  /\ healthy \in BOOLEAN

Release(c) == permits' = IF c \in Presigns THEN permits + 1 ELSE permits

-----------------------------------------------------------------------------
Start(c) ==
  /\ pc[c] = "idle"
  /\ pc' = [pc EXCEPT ![c] = IF c \in Presigns THEN "queued" ELSE "entering"]
  /\ UNCHANGED <<state, failures, since, permits, attempts, healthy>>

Acquire(c) ==
  /\ c \in Presigns
  /\ pc[c] = "queued"
  /\ permits > 0
  /\ permits' = permits - 1
  /\ pc' = [pc EXCEPT ![c] = "entering"]
  /\ UNCHANGED <<state, failures, since, attempts, healthy>>

Admit(c) ==
  /\ pc' = [pc EXCEPT ![c] = "running"]
  /\ attempts' = [attempts EXCEPT ![c] = @ + 1]
  /\ UNCHANGED <<failures, since, permits, healthy>>

\* Closed and half-open let every call through.
Enter(c) ==
  /\ pc[c] = "entering"
  /\ state # "open"
  /\ Admit(c)
  /\ UNCHANGED state

\* The first call after the timeout makes an open breaker half-open.
Probe(c) ==
  /\ pc[c] = "entering"
  /\ state = "open"
  /\ since > Recovery
  /\ state' = "half-open"
  /\ Admit(c)

\* Mutant: a refused call keeps its permit.
Refuse_KeepsPermit(c) ==
  /\ pc[c] = "entering"
  /\ state = "open"
  /\ since <= Recovery
  /\ pc' = [pc EXCEPT ![c] = "refused"]
  /\ UNCHANGED <<state, failures, since, permits, attempts, healthy>>

\* Mutant: a refusal sets last_failure_time, as a failure does.
Refuse_RestartsTimeout(c) ==
  /\ pc[c] = "entering"
  /\ state = "open"
  /\ since <= Recovery
  /\ since' = 0
  /\ pc' = [pc EXCEPT ![c] = "refused"]
  /\ Release(c)
  /\ UNCHANGED <<state, failures, attempts, healthy>>

\* StorageError: the service is taken for unavailable.
Refuse(c) ==
  /\ pc[c] = "entering"
  /\ state = "open"
  /\ since <= Recovery
  /\ pc' = [pc EXCEPT ![c] = "refused"]
  /\ Release(c)
  /\ UNCHANGED <<state, failures, since, attempts, healthy>>

\* Mutant: closing the breaker keeps the count of failures.
Succeed_KeepsCount(c) ==
  /\ pc[c] = "running"
  /\ healthy
  /\ state' = IF state = "half-open" THEN "closed" ELSE state
  /\ pc' = [pc EXCEPT ![c] = "returned"]
  /\ Release(c)
  /\ UNCHANGED <<failures, since, attempts, healthy>>

\* Success closes a half-open breaker, whenever the call had started; in a
\* closed one it leaves the count of failures alone.
Succeed(c) ==
  /\ pc[c] = "running"
  /\ healthy
  /\ IF state = "half-open" THEN state' = "closed" /\ failures' = 0
                            ELSE UNCHANGED <<state, failures>>
  /\ pc' = [pc EXCEPT ![c] = "returned"]
  /\ Release(c)
  /\ UNCHANGED <<since, attempts, healthy>>

\* HEAD answers 404: _verify raises StorageError, which the breaker neither
\* counts as a failure nor as a success.
Missing(c) ==
  /\ pc[c] = "running"
  /\ c \in Others
  /\ healthy
  /\ pc' = [pc EXCEPT ![c] = "missing"]
  /\ Release(c)
  /\ UNCHANGED <<state, failures, since, attempts, healthy>>

\* ClientError or BotoCoreError: counted, and raised again as StorageError.
\* That is not one of the exceptions async_retry waits for, so the call ends.
Fail(c) ==
  /\ pc[c] = "running"
  /\ ~healthy
  /\ failures < MaxFailures
  /\ failures' = failures + 1
  /\ since' = 0
  /\ state' = IF failures' >= Threshold THEN "open" ELSE state
  /\ pc' = [pc EXCEPT ![c] = "failed"]
  /\ Release(c)
  /\ UNCHANGED <<attempts, healthy>>

\* The slot serves another request.
Reset(c) ==
  /\ pc[c] \in Ended
  /\ pc' = [pc EXCEPT ![c] = "idle"]
  /\ attempts' = [attempts EXCEPT ![c] = 0]
  /\ UNCHANGED <<state, failures, since, permits, healthy>>

Tick ==
  /\ since <= Recovery
  /\ since' = since + 1
  /\ UNCHANGED <<state, failures, permits, pc, attempts, healthy>>

StorageTurns ==
  /\ healthy' = ~healthy
  /\ UNCHANGED <<state, failures, since, permits, pc, attempts>>

Step(c) == \/ Start(c) \/ Acquire(c) \/ Enter(c) \/ Probe(c) \/ Refuse(c)
           \/ Succeed(c) \/ Missing(c) \/ Fail(c) \/ Reset(c)

Next == (\E c \in Calls : Step(c)) \/ Tick \/ StorageTurns

Spec == Init /\ [][Next]_vars

\* Requests keep coming and the event loop runs every call; time passes.  Of a
\* storage that answers, it is assumed that not every answer is a 404.
FairSpec ==
  /\ Spec
  /\ WF_vars(Tick)
  /\ \A c \in Calls : WF_vars(Step(c)) /\ SF_vars(Acquire(c)) /\ SF_vars(Succeed(c))

-----------------------------------------------------------------------------
(* Properties *)

\* The three states and the counter tell the same story in every interleaving
\* of late successes and failures: the breaker is closed exactly while fewer
\* than failure_threshold failures are counted (file_controller.py:86-113).
ClosedBelowThreshold == state = "closed" <=> failures < Threshold

\* Every way out of a guarded call gives the semaphore's permit back, the
\* refusal by an open breaker included (file_controller.py:541-565).
Holders == {c \in Presigns : pc[c] \in {"entering", "running"}}
PermitsConserved == permits + Cardinality(Holders) = Permits

\* The breaker does not lock the storage out: once storage answers for good,
\* the breaker closes for good.
ClosesAfterRecovery == <>[]healthy => <>[](state = "closed")
=============================================================================
