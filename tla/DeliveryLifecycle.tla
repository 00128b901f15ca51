-------------------------- MODULE DeliveryLifecycle --------------------------
(***************************************************************************)
(* The Delivery aggregate of crates/domain/src/delivery.rs: one record for *)
(* getting one alert to one consumer over one channel endpoint.  A row     *)
(* carries what the transitions read and write: the status, the number of  *)
(* attempts started, the optimistic-locking version, and whether the row   *)
(* still waits for next_attempt_at.  Every transition is a function from   *)
(* row to row with a separate enabling condition, because the code returns *)
(* an error (and changes nothing) outside it.                              *)
(***************************************************************************)
EXTENDS Naturals

CONSTANT MaxAttempts      \* RetryPolicy.max_attempts, the same for every row

\* RetryPolicy::new refuses zero attempts.
ASSUME RetryPolicyAssumption == MaxAttempts \in Nat \ {0}

DeliveryStatus ==
  {"QUEUED", "SENDING", "SENT", "DELIVERED", "RETRYING", "FAILED_PERMANENTLY"}

\* "ABSENT" is the status of a row that has not been inserted.
Row == [status        : DeliveryStatus \cup {"ABSENT"},
        attempt_count : Nat,
        version       : Nat,
        wait          : {"none", "backoff"}]

NoRow == [status |-> "ABSENT", attempt_count |-> 0,
          version |-> 0, wait |-> "none"]

Reached(row) == row.status \in {"SENT", "DELIVERED"}

\* Delivery::plan_one
PlanOne == [status |-> "QUEUED", attempt_count |-> 0,
            version |-> 1, wait |-> "none"]

\* Mutant: only the first attempt is counted.
StartAttemptUncounted(row) ==
  [status        |-> "SENDING",
   attempt_count |-> IF row.status = "QUEUED" THEN 1 ELSE row.attempt_count,
   version       |-> row.version + 1,
   wait          |-> "none"]

\* Delivery::start_attempt
CanStartAttempt(row) == row.status \in {"QUEUED", "RETRYING"}

StartAttempt(row) ==
  [status |-> "SENDING", attempt_count |-> row.attempt_count + 1,
   version |-> row.version + 1, wait |-> "none"]

\* Delivery::record_success and record_failure are legal in SENDING only.
CanRecordOutcome(row) == row.status = "SENDING"

RecordSuccess(row) ==
  [status |-> "SENT", attempt_count |-> row.attempt_count,
   version |-> row.version + 1, wait |-> "none"]

WillRetry(row, retryable) == retryable /\ row.attempt_count < MaxAttempts

\* Mutant: a failed attempt puts the row back in the queue.
RecordFailureRequeues(row, retryable) ==
  [status        |-> IF WillRetry(row, retryable)
                       THEN "QUEUED" ELSE "FAILED_PERMANENTLY",
   attempt_count |-> row.attempt_count,
   version       |-> row.version + 1,
   wait          |-> IF WillRetry(row, retryable) THEN "backoff" ELSE "none"]

\* The backoff starts exactly when the new status is RETRYING (retry_backoff).
RecordFailure(row, retryable) ==
  [status        |-> IF WillRetry(row, retryable)
                       THEN "RETRYING" ELSE "FAILED_PERMANENTLY",
   attempt_count |-> row.attempt_count,
   version       |-> row.version + 1,
   wait          |-> IF WillRetry(row, retryable) THEN "backoff" ELSE "none"]

\* Delivery::record_delivered
CanRecordDelivered(row) == row.status = "SENT"
RecordDelivered(row) ==
  [status |-> "DELIVERED", attempt_count |-> row.attempt_count,
   version |-> row.version + 1, wait |-> "none"]

=============================================================================
