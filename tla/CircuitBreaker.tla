---------------------------- MODULE CircuitBreaker ----------------------------
(***************************************************************************)
(* form-usage-events: EventPublisher::publish (publish.rs) with its retry  *)
(* loop (retry.rs) and the CircuitBreaker (circuit_breaker.rs) that every  *)
(* clone of a publisher shares.                                            *)
(*                                                                         *)
(* Each task runs publish: allow_request, the attempts of with_retry, then *)
(* record_success or record_failure.  The breaker's fields are separate    *)
(* cells (a tokio RwLock and three atomics), so every access to one of     *)
(* them is a step of its own and the steps of the tasks interleave.  The   *)
(* state a method has read decides, through pc, which branch it follows    *)
(* even when the state has changed since.                                  *)
(***************************************************************************)
EXTENDS Naturals

CONSTANTS
    Tasks,                      \* concurrent callers of publish
    failure_threshold,          \* CircuitBreakerConfig
    half_open_allowed_calls,
    reset_timeout,
    max_retries                 \* RetryConfig

ASSUME ConfigAssumption ==
    /\ failure_threshold \in Nat \ {0}
    /\ half_open_allowed_calls \in Nat \ {0}
    /\ reset_timeout \in Nat
    /\ max_retries \in Nat

VARIABLES
    state,      \* CircuitState behind the RwLock
    failures,   \* AtomicUsize
    successes,  \* AtomicUsize
    elapsed,    \* now - last_failure_time in seconds, capped at reset_timeout
    queue_up,   \* whether the message queue accepts a write
    pc,         \* where each task is in publish
    retry       \* current_retry of its with_retry loop

vars == <<state, failures, successes, elapsed, queue_up, pc, retry>>

CircuitState == {"Closed", "Open", "HalfOpen"}

\* The program points of publish, named for the access that comes next.
Points == {"idle",
           "check_timeout", "to_half_open", "clear_successes", "check_calls",
           "attempt", "succeeded", "failed",
           "reset_failures", "count_success", "close", "close_failures",
           "close_successes", "late_half_open", "late_success",
           "stamp_closed", "stamp_half_open", "stamp_open",
           "count_failure", "trip", "reopen", "reopen_successes"}

Init ==
    /\ state = "Closed"
    /\ failures = 0
    /\ successes = 0
    /\ elapsed = reset_timeout
    /\ queue_up \in BOOLEAN
    /\ pc = [t \in Tasks |-> "idle"]
    /\ retry = [t \in Tasks |-> 0]

At(t, point) == pc[t] = point

Goto(t, point) == pc' = [pc EXCEPT ![t] = point]

-------------------------------------------------------------------------------
(***************************************************************************)
(* allow_request.                                                          *)
(***************************************************************************)

\* publish calls allow_request, which reads the state once.  The threshold check
\* before it neither reads nor changes the breaker.
allow_request(t) ==
    /\ At(t, "idle")
    /\ Goto(t, [Closed   |-> "attempt",
                Open     |-> "check_timeout",
                HalfOpen |-> "check_calls"][state])
    /\ UNCHANGED <<state, failures, successes, elapsed, queue_up, retry>>

\* Open: too early rejects the request, publish returns CircuitBreakerOpen.
check_timeout(t) ==
    /\ At(t, "check_timeout")
    /\ Goto(t, IF elapsed >= reset_timeout THEN "to_half_open" ELSE "idle")
    /\ UNCHANGED <<state, failures, successes, elapsed, queue_up, retry>>

to_half_open(t) ==
    /\ At(t, "to_half_open")
    /\ state' = "HalfOpen"
    /\ Goto(t, "clear_successes")
    /\ UNCHANGED <<failures, successes, elapsed, queue_up, retry>>

clear_successes(t) ==
    /\ At(t, "clear_successes")
    /\ successes' = 0
    /\ Goto(t, "attempt")
    /\ UNCHANGED <<state, failures, elapsed, queue_up, retry>>

\* HalfOpen: at most half_open_allowed_calls counted successes.
check_calls(t) ==
    /\ At(t, "check_calls")
    /\ Goto(t, IF successes < half_open_allowed_calls THEN "attempt" ELSE "idle")
    /\ UNCHANGED <<state, failures, successes, elapsed, queue_up, retry>>

-------------------------------------------------------------------------------
(***************************************************************************)
(* with_retry around publish_message: one HTTP request per step.  Both     *)
(* errors the queue can cause, ConnectionError and PublishError, are       *)
(* retried; back-off and jitter only delay the next attempt.               *)
(***************************************************************************)

\* A plausible off-by-one: one retry more than max_retries.
with_retry_more(t) ==
    /\ At(t, "attempt")
    /\ \/ /\ queue_up
          /\ Goto(t, "succeeded")
          /\ retry' = [retry EXCEPT ![t] = 0]
       \/ /\ ~ queue_up
          /\ retry[t] <= max_retries
          /\ retry' = [retry EXCEPT ![t] = @ + 1]
          /\ UNCHANGED pc
       \/ /\ ~ queue_up
          /\ retry[t] > max_retries
          /\ Goto(t, "failed")
          /\ retry' = [retry EXCEPT ![t] = 0]
    /\ UNCHANGED <<state, failures, successes, elapsed, queue_up>>

with_retry(t) ==
    /\ At(t, "attempt")
    /\ \/ /\ queue_up
          /\ Goto(t, "succeeded")
          /\ retry' = [retry EXCEPT ![t] = 0]
       \/ /\ ~ queue_up
          /\ retry[t] < max_retries
          /\ retry' = [retry EXCEPT ![t] = @ + 1]
          /\ UNCHANGED pc
       \/ /\ ~ queue_up
          /\ retry[t] >= max_retries
          /\ Goto(t, "failed")
          /\ retry' = [retry EXCEPT ![t] = 0]
    /\ UNCHANGED <<state, failures, successes, elapsed, queue_up>>

-------------------------------------------------------------------------------
(***************************************************************************)
(* record_success.                                                         *)
(***************************************************************************)
record_success(t) ==
    /\ At(t, "succeeded")
    /\ Goto(t, [Closed   |-> "reset_failures",
                HalfOpen |-> "count_success",
                Open     |-> "late_half_open"][state])
    /\ UNCHANGED <<state, failures, successes, elapsed, queue_up, retry>>

reset_failures(t) ==
    /\ At(t, "reset_failures")
    /\ failures' = 0
    /\ Goto(t, "idle")
    /\ UNCHANGED <<state, successes, elapsed, queue_up, retry>>

\* A plausible slip in the comparison below: one success too many is awaited.
count_success_late(t) ==
    /\ At(t, "count_success")
    /\ successes' = successes + 1
    /\ Goto(t, IF successes' > half_open_allowed_calls THEN "close" ELSE "idle")
    /\ UNCHANGED <<state, failures, elapsed, queue_up, retry>>

\* fetch_add(1) + 1 against half_open_allowed_calls.
count_success(t) ==
    /\ At(t, "count_success")
    /\ successes' = successes + 1
    /\ Goto(t, IF successes' >= half_open_allowed_calls THEN "close" ELSE "idle")
    /\ UNCHANGED <<state, failures, elapsed, queue_up, retry>>

close(t) ==
    /\ At(t, "close")
    /\ state' = "Closed"
    /\ Goto(t, "close_failures")
    /\ UNCHANGED <<failures, successes, elapsed, queue_up, retry>>

close_failures(t) ==
    /\ At(t, "close_failures")
    /\ failures' = 0
    /\ Goto(t, "close_successes")
    /\ UNCHANGED <<state, successes, elapsed, queue_up, retry>>

close_successes(t) ==
    /\ At(t, "close_successes")
    /\ successes' = 0
    /\ Goto(t, "idle")
    /\ UNCHANGED <<state, failures, elapsed, queue_up, retry>>

\* The success of a request that was let through before the circuit opened.
late_half_open(t) ==
    /\ At(t, "late_half_open")
    /\ state' = "HalfOpen"
    /\ Goto(t, "late_success")
    /\ UNCHANGED <<failures, successes, elapsed, queue_up, retry>>

late_success(t) ==
    /\ At(t, "late_success")
    /\ successes' = 1
    /\ Goto(t, "idle")
    /\ UNCHANGED <<state, failures, elapsed, queue_up, retry>>

-------------------------------------------------------------------------------
(***************************************************************************)
(* record_failure: the state is read first, then the time is stored.       *)
(***************************************************************************)
record_failure(t) ==
    /\ At(t, "failed")
    /\ Goto(t, [Closed   |-> "stamp_closed",
                HalfOpen |-> "stamp_half_open",
                Open     |-> "stamp_open"][state])
    /\ UNCHANGED <<state, failures, successes, elapsed, queue_up, retry>>

stamp_failure(t) ==
    /\ \/ At(t, "stamp_closed") /\ Goto(t, "count_failure")
       \/ At(t, "stamp_half_open") /\ Goto(t, "reopen")
       \/ At(t, "stamp_open") /\ Goto(t, "idle")
    /\ elapsed' = 0
    /\ UNCHANGED <<state, failures, successes, queue_up, retry>>

\* A plausible slip in the comparison below: the threshold must be passed.
count_failure_past(t) ==
    /\ At(t, "count_failure")
    /\ failures' = failures + 1
    /\ Goto(t, IF failures' > failure_threshold THEN "trip" ELSE "idle")
    /\ UNCHANGED <<state, successes, elapsed, queue_up, retry>>

count_failure(t) ==
    /\ At(t, "count_failure")
    /\ failures' = failures + 1
    /\ Goto(t, IF failures' >= failure_threshold THEN "trip" ELSE "idle")
    /\ UNCHANGED <<state, successes, elapsed, queue_up, retry>>

trip(t) ==
    /\ At(t, "trip")
    /\ state' = "Open"
    /\ Goto(t, "idle")
    /\ UNCHANGED <<failures, successes, elapsed, queue_up, retry>>

\* A plausible omission: a failed probe leaves the circuit half-open.
reopen_kept(t) ==
    /\ At(t, "reopen")
    /\ Goto(t, "reopen_successes")
    /\ UNCHANGED <<state, failures, successes, elapsed, queue_up, retry>>

reopen(t) ==
    /\ At(t, "reopen")
    /\ state' = "Open"
    /\ Goto(t, "reopen_successes")
    /\ UNCHANGED <<failures, successes, elapsed, queue_up, retry>>

reopen_successes(t) ==
    /\ At(t, "reopen_successes")
    /\ successes' = 0
    /\ Goto(t, "idle")
    /\ UNCHANGED <<state, failures, elapsed, queue_up, retry>>

-------------------------------------------------------------------------------
\* The wall clock; more than reset_timeout seconds make no difference.
Tick ==
    /\ elapsed < reset_timeout
    /\ elapsed' = elapsed + 1
    /\ UNCHANGED <<state, failures, successes, queue_up, pc, retry>>

\* The queue (another process) goes down or comes back.
QueueFlips ==
    /\ queue_up' = ~ queue_up
    /\ UNCHANGED <<state, failures, successes, elapsed, pc, retry>>

publish(t) ==
    \/ allow_request(t) \/ check_timeout(t) \/ to_half_open(t)
    \/ clear_successes(t) \/ check_calls(t)
    \/ with_retry(t)
    \/ record_success(t) \/ reset_failures(t) \/ count_success(t) \/ close(t)
    \/ close_failures(t) \/ close_successes(t)
    \/ late_half_open(t) \/ late_success(t)
    \/ record_failure(t) \/ stamp_failure(t) \/ count_failure(t) \/ trip(t)
    \/ reopen(t) \/ reopen_successes(t)

Next ==
    \/ \E t \in Tasks : publish(t)
    \/ Tick
    \/ QueueFlips

Spec == Init /\ [][Next]_vars

\* The runtime schedules every task, the tasks keep publishing (the metrics
\* loop publishes every 30 seconds) and time passes.
FairSpec ==
    /\ Spec
    /\ \A t \in Tasks : WF_vars(publish(t))
    /\ WF_vars(Tick)

-------------------------------------------------------------------------------
\* Every cell of the breaker and every local of a task has its type.
TypeOK ==
    /\ state \in CircuitState
    /\ failures \in Nat
    /\ successes \in Nat
    /\ elapsed \in 0 .. reset_timeout
    /\ queue_up \in BOOLEAN
    /\ pc \in [Tasks -> Points]
    /\ retry \in [Tasks -> 0 .. max_retries]

AtRest == \A t \in Tasks : pc[t] \in {"idle", "attempt"}

\* When no call of allow_request, record_success or record_failure is under
\* way, a half-open circuit still admits a probe: check_calls would otherwise
\* reject every later request and nothing could ever close the circuit again,
\* because only the result of an admitted request moves it.
HalfOpenAdmits ==
    AtRest /\ state = "HalfOpen" => successes < half_open_allowed_calls

\* When no call is under way, a closed circuit has not reached its failure
\* threshold: no interleaving of failures, or of a failure with the resets that
\* close the circuit, loses the trip that record_failure owes.
ThresholdTrips ==
    AtRest /\ state = "Closed" => failures < failure_threshold

\* If the queue stays up the circuit is closed again and again: whatever the
\* interleaving of the tasks was, the breaker recovers and publishing resumes.
Recovers == <>[]queue_up => []<>(state = "Closed")

\* If the queue stays down the circuit opens again and again, so that requests
\* are shed: the failures of concurrent tasks are never lost for good.
Sheds == <>[](~ queue_up) => []<>(state = "Open")
===============================================================================
