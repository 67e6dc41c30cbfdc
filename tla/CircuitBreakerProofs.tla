------------------------- MODULE CircuitBreakerProofs -------------------------
(***************************************************************************)
(* The two resting-state invariants of the circuit breaker, for any number *)
(* of tasks, any threshold and any timeout.                                *)
(***************************************************************************)
EXTENDS CircuitBreaker, TLAPS

\* A half-open circuit whose successes have reached the limit is about to be
\* changed by some task: to be closed, or to have the count stored afresh.
ProbesOwed ==
    state = "HalfOpen" /\ successes >= half_open_allowed_calls =>
        \E t \in Tasks : pc[t] \in {"close", "clear_successes", "late_success"}

\* A closed circuit whose failures have reached the threshold is about to be
\* changed by some task: to be opened, or to have the count reset.
TripOwed ==
    state = "Closed" /\ failures >= failure_threshold =>
        \E t \in Tasks : pc[t] \in {"trip", "close_failures"}

\* Types: every step keeps the cells of the breaker and the locals of the tasks
\* in their types.
THEOREM TypeCorrect == Spec => []TypeOK
<1>1. Init => TypeOK
  BY ConfigAssumption DEF Init, TypeOK, CircuitState, Points
<1>2. TypeOK /\ [Next]_vars => TypeOK'
  <2> SUFFICES ASSUME TypeOK, [Next]_vars PROVE TypeOK'
    OBVIOUS
  <2> USE ConfigAssumption DEF TypeOK, CircuitState, Goto, At
  <2>1. ASSUME NEW t \in Tasks, publish(t) PROVE TypeOK'
    <3>1. \A q \in Points : [pc EXCEPT ![t] = q] \in [Tasks -> Points]
      OBVIOUS
    <3>2. CASE allow_request(t) \/ check_timeout(t) \/ to_half_open(t)
                 \/ clear_successes(t) \/ check_calls(t)
      BY <3>1, <3>2 DEF allow_request, check_timeout, to_half_open, clear_successes,
                        check_calls, Points
    <3>3. CASE with_retry(t)
      BY <3>1, <3>3 DEF with_retry, Points
    <3>4. CASE record_success(t) \/ reset_failures(t) \/ count_success(t) \/ close(t)
                 \/ close_failures(t) \/ close_successes(t)
      BY <3>1, <3>4 DEF record_success, reset_failures, count_success, close,
                        close_failures, close_successes, Points
    <3>5. CASE late_half_open(t) \/ late_success(t) \/ record_failure(t) \/ trip(t)
                 \/ reopen(t) \/ reopen_successes(t)
      BY <3>1, <3>5 DEF late_half_open, late_success, record_failure, trip, reopen,
                        reopen_successes, Points
    <3>6. CASE stamp_failure(t)
      BY <3>1, <3>6 DEF stamp_failure, Points
    <3>7. CASE count_failure(t)
      BY <3>1, <3>7 DEF count_failure, Points
    <3> QED
      BY <2>1, <3>2, <3>3, <3>4, <3>5, <3>6, <3>7 DEF publish
  <2>2. CASE Tick
    BY <2>2 DEF Tick
  <2>3. CASE QueueFlips
    BY <2>3 DEF QueueFlips
  <2>4. CASE UNCHANGED vars
    BY <2>4 DEF vars
  <2> QED
    BY <2>1, <2>2, <2>3, <2>4 DEF Next
<1> QED
  BY <1>1, <1>2, PTL DEF Spec

-------------------------------------------------------------------------------
\* The trip is owed at every moment: only the steps named by TripOwed end the
\* situation it describes, and the steps that create it start one of them.
LEMMA TripOwedStep == TypeOK /\ TripOwed /\ [Next]_vars => TripOwed'
<1> SUFFICES ASSUME TypeOK, TripOwed, [Next]_vars PROVE TripOwed'
  OBVIOUS
<1> USE ConfigAssumption DEF TypeOK, TripOwed, Goto, At
<1>1. ASSUME NEW t \in Tasks, publish(t) PROVE TripOwed'
  <2>1. CASE trip(t)
    BY <2>1 DEF trip
  <2>2. CASE close_failures(t) \/ reset_failures(t)
    BY <2>2 DEF close_failures, reset_failures
  <2>3. CASE count_failure(t)
    BY <2>3 DEF count_failure
  <2>4. CASE close(t)
    BY <2>4 DEF close
  <2>5. CASE to_half_open(t) \/ late_half_open(t) \/ reopen(t)
    BY <2>5 DEF to_half_open, late_half_open, reopen
  <2>6. CASE allow_request(t) \/ check_timeout(t) \/ clear_successes(t) \/ check_calls(t)
    BY <2>6 DEF allow_request, check_timeout, clear_successes, check_calls
  <2>7. CASE with_retry(t)
    BY <2>7 DEF with_retry
  <2>8. CASE record_success(t) \/ count_success(t) \/ close_successes(t) \/ late_success(t)
    BY <2>8 DEF record_success, count_success, close_successes, late_success
  <2>9. CASE record_failure(t) \/ stamp_failure(t) \/ reopen_successes(t)
    BY <2>9 DEF record_failure, stamp_failure, reopen_successes
  <2> QED
    BY <1>1, <2>1, <2>2, <2>3, <2>4, <2>5, <2>6, <2>7, <2>8, <2>9 DEF publish
<1>2. CASE Tick \/ QueueFlips \/ UNCHANGED vars
  BY <1>2 DEF Tick, QueueFlips, vars
<1> QED
  BY <1>1, <1>2 DEF Next

\* The threshold trips the circuit (record_failure): for every set of tasks and
\* every configuration, no interleaving leaves a closed circuit at rest with its
\* threshold reached.
THEOREM ThresholdTheorem == Spec => []ThresholdTrips
<1>1. Init => TripOwed
  BY ConfigAssumption DEF Init, TripOwed
<1>2. TypeOK /\ TripOwed => ThresholdTrips
  BY ConfigAssumption DEF TypeOK, TripOwed, ThresholdTrips, AtRest
<1> QED
  BY <1>1, <1>2, TypeCorrect, TripOwedStep, PTL DEF Spec

-------------------------------------------------------------------------------
\* The same argument for the successes of a half-open circuit.  The success that
\* record_success counts in an open circuit is stored as 1, which is below the
\* limit only if the limit is at least 2.
LEMMA ProbesOwedStep ==
    ASSUME half_open_allowed_calls >= 2
    PROVE  TypeOK /\ ProbesOwed /\ [Next]_vars => ProbesOwed'
<1> SUFFICES ASSUME TypeOK, ProbesOwed, [Next]_vars PROVE ProbesOwed'
  OBVIOUS
<1> USE ConfigAssumption DEF TypeOK, ProbesOwed, Goto, At
<1>1. ASSUME NEW t \in Tasks, publish(t) PROVE ProbesOwed'
  <2>1. CASE close(t)
    BY <2>1 DEF close
  <2>2. CASE clear_successes(t) \/ late_success(t)
    BY <2>2 DEF clear_successes, late_success
  <2>3. CASE count_success(t)
    BY <2>3 DEF count_success
  <2>4. CASE to_half_open(t) \/ late_half_open(t)
    BY <2>4 DEF to_half_open, late_half_open
  <2>5. CASE trip(t) \/ reopen(t)
    BY <2>5 DEF trip, reopen
  <2>6. CASE close_successes(t) \/ reopen_successes(t)
    BY <2>6 DEF close_successes, reopen_successes
  <2>7. CASE allow_request(t) \/ check_timeout(t) \/ check_calls(t)
    BY <2>7 DEF allow_request, check_timeout, check_calls
  <2>8. CASE with_retry(t)
    BY <2>8 DEF with_retry
  <2>9. CASE record_success(t) \/ reset_failures(t) \/ close_failures(t)
    BY <2>9 DEF record_success, reset_failures, close_failures
  <2>10. CASE record_failure(t) \/ stamp_failure(t) \/ count_failure(t)
    BY <2>10 DEF record_failure, stamp_failure, count_failure
  <2> QED
    BY <1>1, <2>1, <2>2, <2>3, <2>4, <2>5, <2>6, <2>7, <2>8, <2>9, <2>10 DEF publish
<1>2. CASE Tick \/ QueueFlips \/ UNCHANGED vars
  BY <1>2 DEF Tick, QueueFlips, vars
<1> QED
  BY <1>1, <1>2 DEF Next

\* A half-open circuit admits a probe (allow_request): for every set of tasks,
\* and every configuration that allows at least two half-open calls, no
\* interleaving leaves a half-open circuit at rest that rejects every request.
THEOREM HalfOpenTheorem ==
    ASSUME half_open_allowed_calls >= 2
    PROVE  Spec => []HalfOpenAdmits
<1>1. Init => ProbesOwed
  BY DEF Init, ProbesOwed
<1>2. TypeOK /\ ProbesOwed => HalfOpenAdmits
  BY ConfigAssumption DEF TypeOK, ProbesOwed, HalfOpenAdmits, AtRest
<1>3. TypeOK /\ ProbesOwed /\ [Next]_vars => ProbesOwed'
  BY ProbesOwedStep
<1> QED
  BY <1>1, <1>2, <1>3, TypeCorrect, PTL DEF Spec
===============================================================================
